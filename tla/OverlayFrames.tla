---------------------------- MODULE OverlayFrames ----------------------------
(***************************************************************************)
(* What is on the screen: the overlay's loop (Overlay::RunLoop) runs the   *)
(* user interface (RmlUiController) once per frame, which looks at the     *)
(* game's state ten times a second, at the settings when they were         *)
(* changed, and at the clock when a card is due to go.  The reducer's      *)
(* thread, the input threads and other savers of settings change what it   *)
(* looks at in between.  RmlUi, Windows and the graphics card are external.*)
(***************************************************************************)
EXTENDS Integers, FiniteSetsExt

CONSTANTS
  CardRules,   \* the visibilities the card may be given in the settings
  FirstRule,   \* the one it has at first
  Interval,    \* kUiDataInterval
  SummaryLasts,\* MatchSummaryDurationMs
  LastMs,     \* bound: the clock
  MaxHappened, \* bound: what happens in the game
  MaxDone      \* bound: keys and buttons pressed, settings changed, the window hidden

ASSUME OverlayFramesAssumption ==
  /\ FirstRule \in CardRules /\ {Interval, SummaryLasts} \subseteq Nat \ {0}
  /\ {LastMs, MaxHappened, MaxDone} \subseteq Nat

VARIABLES
  steady,    \* SteadyNowMs
  match,    \* inMatch, inGoalReplay and the time of the last goal
  popup,    \* showMatchSummary and matchSummaryStartMs; half: the one is stored, not the other
  keys,     \* showOverlay, showMenu
  onFile,    \* Config: the settings, and their revision
  frame,    \* RunLoop's variables
  drawn,    \* what the overlay's or the dashboard's root was last built from and shows
  screen,   \* RmlUiController's other fields
  pointer,  \* whether the button is down, whether the interface thinks so, and whether it drags
  infront,  \* shouldDraw: the game is in front
  counted

framesVars == <<steady, match, popup, keys, onFile, frame, drawn, screen, pointer, infront, counted>>

NoWake == LastMs + SummaryLasts + 10

\* A card with a rule of its own, and the demo tracker of an old layout: shown in a match.
Cards == {"card", "demos"}
DemoRule == [mode |-> "key_held", seconds |-> 0, alsoKey |-> FALSE, hideReplay |-> TRUE]
RuleOf(config, card) == IF card = "card" THEN config.rule ELSE DemoRule

\* SnapshotVisibilityState, and what else RebuildVisibleUi loads.
Live == [match |-> match, keys |-> keys, popup |-> popup]

\* ActiveEventTimestampMs of a goal.
GoalTime(live) == IF live.match.in THEN live.match.goal ELSE 0

IsVisibilityActive(rule, live, t) ==
  /\ ~(rule.hideReplay /\ live.match.replay)
  /\ \/ rule.mode = "always"
     \/ rule.mode = "key_held" /\ live.keys.overlay
     \/ rule.mode = "in_match" /\ live.match.in
     \/ rule.mode = "menus_only" /\ ~live.match.in
     \/ rule.alsoKey /\ live.keys.overlay
     \/ /\ rule.mode = "after_event" /\ GoalTime(live) > 0
        /\ t >= GoalTime(live) /\ t - GoalTime(live) < rule.seconds

NextVisibilityChange(rule, live, t) ==
  IF \/ rule.hideReplay /\ live.match.replay
     \/ rule.mode # "after_event"
     \/ rule.alsoKey /\ live.keys.overlay
     \/ GoalTime(live) = 0
  THEN NoWake
  ELSE IF t < GoalTime(live) + rule.seconds THEN GoalTime(live) + rule.seconds ELSE NoWake

\* RenderOverlayContainer's visible.
CardVisible(config, card, live, t) ==
  \/ live.keys.menu
  \/ card = "card" /\ IsVisibilityActive(config.rule, live, t)
  \/ card = "demos" /\ live.match.in /\ ~live.match.replay

SummaryEnd(live) == live.popup.start + SummaryLasts
SummaryOver(live, t) == live.popup.on /\ t >= SummaryEnd(live)
SummaryVisible(live, t) == live.popup.on /\ t < SummaryEnd(live)

-----------------------------------------------------------------------------
FramesInit ==
  /\ steady = 1 /\ match = [in |-> FALSE, replay |-> FALSE, goal |-> 0]
  /\ popup = [on |-> FALSE, start |-> 0, half |-> FALSE]
  /\ keys = [overlay |-> FALSE, menu |-> FALSE]
  /\ onFile = [second |-> FALSE, rule |-> FirstRule, other |-> 0, rev |-> 0]
  /\ frame = [rev |-> 0, dirty |-> FALSE, updated |-> 1 - Interval, keys |-> keys,
              passed |-> FALSE, hidden |-> TRUE]
  /\ drawn = [root |-> "none", shown |-> {}, popup |-> FALSE, replay |-> FALSE, other |-> 0,
              torn |-> FALSE, seen |-> FALSE]
  /\ screen = [config |-> onFile, wake |-> NoWake, hash |-> <<>>, print |-> <<>>, ownRev |-> 0,
               deferred |-> FALSE, event |-> FALSE, due |-> FALSE, held |-> FALSE,
               missed |-> FALSE]
  /\ pointer = [down |-> FALSE, pressed |-> FALSE, drag |-> FALSE]
  /\ infront = TRUE
  /\ counted = [happened |-> 0, done |-> 0]

\* Another thread changes what the interface reads, perhaps while a root is being built of it.
NotSeenYet == drawn' = [drawn EXCEPT !.torn = screen.due \/ @, !.seen = FALSE]

\* The user, or another thread, does something.
Done == counted.done < MaxDone /\ counted' = [counted EXCEPT !.done = @ + 1]

-----------------------------------------------------------------------------
\* The game, through the reducer and EffectRouter.

OneMore ==
  /\ counted.happened < MaxHappened /\ ~popup.half /\ NotSeenYet
  /\ counted' = [counted EXCEPT !.happened = @ + 1]
  /\ UNCHANGED <<steady, onFile, frame, screen, pointer, infront>>

\* matchReset and resetTimestamps: the overlay and the last summary go.
StartMatch ==
  /\ ~match.in /\ match' = [in |-> TRUE, replay |-> FALSE, goal |-> 0]
  /\ popup' = [popup EXCEPT !.on = FALSE] /\ keys' = [keys EXCEPT !.overlay = FALSE] /\ OneMore

GoalIsScored ==
  /\ match.in /\ match' = [match EXCEPT !.goal = steady] /\ UNCHANGED <<popup, keys>> /\ OneMore

ToggleReplay ==
  /\ match.in /\ match' = [match EXCEPT !.replay = ~@] /\ UNCHANGED <<popup, keys>> /\ OneMore

\* The end of the match is stored field by field: the flag before the time.
EndMatch ==
  /\ match.in /\ match' = [match EXCEPT !.in = FALSE, !.replay = FALSE]
  /\ popup' = [popup EXCEPT !.on = TRUE, !.half = TRUE] /\ UNCHANGED keys /\ OneMore

StoreSummaryStart ==
  /\ popup.half /\ popup' = [popup EXCEPT !.start = steady, !.half = FALSE] /\ NotSeenYet
  /\ UNCHANGED <<steady, match, keys, onFile, frame, screen, pointer, infront, counted>>

\* The keyboard's thread.
PressCardKey ==
  /\ Done /\ NotSeenYet
  /\ \E k \in {"overlay", "menu"} : keys' = [keys EXCEPT ![k] = ~@]
  /\ UNCHANGED <<steady, match, popup, onFile, frame, screen, pointer, infront>>

\* Another thread saves a setting that is shown (the account seen, the playlist followed, ...).
CommitElsewhere ==
  /\ Done /\ onFile' = [onFile EXCEPT !.other = @ + 1, !.rev = @ + 1]
  /\ UNCHANGED <<steady, match, popup, keys, frame, drawn, screen, pointer, infront>>

\* The game loses or gets the focus.
HideOrShow ==
  /\ IF infront THEN Done ELSE UNCHANGED counted
  /\ infront' = ~infront
  /\ UNCHANGED <<steady, match, popup, keys, onFile, frame, drawn, screen, pointer>>

-----------------------------------------------------------------------------
\* RebuildVisibleUi, for the fields u of the controller.

Held(force) == pointer.drag \/ (pointer.pressed /\ pointer.down /\ ~force)

RuntimeHash(config, live, t) ==
  [keys |-> live.keys, popup |-> SummaryVisible(live, t), in |-> live.match.in,
   second |-> config.second,
   active |-> IF config.second THEN {}
              ELSE {c \in Cards : IsVisibilityActive(RuleOf(config, c), live, t)}]

\* The fingerprint of the settings: all that is rendered, but not the rules of single widgets.
Fingerprint(config) == <<config.second, config.other>>

WakeTime(config, live, t) ==
  IF config.second \/ live.keys.menu THEN NoWake
  ELSE Min({NextVisibilityChange(RuleOf(config, c), live, t) : c \in Cards}
             \cup (IF SummaryVisible(live, t) THEN {SummaryEnd(live)} ELSE {}))

\* While a button is held nothing is rebuilt, and nothing waited for.
HoldsBack(u, changed) ==
  /\ screen' = [u EXCEPT !.wake = NoWake, !.held = TRUE,
                         !.missed = @ \/ (changed /\ ~u.deferred)]
  /\ UNCHANGED <<popup, drawn>>

Rebuilds(u, force, changed) ==
  LET hash == RuntimeHash(u.config, Live, steady)
      print == IF force \/ changed THEN Fingerprint(u.config) ELSE u.print
      dirty == force \/ print # u.print \/ hash # u.hash
  IN /\ popup' = [popup EXCEPT !.on = @ /\ ~SummaryOver(Live, steady)]
     /\ screen' = [u EXCEPT !.wake = WakeTime(u.config, Live, steady), !.held = FALSE,
                            !.deferred = FALSE, !.print = print, !.due = dirty,
                            !.hash = IF dirty THEN hash ELSE @,
                            !.missed = @ /\ ~dirty /\ ~changed]
     /\ drawn' = [drawn EXCEPT !.torn = @ /\ ~dirty, !.seen = TRUE]

RebuildVisibleUi(u, force, changed) ==
  /\ pointer' = [pointer EXCEPT !.pressed = @ /\ pointer.down]
  /\ IF Held(force) THEN HoldsBack(u, changed) ELSE Rebuilds(u, force, changed)

\* RebuildOverlay and RebuildDashboard, which load the state again.
BuildRoot ==
  /\ screen.due /\ screen' = [screen EXCEPT !.due = FALSE]
  /\ popup' = [popup EXCEPT !.on = @ /\ ~(~screen.config.second /\ SummaryOver(Live, steady))]
  /\ drawn' = [root |-> IF screen.config.second THEN "dashboard" ELSE "overlay",
               shown |-> {c \in Cards : CardVisible(screen.config, c, Live, steady)},
               popup |-> SummaryVisible(Live, steady), replay |-> match.replay,
               other |-> screen.config.other, torn |-> drawn.torn, seen |-> drawn.seen]
  /\ UNCHANGED <<steady, match, keys, onFile, frame, pointer, infront, counted>>

-----------------------------------------------------------------------------
\* The user in the interface.  (Its events are handled on the loop's thread, between passes.)

InterfaceEvent == ~screen.due /\ infront /\ ~frame.hidden

PressMouse ==
  /\ InterfaceEvent /\ ~pointer.down /\ Done
  /\ \E drag \in BOOLEAN : pointer' = [down |-> TRUE, pressed |-> TRUE, drag |-> drag]
  /\ UNCHANGED <<steady, match, popup, keys, onFile, frame, drawn, screen, infront>>

\* The interface is told that the button is up, or not: the window is hidden, or lets clicks pass.
ReleaseMouse ==
  /\ pointer.down /\ ~screen.due
  /\ \/ /\ InterfaceEvent /\ pointer' = [down |-> FALSE, pressed |-> FALSE, drag |-> FALSE]
        /\ screen' = [screen EXCEPT !.event = TRUE]
     \/ pointer' = [pointer EXCEPT !.down = FALSE] /\ UNCHANGED screen
  /\ UNCHANGED <<steady, match, popup, keys, onFile, frame, drawn, infront, counted>>

\* A drag whose end was not told ends with the next click.
ClickAgain ==
  /\ InterfaceEvent /\ pointer.drag /\ ~pointer.down
  /\ pointer' = [down |-> FALSE, pressed |-> FALSE, drag |-> FALSE]
  /\ screen' = [screen EXCEPT !.event = TRUE]
  /\ UNCHANGED <<steady, match, popup, keys, onFile, frame, drawn, infront, counted>>

\* HandleChange in the settings: of a list, whose rebuild waits for the next pass, or of a switch.
ChangeConfig(config, list) ==
  /\ InterfaceEvent /\ keys.menu /\ ~pointer.down /\ ~pointer.drag
  /\ Done /\ onFile' = [config EXCEPT !.rev = @ + 1]
  /\ LET u == [screen EXCEPT !.config = onFile', !.ownRev = onFile'.rev, !.event = TRUE]
     IN IF list THEN /\ screen' = [u EXCEPT !.deferred = TRUE]
                     /\ UNCHANGED <<pointer, popup, drawn>>
        ELSE RebuildVisibleUi(u, TRUE, TRUE)
  /\ UNCHANGED <<steady, match, keys, frame, infront>>

ChangeRule == \E rule \in CardRules \ {onFile.rule} : ChangeConfig([onFile EXCEPT !.rule = rule], TRUE)
ChangeMode == ChangeConfig([onFile EXCEPT !.second = ~@], FALSE)

\* ProcessEvent takes a revision saved by another thread during the event for its own.
CommitDuringEvent ==
  /\ InterfaceEvent /\ Done
  /\ onFile' = [onFile EXCEPT !.other = @ + 1, !.rev = @ + 1]
  /\ screen' = [screen EXCEPT !.ownRev = onFile'.rev, !.missed = TRUE]
  /\ UNCHANGED <<steady, match, popup, keys, frame, drawn, pointer, infront>>

-----------------------------------------------------------------------------
\* A pass of RunLoop.

KeepsDirty == frame.dirty \/ onFile.rev # frame.rev

UpdateIsDue ==
  \/ KeepsDirty \/ frame.keys # keys \/ steady >= screen.wake \/ screen.event
  \/ steady - frame.updated >= Interval

\* RmlUiController::Update.
UpdateFrame(changed) ==
  LET own == changed /\ onFile.rev # 0 /\ onFile.rev = screen.ownRev
      config == IF changed THEN onFile ELSE screen.config
      u == [screen EXCEPT !.event = FALSE, !.config = config]
  IN RebuildVisibleUi(u, FALSE, (changed /\ ~own) \/ screen.deferred)

PassHidden ==
  /\ ~infront /\ ~screen.due
  /\ frame' = [frame EXCEPT !.rev = onFile.rev, !.dirty = KeepsDirty, !.passed = TRUE,
                            !.hidden = TRUE]
  /\ UNCHANGED <<steady, match, popup, keys, onFile, drawn, screen, pointer, infront, counted>>

Pass ==
  /\ infront /\ ~screen.due
  /\ IF UpdateIsDue
     THEN /\ frame' = [rev |-> onFile.rev, dirty |-> FALSE, updated |-> steady, keys |-> keys,
                       passed |-> TRUE, hidden |-> FALSE]
          /\ UpdateFrame(KeepsDirty)
     ELSE /\ frame' = [frame EXCEPT !.rev = onFile.rev, !.passed = TRUE, !.hidden = FALSE]
          /\ UNCHANGED <<popup, drawn, screen, pointer>>
  /\ UNCHANGED <<steady, match, keys, onFile, infront, counted>>

\* Time goes on; the loop is not slower than this model's clock.
ClockMoves ==
  /\ steady < LastMs /\ ~screen.due /\ ~popup.half /\ frame.passed
  /\ steady' = steady + 1 /\ frame' = [frame EXCEPT !.passed = FALSE]
  /\ UNCHANGED <<match, popup, keys, onFile, drawn, screen, pointer, infront, counted>>

FramesNext ==
  \/ StartMatch \/ GoalIsScored \/ ToggleReplay \/ EndMatch \/ StoreSummaryStart
  \/ PressCardKey \/ CommitElsewhere \/ HideOrShow \/ BuildRoot
  \/ PressMouse \/ ReleaseMouse \/ ClickAgain \/ ChangeRule \/ ChangeMode \/ CommitDuringEvent
  \/ PassHidden \/ Pass \/ ClockMoves

FramesSpec == FramesInit /\ [][FramesNext]_framesVars

-----------------------------------------------------------------------------
FramesTypeOK ==
  /\ steady \in 1..LastMs /\ match \in [in : BOOLEAN, replay : BOOLEAN, goal : 0..LastMs]
  /\ popup \in [on : BOOLEAN, start : 0..LastMs, half : BOOLEAN]
  /\ keys \in [overlay : BOOLEAN, menu : BOOLEAN] /\ drawn.shown \subseteq Cards
  /\ onFile.rev \in 0..MaxDone /\ onFile.other \in 0..onFile.rev /\ onFile.rule \in CardRules
  /\ screen.wake \in Nat /\ infront \in BOOLEAN

\* The loop has done its pass for this instant, nothing has happened since, no button is held.
NothingPending ==
  /\ infront /\ frame.passed /\ ~frame.hidden /\ ~screen.due /\ ~screen.held /\ drawn.seen
  /\ ~screen.deferred

\* A card is on the screen exactly when its rule says so, by the state and by the clock: it goes
\* at the instant its seconds are over, also when no update of the data falls on it.  (The demo
\* tracker does not notice that a goal's replay began or ended; and a change that came while the
\* root was built, and was undone, is not noticed.)
CardsAreRight ==
  NothingPending /\ drawn.root = "overlay" /\ ~drawn.torn /\ ~screen.config.second =>
    \A c \in Cards : \/ (c \in drawn.shown) = CardVisible(screen.config, c, Live, steady)
                     \/ c = "demos" /\ drawn.replay # match.replay

\* The summary of the match is on the screen while its time lasts, and not after it (a tenth of a
\* second later when the settings are open).
SummaryIsRight ==
  NothingPending /\ drawn.root = "overlay" /\ ~drawn.torn /\ ~screen.config.second /\ ~keys.menu =>
    drawn.popup = SummaryVisible(Live, steady)

\* The interface that the settings ask for is shown, with the settings as they are; also when they
\* were changed while the window was hidden.  (But not what was saved while a button was held, or
\* during an event of the interface, until something else is rebuilt.)
SettingsAreShown ==
  NothingPending /\ onFile.rev = frame.rev /\ ~frame.dirty =>
    /\ screen.config = onFile /\ drawn.root = IF onFile.second THEN "dashboard" ELSE "overlay"
    /\ screen.missed \/ drawn.other = onFile.other

\* The summary does not go before its time, unless the next match starts.  (But it does when the
\* interface looks between the two stores of the reducer's thread.)
SummaryLastsItsTime ==
  [][popup.on /\ ~popup'.on /\ ~popup.half => match'.in \/ steady >= SummaryEnd(Live)]_framesVars

=============================================================================
