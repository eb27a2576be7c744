----------------------------- MODULE OverlayHold -----------------------------
(***************************************************************************)
(* When the overlay is shown, and what a gamepad does: InputManager's two  *)
(* threads poll the overlay key and the gamepad and record who holds the   *)
(* overlay, while the settings may be waiting for a button to bind, the    *)
(* user may press Escape, the end of a match hides the overlay and the     *)
(* gamepad may be unplugged with its buttons held.  SDL and Windows' key   *)
(* states are external: they say what is held now.                         *)
(***************************************************************************)
EXTENDS Naturals

CONSTANTS
  MaxUnplugs,   \* bound: how often the gamepad is unplugged
  MaxCaptures,  \* bound: how often a button is captured
  MaxPushes     \* bound: how often the menu button goes down

ASSUME OverlayHoldAssumption == {MaxUnplugs, MaxCaptures, MaxPushes} \subseteq Nat

VARIABLES
  keyDown,      \* the overlay key is held, Alt is not and the game is in front
  padPresent,   \* the gamepad is plugged in
  holdDown,     \* its overlay button is held
  menuDown,     \* its menu button is held
  opened,       \* the gamepad the gamepad thread has open: "no", "yes", "gone" (not attached)
  seenDown,     \* prevControllerStates of the menu button
  keyboardPass, \* the keyboard thread: "top", or what its look at the capture flag told it
  padPass,      \* the gamepad thread's pass: where it is, what its look at the flag told it, when
                \* that was (how many captures had begun), and the buttons it read
  holds,        \* m_overlayHolds
  shown,        \* showOverlay
  menuShown,    \* showMenu
  capturing,    \* inputCaptureActive
  lastButton,   \* lastControllerButtonPressed: 0 for none, else which push of the menu button
  boundBy,      \* the push that became a binding, the last one
  pushes,       \* how often the menu button went down, or a gamepad came with it held
  toggles,      \* how often that toggled the menu
  unplugs, captures

buttons == <<keyDown, padPresent, holdDown, menuDown>>
counters == <<pushes, unplugs, captures>>
passes == <<keyboardPass, padPass>>
holdVars == <<buttons, opened, seenDown, passes, holds, shown, menuShown, capturing, lastButton,
              boundBy, counters, toggles>>

NoPass == [at |-> "top", captured |-> FALSE, began |-> 0, hold |-> FALSE, menu |-> 0]

-----------------------------------------------------------------------------
HoldInit ==
  /\ keyDown = FALSE /\ padPresent \in BOOLEAN /\ holdDown = FALSE /\ menuDown = FALSE
  /\ opened = "no" /\ seenDown = FALSE /\ holds = [source \in {"keyboard", "gamepad"} |-> FALSE]
  /\ keyboardPass = "top" /\ padPass = NoPass
  /\ shown = FALSE /\ menuShown = FALSE /\ capturing = FALSE /\ lastButton = 0
  /\ boundBy = 0 /\ pushes = 0 /\ toggles = 0 /\ unplugs = 0 /\ captures = 0

\* What the user does.

PressOverlayKey ==
  /\ keyDown' = ~keyDown
  /\ UNCHANGED <<padPresent, holdDown, menuDown, opened, seenDown, passes, holds, shown, menuShown,
                 capturing, lastButton, boundBy, counters, toggles>>

PressHoldButton ==
  /\ padPresent /\ holdDown' = ~holdDown
  /\ UNCHANGED <<keyDown, padPresent, menuDown, opened, seenDown, passes, holds, shown, menuShown,
                 capturing, lastButton, boundBy, counters, toggles>>

PressMenuButton ==
  /\ padPresent /\ menuDown' = ~menuDown /\ (~menuDown => pushes < MaxPushes)
  /\ pushes' = IF menuDown THEN pushes ELSE pushes + 1
  /\ UNCHANGED <<keyDown, padPresent, holdDown, opened, seenDown, passes, holds, shown, menuShown,
                 capturing, lastButton, boundBy, unplugs, captures, toggles>>

\* The gamepad goes, or comes, with its buttons held or not.
PlugOrUnplug ==
  /\ IF padPresent THEN unplugs < MaxUnplugs /\ unplugs' = unplugs + 1
                        /\ holdDown' = FALSE /\ menuDown' = FALSE /\ UNCHANGED pushes
     ELSE /\ holdDown' \in BOOLEAN /\ menuDown' \in BOOLEAN /\ UNCHANGED unplugs
          /\ menuDown' => pushes < MaxPushes
          /\ pushes' = IF menuDown' THEN pushes + 1 ELSE pushes
  /\ padPresent' = ~padPresent /\ opened' = IF opened = "yes" THEN "gone" ELSE opened
  /\ UNCHANGED <<keyDown, seenDown, passes, holds, shown, menuShown, capturing, lastButton,
                 boundBy, captures, toggles>>

\* HandleEscape, which closes the settings, and EffectRouter's hideOverlay.
Escape ==
  /\ menuShown /\ ~capturing /\ menuShown' = FALSE /\ shown' = FALSE
  /\ UNCHANGED <<buttons, opened, seenDown, passes, holds, capturing, lastButton, boundBy,
                 counters, toggles>>

HideOverlay ==
  /\ shown /\ shown' = FALSE
  /\ UNCHANGED <<buttons, opened, seenDown, passes, holds, menuShown, capturing, lastButton,
                 boundBy, counters, toggles>>

\* InputCaptureService: a gamepad button is wanted for some binding ...
BeginBinding ==
  /\ ~capturing /\ captures < MaxCaptures /\ captures' = captures + 1
  /\ capturing' = TRUE /\ lastButton' = 0
  /\ UNCHANGED <<buttons, opened, seenDown, passes, holds, shown, menuShown, boundBy, pushes,
                 unplugs, toggles>>

\* ... and one is pressed, or Escape.
FinishBinding ==
  /\ capturing /\ capturing' = FALSE
  /\ boundBy' = IF lastButton # 0 THEN lastButton ELSE boundBy
  /\ UNCHANGED <<buttons, opened, seenDown, passes, holds, shown, menuShown, lastButton, counters,
                 toggles>>

-----------------------------------------------------------------------------
Visible(h) == h.keyboard \/ h.gamepad

\* SetOverlayHeld, under m_overlayHoldMutex.
SetOverlayHeld(source, held) ==
  /\ holds' = [holds EXCEPT ![source] = held]
  /\ shown' = IF capturing THEN shown ELSE Visible(holds')

\* A pass of KeyboardThreadLoop looks whether a capture is on ...
LookAtCapture ==
  /\ keyboardPass = "top" /\ keyboardPass' = IF capturing THEN "capturing" ELSE "free"
  /\ UNCHANGED <<buttons, opened, seenDown, padPass, holds, shown, menuShown, capturing,
                 lastButton, boundBy, counters, toggles>>

\* ... and polls the overlay key as its last step (the hotkeys: HotKeys).
PollKeyboard ==
  /\ keyboardPass # "top" /\ keyboardPass' = "top"
  /\ SetOverlayHeld("keyboard", keyboardPass = "free" /\ keyDown)
  /\ UNCHANGED <<buttons, opened, seenDown, padPass, menuShown, capturing, lastButton, boundBy,
                 counters, toggles>>

\* GamepadThreadLoop: a pass without a gamepad, which looks for one every two seconds ...
OpenGamepad ==
  /\ padPass.at = "top" /\ opened = "no" /\ padPresent /\ opened' = "yes"
  /\ UNCHANGED <<buttons, seenDown, passes, holds, shown, menuShown, capturing, lastButton,
                 boundBy, counters, toggles>>

\* ... or has nothing to do, but to say that there is none.
WaitForGamepad ==
  /\ padPass.at = "top" /\ opened = "no" /\ ~padPresent /\ SetOverlayHeld("gamepad", FALSE)
  /\ UNCHANGED <<buttons, opened, seenDown, passes, menuShown, capturing, lastButton, boundBy,
                 counters, toggles>>

\* A pass with one looks once whether a capture is on.
BeginPadPass ==
  /\ padPass.at = "top" /\ opened # "no"
  /\ padPass' = [NoPass EXCEPT !.at = "looked", !.captured = capturing, !.began = captures]
  /\ UNCHANGED <<buttons, opened, seenDown, keyboardPass, holds, shown, menuShown, capturing,
                 lastButton, boundBy, counters, toggles>>

\* Mutant: the overlay is left as the gamepad held it.
StaysHeld == UNCHANGED <<holds, shown>>

HoldEnds == SetOverlayHeld("gamepad", FALSE)

\* It finds the gamepad gone, ...
LoseGamepad ==
  /\ padPass.at = "looked" /\ opened = "gone" /\ padPass' = NoPass
  /\ opened' = "no" /\ seenDown' = FALSE /\ HoldEnds
  /\ UNCHANGED <<buttons, keyboardPass, menuShown, capturing, lastButton, boundBy, counters,
                 toggles>>

\* ... or reads its buttons, which a capture may take, ...
ReadButtons ==
  /\ padPass.at = "looked" /\ opened = "yes"
  /\ padPass' = [padPass EXCEPT !.at = "read", !.hold = holdDown,
                                !.menu = IF menuDown THEN pushes ELSE 0]
  /\ lastButton' = IF menuDown THEN pushes ELSE lastButton
  /\ UNCHANGED <<buttons, opened, seenDown, keyboardPass, holds, shown, menuShown, capturing,
                 boundBy, counters, toggles>>

\* ... says whether they hold the overlay, ...
HoldOverlay ==
  /\ padPass.at = "read" /\ padPass' = [padPass EXCEPT !.at = "held"]
  /\ SetOverlayHeld("gamepad", ~padPass.captured /\ padPass.hold)
  /\ UNCHANGED <<buttons, opened, seenDown, keyboardPass, menuShown, capturing, lastButton,
                 boundBy, counters, toggles>>

SeenNow == padPass.menu # 0

\* Mutant: the button acts as long as it is held.
HeldDown == padPass.menu # 0

\* isPressed.
JustPressed == padPass.menu # 0 /\ ~seenDown

\* ... and acts on what was pressed when it did not see a capture.  (ToggleSettingsMenu; the other
\* actions are HotKeys'.)
ActOnButtons ==
  /\ padPass.at = "held" /\ padPass' = NoPass /\ seenDown' = SeenNow
  /\ LET acts == ~padPass.captured /\ JustPressed
     IN /\ menuShown' = IF acts THEN ~menuShown ELSE menuShown
        /\ toggles' = IF acts THEN toggles + 1 ELSE toggles
  /\ UNCHANGED <<buttons, opened, keyboardPass, holds, shown, capturing, lastButton, boundBy,
                 counters>>

KeyboardHold == LookAtCapture \/ PollKeyboard
PadPass == BeginPadPass \/ LoseGamepad \/ ReadButtons \/ HoldOverlay \/ ActOnButtons
GamepadThread == OpenGamepad \/ WaitForGamepad \/ PadPass

HoldNext ==
  \/ PressOverlayKey \/ PressHoldButton \/ PressMenuButton \/ PlugOrUnplug
  \/ Escape \/ HideOverlay \/ BeginBinding \/ FinishBinding
  \/ KeyboardHold \/ GamepadThread

HoldFairness == WF_holdVars(KeyboardHold) /\ WF_holdVars(GamepadThread)
HoldSpec == HoldInit /\ [][HoldNext]_holdVars /\ HoldFairness

-----------------------------------------------------------------------------
HoldTypeOK ==
  /\ {keyDown, padPresent, holdDown, menuDown, seenDown, shown, menuShown, capturing}
       \subseteq BOOLEAN
  /\ opened \in {"no", "yes", "gone"} /\ holds \in [{"keyboard", "gamepad"} -> BOOLEAN]
  /\ keyboardPass \in {"top", "capturing", "free"}
  /\ padPass \in [at : {"top", "looked", "read", "held"}, captured : BOOLEAN,
                  began : 0..MaxCaptures, hold : BOOLEAN, menu : 0..MaxPushes]
  /\ {lastButton, boundBy} \subseteq 0..MaxPushes
  /\ pushes \in 0..MaxPushes /\ unplugs \in 0..MaxUnplugs /\ captures \in 0..MaxCaptures

\* The overlay does not stay over the game when nothing is held any more, whether a key was let
\* go or a gamepad unplugged with the button held.
LetGo == ~keyDown /\ ~(padPresent /\ holdDown)
OverlayGoesAway == <>[](LetGo /\ ~capturing) => <>[]~shown

\* A hold that lasts shows the overlay again, whoever hid it.
HeldIsShown ==
  /\ <>[](~capturing /\ keyDown) => []<>shown
  /\ <>[](~capturing /\ padPresent /\ holdDown) => []<>shown

\* A press that became a binding does nothing more, also when it lasts longer than the capture;
\* except in the pass that read it, when the capture began after that pass had looked.
BindingPressDoesNothing ==
  [][toggles' # toggles => padPass.menu # boundBy \/ captures # padPass.began]_holdVars

\* A press acts once, however long it is held.
PressActsOnce == toggles <= pushes

\* A gamepad that is gone holds the overlay no more, once the pass that found that is over.
NoPadHoldsNothing == opened = "no" => ~holds.gamepad
=============================================================================
