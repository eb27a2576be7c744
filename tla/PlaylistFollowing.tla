-------------------------- MODULE PlaylistFollowing --------------------------
(***************************************************************************)
(* Which playlist's ratings are shown: the category of the roster, of the  *)
(* rating graph and of the rank progress, and how they follow the playlist *)
(* being played (HandleUpdateState, TelemetryReducerUpdateState.cpp).      *)
(*                                                                         *)
(* The telemetry thread reads the settings and the categories into a       *)
(* context, reduces the update, and stores what comes of it later; the     *)
(* interface changes a setting and then the category it shows; the hotkey  *)
(* cycles the roster's category and then writes the settings.  A step that *)
(* stores what it decided before somebody else's change is recorded in the *)
(* ghost raced.                                                            *)
(***************************************************************************)
EXTENDS Integers, SequencesExt

CONSTANTS HotkeyOrder,         \* the categories as the hotkey cycles them, Best first
          Extras,        \* the extra playlists' categories
          Playlists,     \* category of a playlist id; Best where it has none
          NoId,          \* the game told no playlist id
          Lineups,       \* team sizes an update may show
          Venues,        \* what a match is played in: [arena, context, replay]
          Picks,         \* categories the user picks in the settings
          FirstConfs,    \* settings a launch may find
          MaxUserChoices,     \* bound: choices of the user
          MaxBegun       \* bound: matches begun

Best == "best"
OneVOne == "1v1"
TwoVTwo == "2v2"
ThreeVThree == "3v3"
Casual == "casual"
Categories == Range(HotkeyOrder)
Fields == {"roster", "graph", "rank"}
Switches == {"auto", "graphFollow", "rankFollow", "extras"}

IsVisible(category, extras) == extras \/ category \notin Extras
OrElse(category, extras, other) == IF IsVisible(category, extras) THEN category ELSE other
OrTwo(category, extras) == OrElse(category, extras, TwoVTwo)

\* Config::Load lets no hidden playlist stand.
Loaded(c) == [c EXCEPT !.graph = IF @ = Best THEN TwoVTwo ELSE OrTwo(@, c.extras),
                       !.rank = OrTwo(@, c.extras)]

ASSUME FollowingAssumption ==
  /\ HotkeyOrder[1] = Best /\ HotkeyOrder[2] = OneVOne /\ {TwoVTwo, ThreeVThree, Casual} \subseteq Categories
  /\ Extras \subseteq Categories \ {Best, OneVOne, TwoVTwo, Casual}
  /\ NoId \notin DOMAIN Playlists /\ Range(Playlists) \subseteq Categories
  /\ Venues \subseteq [arena : {Best} \cup Extras, context : {"open", "casual", "off"},
                      replay : BOOLEAN]
  /\ Picks \subseteq Categories
  /\ \A c \in FirstConfs : DOMAIN c = Fields \cup Switches /\ c = Loaded(c)

VARIABLES
  choice,      \* config.json: three categories and four switches
  changed,   \* Config::Revision differs from the one StatsClient knows
  cats,      \* UIState: the categories shown
  fight,     \* MatchState: what is known of the playlist, and what it has followed
  ctx,       \* the context of the update being reduced, or nothing
  update,    \* UiStateUpdate: categories still to be stored, or nothing
  storing,   \* what the interface still has to store after it changed a setting
  cycling,   \* the hotkey has cycled the roster: the extras flag it goes on with
  chosen,    \* ghost: the user has chosen another roster category than the followed one
  pinned,    \* ghost: the user has chosen the graph's category in this match
  fresh,     \* ghost: nothing has changed since the last update was read
  raced,     \* ghost: categories stored over a later change
  spent       \* what the bounds limit: [chosen, begun]

followVars == <<choice, changed, cats, fight, ctx, update, storing, cycling,
                chosen, pinned, fresh, raced, spent>>

Nothing == <<>>
NewFight == [id |-> NoId, arena |-> Best, context |-> "open", most |-> <<0, 0>>,
             started |-> FALSE, replay |-> FALSE, auto |-> Best, followed |-> Best]

GraphFallback(c) == IF c.graph = Best THEN TwoVTwo ELSE OrTwo(c.graph, c.extras)

\* App::Run and the constructor of StatsClient.
FollowInit ==
  /\ choice \in FirstConfs
  /\ changed = FALSE
  /\ cats = [roster |-> OrElse(choice.roster, choice.extras, Best), graph |-> GraphFallback(choice),
             rank |-> OrTwo(choice.rank, choice.extras)]
  /\ fight = NewFight /\ ctx = Nothing /\ update = Nothing /\ storing = Nothing
  /\ cycling = Nothing
  /\ chosen = FALSE /\ pinned = FALSE /\ fresh = FALSE /\ raced = {}
  /\ spent = [chosen |-> 0, begun |-> 0]

------------------------------------------------------------------------------
(* What is being played *)

CategoryFromTeamCounts(most, started) ==
  LET smaller == IF most[1] <= most[2] THEN most[1] ELSE most[2] IN
  CASE smaller >= 3 -> ThreeVThree
    [] smaller = 2 -> TwoVTwo
    [] started /\ most = <<1, 1>> -> OneVOne
    [] OTHER -> Best

CategoryFromMatchContext(f) ==
  CASE f.id # NoId -> Playlists[f.id]
    [] f.context = "off" -> Best
    [] f.context = "casual" -> Casual
    [] f.arena # Best -> f.arena
    [] OTHER -> CategoryFromTeamCounts(f.most, f.started)

\* Mutant: a hidden playlist is followed.
FollowableHidden(category, extras) == category # Best

\* Supported, and not one of the extra playlists the settings hide.
Followable(category, extras) == category # Best /\ IsVisible(category, extras)

------------------------------------------------------------------------------
(* An update: the context is read, *)

Aged(slot) == IF slot = Nothing THEN slot ELSE <<[slot[1] EXCEPT !.old = TRUE]>>

\* OnEvent: ApplyRankProgressConfig after a change of the settings, then MakeReducerContext.
ReadContext ==
  /\ ctx = Nothing /\ update = Nothing
  /\ LET rank == IF changed THEN OrTwo(cats.rank, choice.extras) ELSE cats.rank IN
     /\ cats' = [cats EXCEPT !.rank = rank]
     /\ ctx' = <<[conf |-> choice, roster |-> cats.roster, rank |-> rank, old |-> FALSE]>>
  /\ changed' = FALSE
  /\ UNCHANGED <<choice, fight, update, storing, cycling, chosen, pinned, fresh, raced, spent>>

\* the roster switches to the playlist, unless the user has chosen another since,
AutoSwitches(c, f) ==
  LET played == CategoryFromMatchContext(f) IN
  /\ c.conf.auto /\ Followable(played, c.conf.extras) /\ played # f.auto
  /\ f.auto = Best \/ c.roster = f.auto

\* the graph, once per playlist,
GraphFollows(c, f) ==
  LET played == CategoryFromMatchContext(f) IN
  c.conf.graphFollow /\ ~f.replay /\ Followable(played, c.conf.extras) /\ played # f.followed

\* and the rank progress each time.
RankShown(c, f) ==
  LET played == CategoryFromMatchContext(f) IN
  IF ~c.conf.rankFollow THEN OrTwo(c.conf.rank, c.conf.extras)
  ELSE IF ~f.replay /\ Followable(played, c.conf.extras) THEN played
  ELSE OrTwo(c.rank, c.conf.extras)

Stores(c, f) ==
  LET played == CategoryFromMatchContext(f)
      fields == {field \in Fields :
                   CASE field = "roster" -> AutoSwitches(c, f)
                     [] field = "graph" -> GraphFollows(c, f) \/ ~c.conf.graphFollow
                     [] OTHER -> RankShown(c, f) # c.rank}
  IN [field \in fields |->
        CASE field = "roster" -> played
          [] field = "graph" -> IF c.conf.graphFollow THEN played ELSE GraphFallback(c.conf)
          [] OTHER -> RankShown(c, f)]

Followed(c, f) ==
  LET played == CategoryFromMatchContext(f) IN
  [f EXCEPT !.auto = IF AutoSwitches(c, f) THEN played ELSE @,
            !.followed = IF ~c.conf.graphFollow THEN Best
                         ELSE IF GraphFollows(c, f) THEN played ELSE @]

\* A known playlist holds once a round of the match has been played.
Latched == fight.started /\ fight.id # NoId /\ Playlists[fight.id] # Best

\* What an update tells: the teams count only while there is no playlist id.
Told(id, lineup, started) ==
  [fight EXCEPT !.id = IF id = NoId \/ Latched THEN @ ELSE id, !.started = @ \/ started,
                !.most = IF fight.id # NoId \/ id # NoId THEN @
                         ELSE [t \in 1..2 |-> IF lineup[t] > @[t] THEN lineup[t] ELSE @[t]]]

\* It is reduced, by the context read before;
HandleUpdateState(id, lineup, started, spectator) ==
  /\ ctx # Nothing
  /\ LET told == Told(id, lineup, started)
         c == ctx[1]
     IN /\ fight' = IF spectator THEN told ELSE Followed(c, told)
        /\ update' = <<[stores |-> IF spectator THEN <<>> ELSE Stores(c, told),
                        old |-> c.old, all |-> ~spectator]>>
        /\ pinned' = (pinned /\ c.conf.graphFollow /\ (spectator \/ ~GraphFollows(c, told)))
  /\ ctx' = Nothing
  /\ UNCHANGED <<choice, changed, cats, storing, cycling, chosen, fresh, raced, spent>>

\* Another event resets the match: a new one, its arena and what it is said to be.
BeginPlaylist(venue) ==
  /\ ctx # Nothing /\ spent.begun < MaxBegun
  /\ fight' = venue @@ NewFight
  /\ ctx' = Nothing
  /\ chosen' = FALSE /\ pinned' = FALSE /\ fresh' = FALSE
  /\ spent' = [spent EXCEPT !.begun = @ + 1]
  /\ UNCHANGED <<choice, changed, cats, update, storing, cycling, raced>>

\* EffectRouter stores the categories.
RouteUpdate ==
  /\ update # Nothing
  /\ LET u == update[1] IN
     /\ cats' = u.stores @@ cats
     /\ raced' = IF u.old THEN raced \cup DOMAIN u.stores ELSE raced \ DOMAIN u.stores
     /\ fresh' = (u.all /\ ~u.old)
     /\ chosen' = (chosen /\ ~(u.old /\ "roster" \in DOMAIN u.stores))
  /\ update' = Nothing
  /\ UNCHANGED <<choice, changed, fight, ctx, storing, cycling, pinned, spent>>

------------------------------------------------------------------------------
(* The user *)

Chooses ==
  /\ spent.chosen < MaxUserChoices
  /\ spent' = [spent EXCEPT !.chosen = @ + 1]

\* Every other decision under way is older than this change.
Overtakes ==
  /\ ctx' = Aged(ctx) /\ update' = Aged(update)
  /\ fresh' = FALSE

\* A playlist is picked in the settings,
PickCategory(field, category) ==
  /\ storing = Nothing /\ Chooses /\ Overtakes
  /\ IsVisible(category, choice.extras) /\ (category = Best => field # "graph")
  /\ choice' = [choice EXCEPT ![field] = category] /\ changed' = TRUE
  /\ storing' = <<[stores |-> [f \in {field} |-> category], old |-> FALSE]>>
  /\ cycling' = Aged(cycling)
  /\ UNCHANGED <<cats, fight, chosen, pinned, raced>>

\* or a switch is turned: hiding the extra playlists takes them out of the settings too.
Turned(switch) ==
  LET c == [choice EXCEPT ![switch] = ~@] IN
  IF switch # "extras" \/ c.extras THEN c
  ELSE [c EXCEPT !.roster = OrElse(@, FALSE, Best), !.graph = OrTwo(@, FALSE),
                 !.rank = OrTwo(@, FALSE)]

TurnSwitch(switch) ==
  /\ storing = Nothing /\ Chooses /\ Overtakes
  /\ choice' = Turned(switch) /\ changed' = TRUE
  /\ LET stores == CASE switch = "graphFollow" /\ choice.graphFollow ->
                          [f \in {"graph"} |-> choice.graph]
                     [] switch = "rankFollow" /\ choice.rankFollow -> [f \in {"rank"} |-> choice.rank]
                     [] OTHER -> <<>>
     IN storing' = <<[stores |-> stores, old |-> FALSE,
                      hides |-> switch = "extras" /\ choice.extras]>>
  /\ cycling' = Aged(cycling)
  /\ UNCHANGED <<cats, fight, chosen, pinned, raced>>

Chosen(category) == IF fight.auto = Best THEN FALSE ELSE category # fight.auto

\* Then the interface stores what it shows now.
StoreChoice ==
  /\ storing # Nothing
  /\ LET s == storing[1]
         hides == "hides" \in DOMAIN s /\ s.hides
         hidden == [f \in Fields |-> OrElse(cats[f], FALSE, IF f = "roster" THEN Best ELSE TwoVTwo)]
         shown == s.stores @@ (IF hides THEN hidden ELSE cats)
     IN /\ cats' = shown
        /\ raced' = IF s.old THEN raced \cup DOMAIN s.stores
                    ELSE IF hides THEN {} ELSE raced \ DOMAIN s.stores
        /\ chosen' = IF shown.roster # cats.roster \/ "roster" \in DOMAIN s.stores
                     THEN Chosen(shown.roster) ELSE chosen
        /\ pinned' = (pinned \/ "graph" \in DOMAIN s.stores \/ shown.graph # cats.graph)
  /\ storing' = Nothing /\ Overtakes
  /\ cycling' = Aged(cycling)
  /\ UNCHANGED <<choice, changed, fight, spent>>

NextCategory(category, extras) ==
  LET at == CHOOSE i \in DOMAIN HotkeyOrder : HotkeyOrder[i] = category
      later == {i \in DOMAIN HotkeyOrder : i > at /\ IsVisible(HotkeyOrder[i], extras)}
  IN IF later = {} THEN Best ELSE HotkeyOrder[CHOOSE i \in later : \A j \in later : i <= j]

\* CycleMmrCategory: the roster first,
CycleRoster ==
  /\ cycling = Nothing /\ Chooses /\ Overtakes
  /\ LET next == NextCategory(cats.roster, choice.extras) IN
     /\ cats' = [cats EXCEPT !.roster = next]
     /\ cycling' = <<[next |-> next, extras |-> choice.extras, old |-> FALSE]>>
     /\ chosen' = Chosen(next)
  /\ raced' = raced \ {"roster"}
  /\ storing' = Aged(storing)
  /\ UNCHANGED <<choice, changed, fight, pinned>>

\* then, while the settings are written, the graph.
CycleGraph ==
  /\ cycling # Nothing /\ Overtakes
  /\ LET c == cycling[1]
         next == NextCategory(cats.graph, c.extras)
         graph == IF next = Best THEN OneVOne ELSE next
     IN IF choice.graphFollow
        THEN /\ choice' = [choice EXCEPT !.roster = c.next]
             /\ UNCHANGED <<cats, raced, pinned>>
        ELSE /\ choice' = [choice EXCEPT !.roster = c.next, !.graph = graph]
             /\ cats' = [cats EXCEPT !.graph = graph]
             /\ raced' = IF c.old THEN raced \cup {"graph", "roster"} ELSE raced \ {"graph"}
             /\ pinned' = TRUE
  /\ changed' = TRUE /\ cycling' = Nothing
  /\ storing' = Aged(storing)
  /\ UNCHANGED <<fight, chosen, spent>>

FollowNext ==
  \/ ReadContext
  \/ \E id \in {NoId} \cup DOMAIN Playlists, lineup \in Lineups, started, spectator \in BOOLEAN :
       HandleUpdateState(id, lineup, started, spectator)
  \/ \E venue \in Venues : BeginPlaylist(venue)
  \/ RouteUpdate
  \/ \E field \in Fields, category \in Picks : PickCategory(field, category)
  \/ \E switch \in Switches : TurnSwitch(switch)
  \/ StoreChoice
  \/ CycleRoster
  \/ CycleGraph

FollowSpec == FollowInit /\ [][FollowNext]_followVars

------------------------------------------------------------------------------
(* Properties *)

\* The state stays within its types.
FollowTypeOK ==
  /\ cats \in [Fields -> Categories]
  /\ fight.auto \in Categories
  /\ \A slot \in {ctx, update, storing, cycling} : Len(slot) <= 1
  /\ raced \subseteq Fields

Calm == ctx = Nothing /\ update = Nothing /\ storing = Nothing /\ cycling = Nothing

\* With the extra playlists hidden none of them is shown, wherever the choice came from: the
\* settings, the hotkey, the playlist being played, or the last launch.
ExtrasAreHidden ==
  Calm /\ ~choice.extras => \A field \in Fields \ raced : cats[field] \notin Extras

\* What follows the playlist shows it after each update: the caches that keep an update from
\* storing a category again never outlive the match or the switch they belong to.
CategoriesFollow ==
  LET played == CategoryFromMatchContext(fight) IN
  Calm /\ fresh /\ Followable(played, choice.extras) =>
    /\ choice.auto /\ ~chosen /\ "roster" \notin raced => cats.roster = played
    /\ ~fight.replay =>
         /\ choice.rankFollow => cats.rank = played
         /\ choice.graphFollow /\ ~pinned /\ "graph" \notin raced => cats.graph = played

\* The roster's category the user chooses during a match stays until he chooses again or the
\* next match begins: the followed playlist doesn't undo it.
ManualChoiceStands ==
  [][chosen /\ spent'.chosen = spent.chosen /\ storing' = storing =>
       cats'.roster = cats.roster \/ (update # Nothing /\ update[1].old)]_followVars
==============================================================================
