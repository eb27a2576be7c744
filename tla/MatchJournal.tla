---------------------------- MODULE MatchJournal ----------------------------
(***************************************************************************)
(* What is counted and noted of a running match: the statistics of the     *)
(* user and the journal of TelemetryReducerStats.cpp.                      *)
(*                                                                         *)
(* The game names the player of an event by id, by name and team, or by    *)
(* name alone; it may report an event twice, hold one back until after the *)
(* next update or into the next match, and show everything again in a goal *)
(* replay.  Where the code can't tell such a report from a new one, the    *)
(* ghost extra counts it; everything else must come out right.             *)
(***************************************************************************)
EXTENDS Integers, SequencesExt, FiniteSetsExt

CONSTANTS Cast,          \* the players of the match
          Me,            \* the user
          NameOf, SideOf,\* their names and teams
          NoPlayerId, NoGuid,  \* the empty id, the empty guid
          Guids,         \* the guids of the matches played, in their order
          Plays,         \* what is played: [kind, by, ref, keyed, tells]
          JournalLimit,  \* 512 events
          MaxEvents,     \* bound: events
          MaxRepeats     \* bound: events reported twice, held back or shown again

\* ParsePlayerRef: what a report may say of a player.
References(p) ==
  {[id |-> p, name |-> NameOf[p], team |-> SideOf[p]]} \cup
  {[id |-> NoPlayerId, name |-> NameOf[p], team |-> t] : t \in {SideOf[p], -1}}

ASSUME JournalAssumption ==
  /\ Me \in Cast /\ NoPlayerId \notin Cast /\ NoGuid \notin Range(Guids) /\ JournalLimit \in Nat \ {0}
  /\ DOMAIN NameOf = Cast /\ DOMAIN SideOf = Cast
  /\ \A play \in Plays : play.ref \in References(play.by)

VARIABLES
  truth,     \* the game itself: its match, and what the user has really done in it
  sheet,    \* MatchState: what the program has counted and noted
  late,     \* an event that is still to be reported
  last,     \* the event reported last
  extra,    \* ghost: reports nobody could tell from new ones
  budget    \* what the bounds limit

journalVars == <<truth, sheet, late, last, extra, budget>>

PlayKinds == {"shot", "goal", "crossbar"}
Unheld == <<>>
NoCounts == [k \in PlayKinds |-> 0]
BlankSheet == [guid |-> NoGuid, ended |-> FALSE, replay |-> FALSE, seats |-> {}, own |-> NoCounts,
               goals |-> 0, journal |-> <<>>, keys |-> {}]

JournalInit ==
  /\ truth = [guid |-> NoGuid, own |-> NoCounts, goals |-> 0]
  /\ sheet = BlankSheet @@ [open |-> FALSE, finalized |-> {}]
  /\ late = Unheld /\ last = Unheld /\ extra = NoCounts @@ [all |-> 0]
  /\ budget = [events |-> 0, repeats |-> 0]

------------------------------------------------------------------------------
(* Whose event it is *)

Named(ref) == {p \in sheet.seats : NameOf[p] = ref.name}

\* ResolveRosterPlayerId: nobody when the name fits two players.
ResolvedId(ref) ==
  LET found == {p \in Named(ref) : ref.team \in {-1, SideOf[p]}}
  IN IF ref.id # NoPlayerId THEN ref.id
     ELSE IF Cardinality(found) = 1 THEN CHOOSE p \in found : TRUE ELSE NoPlayerId

\* IsSelf takes the first player of that name, in the order of a hash table.
Guesses(ref) == IF ResolvedId(ref) # NoPlayerId THEN {ResolvedId(ref)}
                ELSE IF Named(ref) = {} THEN {NoPlayerId} ELSE Named(ref)

Ambiguous(ref) ==
  /\ ref.id = NoPlayerId /\ Cardinality({p \in Cast : NameOf[p] = ref.name}) > 1
  /\ ref.team = -1 \/ ResolvedId(ref) = NoPlayerId

------------------------------------------------------------------------------
(* What the program makes of a report *)

\* A goal of a match that is over, or of another one.
StaleGoal(event) ==
  event.guid # NoGuid /\
    (event.guid \in sheet.finalized \/ (~sheet.ended /\ sheet.guid \notin {NoGuid, event.guid}))

\* RecordJournalEvent
Notes(event) ==
  /\ sheet.open /\ ~sheet.ended /\ ~sheet.replay /\ Len(sheet.journal) < JournalLimit
  /\ event.guid # NoGuid => sheet.guid \in {NoGuid, event.guid} /\ event.guid \notin sheet.finalized
  /\ event.key \notin sheet.keys

WithEvent(s, event) ==
  IF ~Notes(event) THEN s
  ELSE [s EXCEPT !.journal = Append(@, [key |-> event.key, guid |-> event.guid,
                                        match |-> event.match]),
                 !.keys = IF event.key = 0 THEN @ ELSE @ \cup {event.key}]

Credited(s, kind, by) == [s EXCEPT !.own[kind] = IF by = Me THEN @ + 1 ELSE @]

\* A shot stands for every statistic the feed names.
HandleStatfeed(event, by) ==
  IF sheet.replay THEN sheet ELSE WithEvent(Credited(sheet, "shot", by), event)

\* Mutant: the echo of a goal is not told from a goal.
HandleEveryGoal(event, by) ==
  IF sheet.replay \/ StaleGoal(event) THEN sheet
  ELSE WithEvent([Credited(sheet, "goal", by) EXCEPT !.goals = @ + 1], event)

HandleGoalScored(event, by) ==
  IF event.echo \/ sheet.replay \/ StaleGoal(event) THEN sheet
  ELSE WithEvent([Credited(sheet, "goal", by) EXCEPT !.goals = @ + 1], event)

HandleCrossbarHit(event, by) == WithEvent(Credited(sheet, "crossbar", by), event)

Handled(event, by) == CASE event.kind = "shot" -> HandleStatfeed(event, by)
                        [] event.kind = "goal" -> HandleGoalScored(event, by)
                        [] OTHER -> HandleCrossbarHit(event, by)

\* Reports nobody can tell from a new event: one more of the same, one already in the figures
\* the game sends itself, one of another match without its guid, one by a name two players bear.
Excused(event, again) ==
  /\ ~event.echo
  /\ \/ again /\ ~(sheet.replay /\ event.kind # "crossbar")
     \/ event.kind # "crossbar" /\ event.known
     \/ event.kind = "shot" /\ (event.match # truth.guid \/ sheet.ended)
     \/ event.kind # "shot" /\ (event.match # truth.guid \/ sheet.ended)
          /\ (event.guid = NoGuid \/ event.kind = "crossbar")
     \/ Ambiguous(event.ref)

Report(event, again) ==
  /\ \E by \in Guesses(event.ref) : sheet' = Handled(event, by)
  /\ extra' = IF Excused(event, again)
              THEN [extra EXCEPT ![event.kind] = @ + 1,
                                 !.all = IF event.kind = "goal" THEN @ + 1 ELSE @]
              ELSE extra

------------------------------------------------------------------------------
(* The game *)

\* A shot, a goal or a crossbar hit: the user's real figures.
Real(kind, by) ==
  [truth EXCEPT !.own[kind] = IF by = Me THEN @ + 1 ELSE @,
               !.goals = IF kind = "goal" THEN @ + 1 ELSE @]

Event(play) ==
  [kind |-> play.kind, ref |-> play.ref, key |-> IF play.keyed THEN budget.events + 1 ELSE 0,
   guid |-> IF play.tells THEN truth.guid ELSE NoGuid, match |-> truth.guid,
   known |-> FALSE, echo |-> FALSE]

Happening(play) ==
  /\ sheet.open /\ ~sheet.ended /\ ~sheet.replay /\ budget.events < MaxEvents
  /\ truth' = Real(play.kind, play.by)

\* It is reported at once,
PlayerActs(play) ==
  /\ Happening(play)
  /\ Report(Event(play), FALSE)
  /\ last' = <<Event(play)>>
  /\ budget' = [budget EXCEPT !.events = @ + 1]
  /\ late' = late

\* or later.
PlayHeld(play) ==
  /\ Happening(play) /\ late = Unheld /\ budget.repeats < MaxRepeats
  /\ late' = <<Event(play)>>
  /\ budget' = [events |-> budget.events + 1, repeats |-> budget.repeats + 1]
  /\ UNCHANGED <<sheet, last, extra>>

Arrive ==
  /\ late # Unheld
  /\ Report(Head(late), FALSE)
  /\ last' = late /\ late' = Unheld
  /\ UNCHANGED <<truth, budget>>

\* The report comes once more: sent again, or shown again in a goal replay.
Repeat ==
  /\ last # Unheld /\ budget.repeats < MaxRepeats
  /\ Report(Head(last), TRUE)
  /\ budget' = [budget EXCEPT !.repeats = @ + 1]
  /\ UNCHANGED <<truth, late, last>>

\* The echo at the end of a goal replay names no scorer.
Echo ==
  /\ last # Unheld /\ Head(last).kind = "goal"
  /\ Report([Head(last) EXCEPT !.echo = TRUE], FALSE)
  /\ UNCHANGED <<truth, late, last, budget>>

\* HandleUpdateState: who is there, and, unless a replay runs, the user's own figures.
Figured == {"shot", "goal"}

Exactly(counts) == [k \in DOMAIN counts |-> IF k \in Figured THEN truth.own[k] ELSE counts[k]]

TakeSample(seats, replay, carries) ==
  /\ sheet.open
  /\ LET taken == [sheet EXCEPT !.replay = replay]
         exact == carries /\ Me \in seats /\ ~replay
     IN /\ sheet' = IF replay THEN taken
                    ELSE [taken EXCEPT !.seats = @ \cup seats,
                                       !.own = IF exact THEN Exactly(@) ELSE @]
        /\ extra' = [k \in DOMAIN extra |-> IF exact /\ k \in Figured THEN 0 ELSE extra[k]]
        /\ late' = [i \in DOMAIN late |-> [late[i] EXCEPT !.known = @ \/ exact]]
  /\ UNCHANGED <<truth, last, budget>>

Earlier(guid) ==
  {Guids[i] : i \in {i \in DOMAIN Guids : \E j \in DOMAIN Guids : j > i /\ Guids[j] = guid}}

\* MatchCreated, with its guid or without.
BeginMatch(guid, tells) ==
  /\ sheet.open => sheet.ended
  /\ guid \notin sheet.finalized /\ \A other \in Earlier(guid) : other \in sheet.finalized
  /\ truth' = [guid |-> guid, own |-> NoCounts, goals |-> 0]
  /\ sheet' = [BlankSheet EXCEPT !.guid = IF tells THEN guid ELSE NoGuid]
              @@ [open |-> TRUE, finalized |-> sheet.finalized]
  /\ extra' = NoCounts @@ [all |-> 0]
  /\ UNCHANGED <<late, last, budget>>

\* A later MatchCreated brings the guid.
Attach ==
  /\ sheet.open /\ ~sheet.ended /\ sheet.guid = NoGuid
  /\ sheet' = [sheet EXCEPT !.guid = truth.guid]
  /\ UNCHANGED <<truth, late, last, extra, budget>>

\* MatchEnded: the match is saved with what was counted; its guid is remembered.
Finish ==
  /\ sheet.open /\ ~sheet.ended
  /\ sheet' = [sheet EXCEPT !.ended = TRUE, !.guid = truth.guid, !.replay = FALSE,
                            !.finalized = @ \cup {truth.guid}]
  /\ UNCHANGED <<truth, late, last, extra, budget>>

JournalNext ==
  \/ \E play \in Plays : PlayerActs(play)
  \/ \E play \in Plays : PlayHeld(play)
  \/ Arrive
  \/ Repeat
  \/ Echo
  \/ \E seats \in SUBSET Cast, replay, carries \in BOOLEAN : TakeSample(seats, replay, carries)
  \/ \E guid \in Range(Guids), tells \in BOOLEAN : BeginMatch(guid, tells)
  \/ Attach
  \/ Finish

JournalSpec == JournalInit /\ [][JournalNext]_journalVars

------------------------------------------------------------------------------
(* Properties *)

\* The state stays within its types.
JournalTypeOK ==
  /\ sheet.seats \subseteq Cast /\ sheet.finalized \subseteq Range(Guids)
  /\ sheet.own \in [PlayKinds -> Nat] /\ truth.own \in [PlayKinds -> Nat]
  /\ Len(sheet.journal) <= JournalLimit /\ Len(late) <= 1 /\ Len(last) <= 1

\* The user is credited with nothing he has not done: not with a namesake's play, a goal's echo,
\* what a replay shows again, or a goal of the match before.
NothingIsCreditedTwice ==
  sheet.open => /\ \A k \in PlayKinds : sheet.own[k] <= truth.own[k] + extra[k]
                /\ sheet.goals <= truth.goals + extra.all

\* The journal holds an event the game gave an id only once, however often it is reported.
NotedOnce ==
  \A i, j \in DOMAIN sheet.journal :
    sheet.journal[i].key # 0 /\ sheet.journal[i].key = sheet.journal[j].key => i = j

\* An event that says which match it is of is noted in no other.
NotedInItsMatch ==
  \A i \in DOMAIN sheet.journal :
    sheet.journal[i].guid # NoGuid => sheet.journal[i].match = truth.guid

\* A finished match's journal is final: it is saved as it was when the match ended.
FinishedIsFinal ==
  [][sheet.open /\ sheet.ended /\ sheet'.ended => sheet'.journal = sheet.journal]_journalVars
==============================================================================
