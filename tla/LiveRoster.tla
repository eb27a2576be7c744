----------------------------- MODULE LiveRoster -----------------------------
(***************************************************************************)
(* Who is in the lobby, which of them is the user, and what the database   *)
(* says of the others: the roster half of HandleUpdateState                *)
(* (TelemetryReducerUpdateState.cpp), the encounter records the database   *)
(* worker looks up for the roster, and "Delete match history", which       *)
(* forgets the user's identity.                                            *)
(*                                                                         *)
(* Three threads meet here.  The telemetry thread changes the live match   *)
(* and then carries out its effects one after the other; the database      *)
(* worker takes the account, reads its rows and brings the record back to  *)
(* a roster that may have changed since; the interface deletes the rows    *)
(* and clears the identity.                                                *)
(***************************************************************************)
EXTENDS Integers, SequencesExt, FiniteSetsExt

CONSTANTS Pc,            \* players of a platform this program can run on
          Others,        \* players of a console
          Bots,          \* players whose id is "Unknown|<name>"
          NoPlayer,      \* the empty id
          NoRecord,      \* hasLifetimeData is false
          Lobbies,       \* the player lists an update may carry: player -> team
          PruneAfter,    \* ticks that make the five seconds unseen
          MaxUpdateStates,    \* bound: updates
          MaxHappenings,   \* bound: matches begun or ended, statistics, histories deleted
          MaxLookups,       \* bound: jobs waiting while updates still come
          MaxUnanswered     \* bound: lookups that are not queued or fail

Everyone == Pc \cup Others \cup Bots
BothTeams == {0, 1}

ASSUME RosterAssumption ==
  /\ NoPlayer \notin Everyone /\ PruneAfter \in Nat \ {0}
  /\ \A lobby \in Lobbies : DOMAIN lobby \subseteq Everyone /\ Range(lobby) \subseteq {-1, 0, 1}

VARIABLES
  state,     \* MatchState: self, team, roster, box (matchRoster), seen, and the identity search
  effects,  \* what EffectRouter still has to carry out for the last event
  jobs,     \* the database worker's queue
  reading,  \* the record the worker brings back: [account, pid, games], or none
  met,    \* the rows: games each account has saved with each player
  saved,    \* last_primary_id in config.json
  deleting, \* how far "Delete match history" has come: 0, 1 (rows gone), 2 (identity cleared)
  viewed,   \* ghost: those through whose eyes the user has played
  onScreen,    \* ghost: the lobby the user last played in, his own car on the screen
  unanswered,  \* ghost: the players whose last lookup was not queued, or of whom one failed
  tracked,  \* accounts given to the account manager
  tally    \* what the bounds limit: [updates, happened, unanswered]

rosterVars ==
  <<state, effects, jobs, reading, met, saved, deleting, viewed, onScreen, unanswered, tracked,
    tally>>

rosterGhosts == <<viewed, onScreen, unanswered>>

NoRows == [account \in Pc |-> [p \in Everyone |-> 0]]
NoOne == [p \in {} |-> 0]
Idle == <<>>

RosterInit ==
  /\ saved \in {NoPlayer} \cup Pc
  /\ state = [self |-> saved, team |-> -1, known |-> NoPlayer, candidates |-> {}, missed |-> 0,
             confirmed |-> NoPlayer, roster |-> NoOne, box |-> NoOne, seen |-> NoOne,
             ended |-> FALSE]
  /\ effects = <<>> /\ jobs = <<>> /\ reading = Idle
  /\ met = NoRows /\ deleting = 0 /\ viewed = {} /\ onScreen = {}
  /\ unanswered = {} /\ tracked = {}
  /\ tally = [updates |-> 0, happened |-> 0, unanswered |-> 0]

------------------------------------------------------------------------------
(* An update of the game's state *)

Seats(lobby) == {p \in DOMAIN lobby : lobby[p] \in BothTeams}

\* What the match's roster keeps of an entry.
Figures(entries) == [p \in DOMAIN entries |-> entries[p].figures]

\* The players of an update enter the roster, which is copied to the match's own.
Seated(m, lobby) ==
  LET Entry(p) == IF p \in DOMAIN m.roster THEN [m.roster[p] EXCEPT !.team = lobby[p]]
                  ELSE [team |-> lobby[p], record |-> NoRecord, figures |-> 0]
      entries == [p \in Seats(lobby) |-> Entry(p)]
  IN [m EXCEPT !.roster = entries @@ @, !.box = Figures(entries) @@ @]

Askable(players) == players \ Bots

\* ExtractCameraTarget: the one player the camera shows, or nobody.
CameraTargets(lobby) == DOMAIN lobby \cup {NoPlayer}

\* The user's own feed, on a platform this program runs on.
Feeds(lobby, target) == {p \in Pc \cap Seats(lobby) : p = target}

\* adoptIdentity: the player is the user from now on; every record is looked up anew.
Adopted(m, id, lobby) ==
  [m EXCEPT !.self = id, !.team = lobby[id], !.candidates = {},
            !.roster = [p \in DOMAIN @ |-> [@[p] EXCEPT !.record = NoRecord]]]

\* A new id starts the search over; the user's own place in the lobby names his team.
Noticed(m, lobby) ==
  LET fresh == IF m.self = m.known THEN m
               ELSE [m EXCEPT !.known = m.self, !.candidates = {}, !.missed = 0]
  IN IF m.self \in Seats(lobby) /\ m.team = -1 THEN [fresh EXCEPT !.team = lobby[m.self]]
     ELSE fresh

\* The saved id isn't in the lobby although somebody is played here: another account.
Switched(m, lobby, feeds) ==
  IF m.self # NoPlayer /\ m.self \notin Seats(lobby)
  THEN [Adopted(m, CHOOSE p \in feeds : TRUE, lobby) EXCEPT !.missed = 0]
  ELSE m

Forgets(m, old, lobby) == old # NoPlayer /\ old \notin Seats(lobby) /\ m.missed + 1 >= 2

Missed(m, old, lobby) ==
  IF old = NoPlayer THEN m
  ELSE IF old \in Seats(lobby) THEN [m EXCEPT !.missed = 0]
  ELSE IF Forgets(m, old, lobby)
  THEN [m EXCEPT !.self = NoPlayer, !.team = -1, !.missed = 0, !.candidates = {}]
  ELSE [m EXCEPT !.missed = @ + 1]

\* Elimination: with nobody known, the candidates are narrowed until one is left.
Eliminated(m, lobby, feeds) ==
  LET left == IF m.candidates = {} THEN feeds ELSE m.candidates \cap feeds
  IN IF Cardinality(left) = 1 THEN Adopted(m, CHOOSE p \in left : TRUE, lobby)
     ELSE [m EXCEPT !.candidates = IF left = {} THEN feeds ELSE left]

Identified(m, lobby, target, spectator) ==
  LET feeds == Feeds(lobby, target)
      noticed == Noticed(m, lobby)
      switched == Switched(noticed, lobby, feeds)
      missed == Missed(switched, m.self, lobby)
      unknown == m.self = NoPlayer \/ Forgets(switched, m.self, lobby)
      found == IF unknown THEN Eliminated(missed, lobby, feeds) ELSE missed
  IN IF spectator THEN m
     ELSE IF feeds = {} THEN noticed
     ELSE [found EXCEPT !.confirmed = IF found.self \in feeds THEN found.self ELSE @]

\* Everyone in the update was seen now; who was not for five seconds leaves, except the user.
Pruned(m, lobby) ==
  LET seen == [p \in DOMAIN lobby |-> 0] @@ m.seen
      gone == {p \in DOMAIN m.roster : p \in DOMAIN seen /\ seen[p] >= PruneAfter}
      out == gone \ {m.self}
      late == [p \in (gone \cap {m.self}) \cup (DOMAIN m.roster \ DOMAIN seen) |-> 0]
  IN [m EXCEPT !.box = [p \in out |-> m.roster[p].figures] @@ @,
               !.roster = [p \in DOMAIN @ \ out |-> @[p]],
               !.seen = LET all == late @@ seen IN [p \in DOMAIN all \ out |-> all[p]]]

InTeam(m, spectator) ==
  IF ~spectator /\ m.self \in DOMAIN m.roster THEN [m EXCEPT !.team = m.roster[m.self].team] ELSE m

AsksFor(players) == IF Askable(players) = {} THEN <<>>
                 ELSE <<[kind |-> "ask", players |-> Askable(players)]>>

\* HandleUpdateState outside a replay.
UpdateState(lobby, target, spectator) ==
  LET seated == Seated(state, lobby)
      known == Identified(seated, lobby, target, spectator)
      adopted == known.self \notin {state.self, NoPlayer}
      newcomers == Seats(lobby) \ DOMAIN state.roster
      asks == AsksFor(IF adopted THEN DOMAIN seated.roster ELSE newcomers)
      persists == IF known.self = state.self THEN <<>>
                  ELSE <<[kind |-> "persist", id |-> known.self]>>
      confirms == IF known.confirmed = state.confirmed THEN <<>>
                  ELSE <<[kind |-> "confirm", id |-> known.confirmed]>>
  IN /\ effects = <<>> /\ Len(jobs) <= MaxLookups /\ tally.updates < MaxUpdateStates
     /\ tally' = [tally EXCEPT !.updates = @ + 1]
     /\ state' = InTeam(Pruned(known, lobby), spectator)
     /\ effects' = persists \o confirms \o asks
     /\ LET feeds == IF spectator THEN {} ELSE Feeds(lobby, target) IN
          /\ viewed' = viewed \cup feeds
          /\ onScreen' = IF feeds = {} THEN {} ELSE Seats(lobby)
     /\ UNCHANGED <<jobs, reading, met, saved, deleting, unanswered, tracked>>

\* The clock goes on.
SecondGoesBy ==
  /\ \E p \in DOMAIN state.seen : state.seen[p] < PruneAfter
  /\ state' = [state EXCEPT !.seen = [p \in DOMAIN @ |-> Min({@[p] + 1, PruneAfter})]]
  /\ UNCHANGED <<effects, jobs, reading, met, saved, deleting, rosterGhosts, tracked, tally>>

OneMoreHappens ==
  /\ tally.happened < MaxHappenings
  /\ tally' = [tally EXCEPT !.happened = @ + 1]

\* HandleStatfeed counts a statistic for a player of the roster.
CountFigure(p) ==
  /\ effects = <<>> /\ p \in DOMAIN state.roster
  /\ state' = [state EXCEPT !.roster[p].figures = @ + 1]
  /\ OneMoreHappens
  /\ UNCHANGED <<effects, jobs, reading, met, saved, deleting, rosterGhosts, tracked>>

\* ResetMatch at the start of a match.
StartOver ==
  /\ effects = <<>>
  /\ state' = [state EXCEPT !.roster = NoOne, !.box = NoOne, !.seen = NoOne, !.team = -1,
                          !.ended = FALSE]
  /\ OneMoreHappens
  /\ UNCHANGED <<effects, jobs, reading, met, saved, deleting, rosterGhosts, tracked>>

\* CaptureMatch: the match's own roster, with what the live one says.
Captured == Figures(state.roster) @@ state.box

\* The match ends and counts: it is saved, and the records of its players are looked up again.
FinishMatch ==
  /\ effects = <<>> /\ ~state.ended /\ state.self \in DOMAIN Captured
  /\ state' = [state EXCEPT !.ended = TRUE]
  /\ effects' = <<[kind |-> "save", account |-> state.self, players |-> DOMAIN Captured]>>
                \o AsksFor(DOMAIN Captured \ {state.self})
  /\ OneMoreHappens
  /\ UNCHANGED <<jobs, reading, met, saved, deleting, rosterGhosts, tracked>>

------------------------------------------------------------------------------
(* EffectRouter::Route, on the telemetry thread, without the live match's lock *)

AskJobs(players) == SetToSeq({[kind |-> "ask", pid |-> p] : p \in players})

OneMoreUnanswered(players) ==
  /\ tally.unanswered + Cardinality(players) <= MaxUnanswered
  /\ tally' = [tally EXCEPT !.unanswered = @ + Cardinality(players)]

\* A lookup is no critical job: EnqueueDbJob drops it when many are queued.
RouteEffect ==
  /\ effects # <<>>
  /\ LET effect == Head(effects)
         asked == IF effect.kind = "ask" THEN effect.players ELSE {}
     IN
     /\ saved' = IF effect.kind = "persist" THEN effect.id ELSE saved
     /\ tracked' = IF effect.kind = "confirm" THEN tracked \cup {effect.id} ELSE tracked
     /\ \E dropped \in SUBSET asked :
          /\ OneMoreUnanswered(dropped)
          /\ unanswered' = (unanswered \ asked) \cup dropped
          /\ jobs' = IF effect.kind = "save" THEN <<effect>> \o jobs
                     ELSE jobs \o AskJobs(asked \ dropped)
  /\ effects' = Tail(effects)
  /\ UNCHANGED <<state, reading, met, deleting, viewed, onScreen>>

------------------------------------------------------------------------------
(* The database worker *)

WriteMatch ==
  /\ jobs # <<>> /\ reading = Idle /\ Head(jobs).kind = "save"
  /\ LET job == Head(jobs) IN
       met' = [met EXCEPT ![job.account] =
                   [p \in Everyone |-> IF p \in job.players \ {job.account} THEN @[p] + 1 ELSE @[p]]]
  /\ jobs' = Tail(jobs)
  /\ UNCHANGED <<state, effects, reading, saved, deleting, rosterGhosts, tracked, tally>>

\* AsyncGetPlayerEncounterRecord: the account of this moment, and its rows.  The query may fail.
ReadRecord ==
  /\ jobs # <<>> /\ reading = Idle /\ Head(jobs).kind = "ask"
  /\ LET pid == Head(jobs).pid
         queries == state.self \notin {NoPlayer, pid}
     IN \/ /\ reading' = IF ~queries THEN Idle
                        ELSE <<[account |-> state.self, pid |-> pid,
                                games |-> met[state.self][pid]]>>
           /\ UNCHANGED <<unanswered, tally>>
        \/ /\ queries /\ OneMoreUnanswered({pid})
           /\ unanswered' = unanswered \cup {pid} /\ UNCHANGED reading
  /\ jobs' = Tail(jobs)
  /\ UNCHANGED <<state, effects, met, saved, deleting, viewed, onScreen, tracked>>

\* UpdatePlayerLifetimeData
Stored(m, answer) ==
  IF m.self # answer.account \/ answer.pid \notin DOMAIN m.roster THEN m
  ELSE [m EXCEPT !.roster[answer.pid].record =
          [account |-> answer.account, games |-> answer.games]]

BringRecord ==
  /\ reading # Idle
  /\ state' = Stored(state, Head(reading))
  /\ reading' = Idle
  /\ UNCHANGED <<effects, jobs, met, saved, deleting, rosterGhosts, tracked, tally>>

------------------------------------------------------------------------------
(* "Delete match history": the rows on a task's thread, then the frame that hears of it *)

DeleteRows ==
  /\ deleting = 0
  /\ met' = NoRows /\ deleting' = 1
  /\ OneMoreHappens
  /\ UNCHANGED <<state, effects, jobs, reading, saved, rosterGhosts, tracked>>

\* SetLocalPrimaryId with the empty id
ClearIdentity ==
  /\ deleting = 1
  /\ state' = [state EXCEPT !.self = NoPlayer, !.team = -1] /\ deleting' = 2 /\ onScreen' = {}
  /\ UNCHANGED <<effects, jobs, reading, met, saved, viewed, unanswered, tracked, tally>>

ClearSaved ==
  /\ deleting = 2
  /\ saved' = NoPlayer /\ deleting' = 0
  /\ UNCHANGED <<state, effects, jobs, reading, met, rosterGhosts, tracked, tally>>

RosterNext ==
  \/ \E lobby \in Lobbies : \E target \in CameraTargets(lobby), spectator \in BOOLEAN :
       UpdateState(lobby, target, spectator)
  \/ SecondGoesBy
  \/ \E p \in Everyone : CountFigure(p)
  \/ StartOver
  \/ FinishMatch
  \/ RouteEffect
  \/ WriteMatch
  \/ ReadRecord
  \/ BringRecord
  \/ DeleteRows
  \/ ClearIdentity
  \/ ClearSaved

RosterSpec == RosterInit /\ [][RosterNext]_rosterVars

------------------------------------------------------------------------------
(* Properties *)

Records == {NoRecord} \cup [account : Pc, games : 0..MaxHappenings]
Entries == [team : BothTeams, record : Records, figures : 0..MaxHappenings]

\* The state stays within its types.
RosterTypeOK ==
  /\ state.self \in Pc \cup {NoPlayer} /\ state.team \in {-1} \cup BothTeams
  /\ state.missed \in 0..1 /\ state.candidates \subseteq Pc
  /\ DOMAIN state.roster \cup DOMAIN state.box \cup DOMAIN state.seen \subseteq Everyone
  /\ Range(state.roster) \subseteq Entries /\ Range(state.box) \subseteq 0..MaxHappenings
  /\ Range(state.seen) \subseteq 0..PruneAfter
  /\ unanswered \subseteq Askable(Everyone) /\ tally.unanswered \in 0..MaxUnanswered
  /\ deleting \in 0..2 /\ saved \in Pc \cup {NoPlayer} /\ Len(reading) <= 1

\* A record on a player's card counts the games of the user who plays now: the answer to a
\* question asked for another account is dropped, and a switch drops the ones shown.
RecordsAreOfSelf ==
  state.self # NoPlayer =>
    \A p \in DOMAIN state.roster :
      state.roster[p].record # NoRecord => state.roster[p].record.account = state.self

\* Nobody's record stays behind the saved games: it is the table's, or a lookup of it is still
\* to be carried out, queued or under way.  The exception: the lookup was dropped, or its query
\* failed, and nothing has asked for that player again.
EveryRecordIsFollowedUp ==
  state.self # NoPlayer /\ deleting = 0 =>
    \A p \in DOMAIN state.roster \ (Bots \cup {state.self} \cup unanswered) :
      LET row == [account |-> state.self, games |-> met[state.self][p]] IN
      \/ state.roster[p].record = row
      \/ reading = <<row @@ [pid |-> p]>>
      \/ \E i \in DOMAIN jobs : jobs[i].kind = "ask" /\ jobs[i].pid = p
      \/ \E i \in DOMAIN effects : effects[i].kind = "ask" /\ p \in effects[i].players

\* The program takes nobody for the user whom he has not played as: watching another player
\* changes nothing, and the account manager hears only of accounts played here.
SelfHasPlayed ==
  /\ state.self \in viewed \cup {saved, state.known, NoPlayer}
  /\ tracked \subseteq viewed
  /\ state.self # state.known => state.self \in viewed \cup {saved, NoPlayer}

\* Once the effects of the last event are carried out, the settings name no other account than
\* the user's: the next launch doesn't begin as somebody else.
SavedIsSelf == effects = <<>> /\ state.self # NoPlayer => saved \in {state.self, NoPlayer}

\* From the first update that shows the user playing, he is somebody in that lobby: an account
\* of before that isn't there gives way at once, and nobody is left unknown.
SelfIsThere == onScreen # {} => state.self \in onScreen

\* Who leaves the lobby stays in the match with everything counted for him.
LeaversAreKept ==
  [][\A p \in DOMAIN state.roster \ DOMAIN state'.roster :
       state'.roster # NoOne =>
         /\ p \in DOMAIN state'.box
         /\ state'.box[p] = state.roster[p].figures]_rosterVars
==============================================================================
