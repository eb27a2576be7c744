--------------------------- MODULE MatchLifecycle ---------------------------
(***************************************************************************)
(* The life of a match, from telemetry to the session it is counted in and  *)
(* its row in the database: the reducer (core/reducer), the live match      *)
(* store, the session rollover, the effect router and what SaveMatch,       *)
(* SaveSession and UpdateSession do to the tables.                          *)
(*                                                                         *)
(* Two threads drive it.  The telemetry thread applies one event at a time; *)
(* the rank worker confirms a match that was left early.  Each changes the  *)
(* match under the store's mutex and routes the effects afterwards, without *)
(* it, so the other thread may come in between.                             *)
(*                                                                         *)
(* The order of telemetry is not assumed.  Events may be late, repeated or  *)
(* without a guid, as the reducer's tests feed them.                        *)
(***************************************************************************)
EXTENDS Integers, Sequences

CONSTANTS Guids,          \* match guids
          NoGuid,         \* the empty guid
          None,           \* no snapshot, no recap, no capture
          Settings,       \* the configurations the program is run under
          Rejoins,        \* whether a match already left or ended may be created again
          MaxGeneration,  \* bound: match lifecycles
          MaxSession      \* bound: sessions

ASSUME LifecycleAssumption ==
    /\ NoGuid \notin Guids
    /\ None \notin Guids
    /\ Settings \subseteq [reset : BOOLEAN,    \* config: reset_session_on_close
                           tracker : BOOLEAN,  \* rank lookups confirm matches left early
                           sessions : Nat,     \* bound: sessions, up to MaxSession
                           gaps : Nat]         \* bound: two-hour gaps
    /\ Rejoins \in BOOLEAN
    /\ {MaxGeneration, MaxSession} \subseteq Nat \ {0}
    /\ \A c \in Settings : c.sessions <= MaxSession

VARIABLES settings,   \* the configuration of this run, never changed
          match,      \* the current match, or the last one
          blocked,    \* missingGuidAssociationBlockedByReconnect
          replay,     \* nonLiveReplayActive
          pending,    \* pendingDestroyedMatches
          finalized,  \* finalizedMatchGuids
          session,    \* sessionGeneration
          recapOf,    \* the session lastSessionRecap is about, 0 for none
          resetDone,  \* m_resetAfterDisconnect
          tally,      \* the matches counted in each session
          era,        \* two-hour gaps that have passed
          effects,    \* effects each thread has not routed yet
          awaiting,   \* matches the rank worker may confirm
          matchRows,  \* Matches
          sessionRows,\* Sessions, oldest first
          rowOf       \* m_sessionIdByGeneration

memory == <<settings, match, blocked, replay, pending, finalized, session, recapOf,
            resetDone, tally, era>>
tables == <<matchRows, sessionRows, rowOf>>
vars == <<memory, effects, awaiting, tables>>

Threads == {"telemetry", "rank"}
Kinds == {"unset", "ranked", "casual", "training"}
AnyGuid == Guids \cup {NoGuid}
Generation == 0..MaxGeneration
Sessions == 1..MaxSession
Gaps == UNION {0..c.gaps : c \in Settings}

\* Entries of SessionTotals: one for each match counted.
Entry == [guid : AnyGuid, gen : Generation, won : BOOLEAN, era : Gaps]

\* CapturedMatch, as far as a later finalization reads it.
Capture == [guid : AnyGuid, gen : Generation, session : Sessions, kind : Kinds,
            round : BOOLEAN, fit : BOOLEAN, replay : BOOLEAN, era : Gaps]

Snapshot == [guid : AnyGuid, gen : Generation, won : BOOLEAN, provisional : BOOLEAN]
Recap == [of : Sessions, tally : Seq(Entry)]
SessionRow == [of : 0..MaxSession, tally : Seq(Entry)]

\* No record is the absent one.
ASSUME NoneAssumption == None \notin Capture \cup Snapshot \cup Recap

Effects == [close : BOOLEAN, persist : Recap \cup {None}, save : Snapshot \cup {None},
            update : Recap \cup {None}, ask : Guids \cup {None}, busy : BOOLEAN]

LifecycleTypeOK ==
    /\ settings \in Settings
    /\ match \in [inMatch : BOOLEAN, guid : AnyGuid, gen : Generation, over : BOOLEAN,
                  round : BOOLEAN, fit : BOOLEAN, kind : Kinds]
    /\ {blocked, replay, resetDone} \subseteq BOOLEAN
    /\ pending \in [Guids -> Capture \cup {None}]
    /\ finalized \subseteq Guids
    /\ session \in Sessions
    /\ recapOf \in 0..MaxSession
    /\ tally \in [Sessions -> Seq(Entry)]
    /\ era \in Gaps
    /\ effects \in [Threads -> Effects]
    /\ awaiting \subseteq Guids
    /\ matchRows \subseteq Snapshot
    /\ sessionRows \in Seq(SessionRow)
    /\ rowOf \in [Sessions -> 0..Len(sessionRows)]

Nothing == [close |-> FALSE, persist |-> None, save |-> None, update |-> None,
            ask |-> None, busy |-> FALSE]

\* A fresh launch over a database that holds one session of an earlier launch.
Init ==
    /\ settings \in Settings
    /\ match = [inMatch |-> FALSE, guid |-> NoGuid, gen |-> 0, over |-> FALSE,
                round |-> FALSE, fit |-> FALSE, kind |-> "unset"]
    /\ blocked = FALSE /\ replay = FALSE
    /\ pending = [g \in Guids |-> None]
    /\ finalized = {}
    /\ session = 1
    /\ recapOf = 0
    /\ resetDone = FALSE
    /\ tally = [s \in Sessions |-> <<>>]
    /\ era = 0
    /\ effects = [t \in Threads |-> Nothing]
    /\ awaiting = {}
    /\ matchRows = {}
    /\ sessionRows = <<[of |-> 0, tally |-> <<>>]>>
    /\ rowOf = [s \in Sessions |-> 0]

-----------------------------------------------------------------------------
(* Helpers of the reducer.                                                  *)

HasPending == \E g \in Guids : pending[g] # None

\* ResetMatch: everything of the match but its guid and generation.
Fresh(m) ==
    [m EXCEPT !.inMatch = TRUE, !.over = FALSE, !.round = FALSE, !.fit = FALSE, !.kind = "unset"]

\* ResetMatch with a new generation.
NewLifecycle(m, g) == [Fresh(m) EXCEPT !.gen = m.gen + 1, !.guid = g]

\* AttachTerminalGuidToCurrent.
Attached(g) ==
    IF /\ g # NoGuid /\ match.inMatch /\ ~match.over /\ match.guid = NoGuid /\ ~blocked
       /\ g \notin finalized /\ pending[g] = None
    THEN [match EXCEPT !.guid = g]
    ELSE match

CaptureOf(m) ==
    [guid |-> m.guid, gen |-> m.gen, session |-> session, kind |-> m.kind,
     round |-> m.round, fit |-> m.fit, replay |-> replay, era |-> era]

\* ClassifyMatchEnd: whether the match counts and is saved.
Counts(c) == ~c.replay /\ c.kind # "training" /\ c.round /\ c.fit

\* Mutant: a match left before its first round waits for a result too.
ExitWithoutRound(m) == ~replay /\ m.fit /\ m.guid # NoGuid /\ m.kind \notin {"casual", "training"}

\* IsValidEarlyCompetitiveExit, for a match that is on and not over.
ValidEarlyExit(m) ==
    /\ ~replay /\ m.round /\ m.fit
    /\ m.guid # NoGuid
    /\ m.kind \notin {"casual", "training"}

RecordAny(set, g) == set \cup {g}

\* RecordTerminalMatchGuid.
Record(set, g) == IF g = NoGuid THEN set ELSE set \cup {g}

EntryOf(c, won) == [guid |-> c.guid, gen |-> c.gen, won |-> won, era |-> c.era]
SnapshotOf(c, won, provisional) ==
    [guid |-> c.guid, gen |-> c.gen, won |-> won, provisional |-> provisional]

\* Mutant: the guid alone decides.
IsSameGuid(c, m) == c.guid = m.guid

\* isCurrentMatch: a generation is never used again, a guid may be.
IsCurrent(c, m) == c.gen = m.gen /\ c.guid = m.guid

-----------------------------------------------------------------------------
(* FinalizeCapturedMatch.  c is the match captured, m the current one as    *)
(* the event leaves it, result "won", "lost" or "none" (no valid winner)    *)
(* for the local team, and fx what the event adds to the effects.           *)

Finalize(t, m, c, result, left, fx) ==
    LET repeated == c.guid # NoGuid /\ c.guid \in finalized
        counts == Counts(c) /\ result # "none"
        won == result = "won"
        home == IF c.session \in {session, recapOf} THEN c.session ELSE 0
        newTally == IF home = 0 THEN tally
                    ELSE [tally EXCEPT ![home] = Append(@, EntryOf(c, won))]
        late == home # 0 /\ home # session
    IN  /\ pending' = left
        /\ IF repeated
           THEN /\ match' = m
                /\ effects' = [effects EXCEPT ![t] = fx]
                /\ UNCHANGED <<finalized, tally>>
           ELSE /\ match' = IF IsCurrent(c, m) THEN [m EXCEPT !.over = TRUE] ELSE m
                /\ finalized' = Record(finalized, c.guid)
                /\ IF counts
                   THEN /\ tally' = newTally
                        /\ effects' = [effects EXCEPT ![t] =
                             [fx EXCEPT !.save = SnapshotOf(c, won, FALSE),
                                        !.update = IF late
                                                   THEN [of |-> home, tally |-> newTally[home]]
                                                   ELSE None]]
                   ELSE /\ tally' = tally
                        /\ effects' = [effects EXCEPT ![t] = fx]

Busy == [Nothing EXCEPT !.busy = TRUE]

\* The telemetry thread reads its next event: it has routed the last one's
\* effects, and OnEvent forgets the disconnects.
NextEvent ==
    /\ ~effects["telemetry"].busy
    /\ resetDone' = FALSE

Emit(fx) == effects' = [effects EXCEPT !["telemetry"] = fx]

EventKeeps == UNCHANGED <<settings, session, recapOf, era, awaiting, tables>>

-----------------------------------------------------------------------------
(* Events.                                                                  *)

ReplayCreated ==
    /\ NextEvent
    /\ replay' = TRUE
    /\ EventKeeps
    /\ UNCHANGED <<match, blocked, pending, finalized, tally, effects>>

\* MatchCreated asks for the session to be closed, if a new lifecycle starts
\* and sessions do not end with the game; the router will try.
MatchCreated(g) ==
    LET training == match.inMatch /\ match.kind = "training"
        fresh == \/ ~match.inMatch
                 \/ g # NoGuid /\ training
                 \/ g # NoGuid /\ match.guid # NoGuid /\ g # match.guid
        attach == match.inMatch /\ g # NoGuid /\ match.guid = NoGuid /\ ~training
    IN  /\ NextEvent
        /\ g \in Guids /\ (g \in finalized \/ pending[g] # None) => Rejoins
        /\ fresh => match.gen < MaxGeneration
        /\ match' = IF fresh THEN NewLifecycle(match, g)
                    ELSE IF attach THEN [match EXCEPT !.guid = g] ELSE match
        /\ blocked' = (blocked /\ ~fresh)
        /\ Emit([Busy EXCEPT !.close = fresh /\ ~settings.reset])
        /\ EventKeeps
        /\ UNCHANGED <<replay, pending, finalized, tally>>

RoundStarted ==
    /\ NextEvent
    /\ match' = [match EXCEPT !.round = TRUE]
    /\ EventKeeps
    /\ UNCHANGED <<blocked, replay, pending, finalized, tally, effects>>

\* The arena step of HandleUpdateState: another arena starts the match over,
\* unless a recordable match is under way.
InArena(m, other) ==
    LET training == m.kind = "training"
        established == m.inMatch /\ m.round /\ ~training
    IN  IF ~other \/ established THEN m
        ELSE IF ~m.inMatch \/ training THEN NewLifecycle(m, NoGuid)
        ELSE [Fresh(m) EXCEPT !.kind = m.kind]

\* The playlist step: a recordable playlist is kept once a round has been
\* played, and leaving training for another playlist starts the match over.
InPlaylist(m, kind) ==
    LET kept == m.inMatch /\ m.round /\ ~m.over /\ m.kind \in {"ranked", "casual"}
    IN  IF kind = "unset" \/ kind = m.kind \/ kept THEN m
        ELSE IF m.inMatch /\ m.kind = "training"
        THEN [NewLifecycle(m, m.guid) EXCEPT !.kind = kind]
        ELSE [m EXCEPT !.kind = kind]

\* HandleUpdateState.  seen: the local player is on a team of a full lobby.
UpdateState(other, kind, seen) ==
    LET inArena == InArena(match, other)
        after == InPlaylist(inArena, kind)
    IN  /\ NextEvent
        /\ match.inMatch \/ other
        /\ after.gen <= MaxGeneration
        /\ match' = [after EXCEPT !.fit = @ \/ seen]
        /\ blocked' = (blocked /\ after.gen = match.gen)
        /\ EventKeeps
        /\ UNCHANGED <<replay, pending, finalized, tally, effects>>

\* HandleUpdateState, and SetLocalPrimaryId: the local player is not known
\* any more, or is one who is not in this match.
IdentityLost ==
    /\ NextEvent
    /\ match.fit
    /\ match' = [match EXCEPT !.fit = FALSE]
    /\ EventKeeps
    /\ UNCHANGED <<blocked, replay, pending, finalized, tally, effects>>

\* HandleMatchEnded.
MatchEnded(g, result) ==
    LET m == Attached(g)
        late == g # NoGuid /\ pending[g] # None
        current == IF g # NoGuid THEN g = m.guid
                   ELSE ~HasPending /\ m.guid = NoGuid /\ ~blocked
    IN  /\ NextEvent
        /\ IF late
           THEN /\ result # "none"
                /\ Finalize("telemetry", match, pending[g], result,
                            [pending EXCEPT ![g] = None], Busy)
           ELSE IF current /\ m.inMatch /\ ~m.over
           THEN Finalize("telemetry", m, CaptureOf(m), result, pending, Busy)
           ELSE /\ match' = m
                /\ UNCHANGED <<pending, finalized, tally, effects>>
        /\ EventKeeps
        /\ UNCHANGED <<blocked, replay>>

\* MarkDestroyedMatchVoid.
DestroyedVoid(m) ==
    /\ finalized' = Record(finalized, m.guid)
    /\ match' = [m EXCEPT !.over = TRUE, !.inMatch = FALSE, !.fit = FALSE]
    /\ Emit(Busy)
    /\ UNCHANGED <<pending, tally>>

\* The match was left early and its result is not known: it is kept until its
\* result is, and a likely result, if there is one, is saved provisionally.
DestroyedPending(m, likely) ==
    LET c == CaptureOf(m)
    IN  /\ pending' = [pending EXCEPT ![m.guid] = IF @ = None THEN c ELSE @]
        /\ match' = [m EXCEPT !.inMatch = FALSE, !.fit = FALSE]
        /\ Emit([Busy EXCEPT !.ask = m.guid,
                             !.save = IF likely = "none" \/ ~Counts(c) THEN None
                                      ELSE SnapshotOf(c, likely = "won", TRUE)])
        /\ UNCHANGED <<finalized, tally>>

\* HandleMatchDestroyed.  likely: what the score or the local player's
\* absence suggests; forfeit: the local team gave up.
MatchDestroyed(g, result, forfeit, likely) ==
    LET m == Attached(g)
        gone == [m EXCEPT !.inMatch = FALSE, !.fit = FALSE]
        known == IF result # "none" THEN result ELSE IF forfeit THEN "lost" ELSE "none"
        finalizable == m.guid = NoGuid \/ m.guid \notin finalized
    IN  /\ NextEvent
        /\ m.inMatch
        /\ IF g # NoGuid THEN g = m.guid
           ELSE ~HasPending /\ m.guid = NoGuid /\ ~blocked
        /\ replay' = FALSE
        /\ \/ /\ m.over
              /\ match' = gone
              /\ UNCHANGED <<pending, finalized, tally, effects>>
           \/ /\ ~m.over
              /\ result # "none" \/ (ValidEarlyExit(m) /\ forfeit)
              /\ IF finalizable
                 THEN Finalize("telemetry", gone, CaptureOf(m), known, pending, Busy)
                 ELSE match' = gone /\ UNCHANGED <<pending, finalized, tally, effects>>
           \/ /\ ~m.over /\ result = "none"
              /\ DestroyedVoid(m)
           \/ /\ ~m.over /\ result = "none" /\ ~forfeit
              /\ ValidEarlyExit(m)
              /\ DestroyedPending(m, likely)
        /\ EventKeeps
        /\ UNCHANGED blocked

-----------------------------------------------------------------------------
(* Sessions.                                                                *)

\* MatchState::StartNewSession: the totals become the recap, if there are any.
NewSession(s) ==
    /\ s < settings.sessions
    /\ session' = s + 1
    /\ recapOf' = IF tally[s] # <<>> THEN s ELSE recapOf

\* CloseSessionIfInactive: two hours after the last match of a session that
\* has one, and only when no match is on.
Inactive ==
    /\ ~match.inMatch
    /\ tally[session] # <<>>
    /\ \A i \in DOMAIN tally[session] : tally[session][i].era < era

RecapNow(s) == [of |-> s, tally |-> tally[s]]

\* MatchState::ClearActiveMatchOnDisconnect, and OnTelemetryDisconnected before it.
Cleared ==
    /\ blocked' = (blocked \/ (match.inMatch /\ ~match.over))
    /\ match' = [match EXCEPT !.inMatch = FALSE, !.guid = NoGuid, !.over = FALSE,
                              !.round = FALSE, !.fit = FALSE, !.kind = "unset"]

\* RunLoop, after the connection fails.  closed: the game has been closed;
\* fifth: five attempts have failed.
Disconnect(closed, fifth) ==
    LET reset == settings.reset /\ ~resetDone /\ (closed \/ fifth)
        close == ~settings.reset /\ Inactive
        recap == (reset \/ close) /\ tally[session] # <<>>
    IN  /\ ~effects["telemetry"].busy
        /\ resetDone' = (resetDone \/ reset)
        /\ IF reset \/ close THEN NewSession(session) ELSE UNCHANGED <<session, recapOf>>
        /\ Cleared
        /\ Emit(IF recap THEN [Busy EXCEPT !.persist = RecapNow(session)] ELSE Nothing)
        /\ UNCHANGED <<settings, replay, pending, finalized, tally, era, awaiting, tables>>

\* Two hours without a match.
TwoHoursPass ==
    /\ era < settings.gaps
    /\ ~match.inMatch
    /\ era' = era + 1
    /\ UNCHANGED <<settings, match, blocked, replay, pending, finalized,
                   session, recapOf, resetDone, tally, effects, awaiting, tables>>

-----------------------------------------------------------------------------
(* The rank worker: a match left early has been found in the player's       *)
(* history (ConfirmPendingDestroyedMatch).                                  *)

Confirm(g, won) ==
    /\ ~effects["rank"].busy
    /\ g \in awaiting
    /\ awaiting' = awaiting \ {g}
    /\ IF pending[g] = None \/ g \in finalized
       THEN UNCHANGED <<match, pending, finalized, tally, effects>>
       ELSE Finalize("rank", match, pending[g], IF won THEN "won" ELSE "lost",
                     [pending EXCEPT ![g] = None], Busy)
    /\ UNCHANGED <<settings, blocked, replay, session, recapOf, resetDone, era, tables>>

-----------------------------------------------------------------------------
(* EffectRouter::Route and the database.                                    *)

\* The router's first step: an inactive session is closed, and its recap
\* replaces the one to be saved.
RouteClose(t) ==
    /\ effects[t].close
    /\ IF Inactive
       THEN /\ NewSession(session)
            /\ effects' = [effects EXCEPT ![t].close = FALSE, ![t].persist = RecapNow(session)]
       ELSE /\ effects' = [effects EXCEPT ![t].close = FALSE]
            /\ UNCHANGED <<session, recapOf>>
    /\ UNCHANGED <<settings, match, blocked, replay, pending, finalized,
                   resetDone, tally, era, awaiting, tables>>

\* Mutant: a provisional row is taken for a duplicate.
SavedOnce(rows, snap) ==
    IF snap = None \/ \E r \in rows : snap.guid # NoGuid /\ r.guid = snap.guid
    THEN rows ELSE rows \cup {snap}

\* MatchRepository::SaveMatch: a guid is saved once, a provisional row gives
\* way to the result.
Saved(rows, snap) ==
    LET same == {r \in rows : snap.guid # NoGuid /\ r.guid = snap.guid}
        resolves == \E r \in same : r.provisional /\ ~snap.provisional
    IN  IF snap = None \/ (same # {} /\ ~resolves) THEN rows
        ELSE (rows \ same) \cup {snap}

\* SessionRepository::SaveSession.
SaveSession(recap) ==
    /\ sessionRows' = Append(sessionRows, recap)
    /\ rowOf' = [rowOf EXCEPT ![recap.of] = Len(sessionRows) + 1]

\* Mutant: the late totals get a row of their own.
InsertUpdate(recap) == SaveSession(recap)

\* SessionRepository::UpdateSession: the row of the generation, or else the
\* account's last one.
UpdateSession(recap) ==
    LET row == IF rowOf[recap.of] # 0 THEN rowOf[recap.of] ELSE Len(sessionRows)
    IN  IF row = 0 THEN SaveSession(recap)
        ELSE /\ sessionRows' = [sessionRows EXCEPT ![row].tally = recap.tally]
             /\ UNCHANGED rowOf

\* The rest of Route.  Its jobs are critical, hence run in the order they are
\* queued in, and nothing here reads the tables: a job is run when it is queued.
RouteJobs(t) ==
    LET fx == effects[t]
    IN  /\ fx.busy /\ ~fx.close
        /\ matchRows' = Saved(matchRows, fx.save)
        /\ IF fx.persist # None THEN SaveSession(fx.persist)
           ELSE IF fx.update # None THEN UpdateSession(fx.update)
           ELSE UNCHANGED <<sessionRows, rowOf>>
        /\ awaiting' = IF fx.ask # None /\ settings.tracker THEN awaiting \cup {fx.ask} ELSE awaiting
        /\ effects' = [effects EXCEPT ![t] = Nothing]
        /\ UNCHANGED memory

-----------------------------------------------------------------------------

Results == {"won", "lost", "none"}

TelemetryEvent ==
    \/ ReplayCreated
    \/ RoundStarted
    \/ IdentityLost
    \/ \E g \in AnyGuid : MatchCreated(g)
    \/ \E other, seen \in BOOLEAN, kind \in Kinds : UpdateState(other, kind, seen)
    \/ \E g \in AnyGuid, result \in Results : MatchEnded(g, result)
    \/ \E g \in AnyGuid, result, likely \in Results, forfeit \in BOOLEAN :
            MatchDestroyed(g, result, forfeit, likely)

Next ==
    \/ TelemetryEvent
    \/ \E closed, fifth \in BOOLEAN : Disconnect(closed, fifth)
    \/ TwoHoursPass
    \/ \E g \in Guids, won \in BOOLEAN : Confirm(g, won)
    \/ \E t \in Threads : RouteClose(t) \/ RouteJobs(t)

Spec == Init /\ [][Next]_vars

-----------------------------------------------------------------------------

Quiet == \A t \in Threads : ~effects[t].busy

Counted == UNION {{s} \X DOMAIN tally[s] : s \in Sessions}
EntryAt(p) == tally[p[1]][p[2]]

\* A match is counted at most once, over all sessions, whichever of MatchEnded,
\* MatchDestroyed and Tracker's confirmation come, in whatever order and
\* however often (FinalizeCapturedMatch's duplicate check, HandleMatchEnded,
\* ConfirmPendingDestroyedMatch).
CountedOnce ==
    \A p, q \in Counted :
        p # q => IF EntryAt(p).guid # NoGuid THEN EntryAt(p).guid # EntryAt(q).guid
                 ELSE EntryAt(p).gen # EntryAt(q).gen

\* Once both threads have routed their effects, each counted match with a guid
\* has exactly one row, and that row has the counted result (EffectRouter::Route,
\* SaveMatch and the provisional row of a match left early).
CountedIsSaved ==
    Quiet => \A p \in Counted : EntryAt(p).guid # NoGuid =>
                 {r \in matchRows : r.guid = EntryAt(p).guid}
                     = {[guid |-> EntryAt(p).guid, gen |-> EntryAt(p).gen,
                         won |-> EntryAt(p).won, provisional |-> FALSE]}

\* A game is counted at most once, and the row that is saved is what was counted
\* (FinalizeCapturedMatch, EffectRouter::Route).
GamesCountedAndSaved == LifecycleTypeOK /\ CountedOnce /\ CountedIsSaved

\* A match that was allowed to wait for its result counts when the result comes:
\* what IsValidEarlyCompetitiveExit accepts, ClassifyMatchEnd does not void, so
\* ResolvePendingMatch never has to delete a provisional row.
PendingWillCount == \A g \in Guids : pending[g] # None => Counts(pending[g])

\* A result that comes late for a match left early does not touch the match
\* being played by then (isCurrentMatch in FinalizeCapturedMatch).
LateResultSparesMatch ==
    [][\A g \in Guids :
        (pending[g] # None /\ pending'[g] = None /\ match.inMatch) => match' = match]_vars

\* Without late confirmations, saved sessions hold what was counted in them, and
\* those of earlier launches are not touched (AsyncSaveSession, AsyncUpdateSession).
SessionsSavedAsCounted ==
    Quiet /\ ~settings.tracker =>
        /\ \A i \in 1..Len(sessionRows) :
               sessionRows[i].tally = IF sessionRows[i].of = 0 THEN <<>>
                                      ELSE tally[sessionRows[i].of]
        /\ recapOf # 0 => rowOf[recapOf] # 0

\* Where sessions do not end with the game, closing it does not split one: a
\* match of a later session comes two hours after one of each earlier session,
\* however late either is counted (CloseSessionIfInactive).
SessionsSplitByGap ==
    ~settings.reset => \A p, q \in Counted : p[1] < q[1] =>
        \E r \in Counted : r[1] = p[1] /\ EntryAt(r).era < EntryAt(q).era

\* Sessions are saved as they were counted, and split by a pause only
\* (MatchState::StartNewSession, AsyncSaveSession).
SessionsAreSound == SessionsSavedAsCounted /\ SessionsSplitByGap

-----------------------------------------------------------------------------
(* Values for the .cfg: sessions that end with the game, with and without   *)
(* late confirmations, and sessions that do not.                            *)

Configurations ==
    {[reset |-> TRUE, tracker |-> TRUE, sessions |-> 2, gaps |-> 0],
     [reset |-> TRUE, tracker |-> FALSE, sessions |-> 3, gaps |-> 0],
     [reset |-> FALSE, tracker |-> TRUE, sessions |-> 3, gaps |-> 1]}
=============================================================================
