---------------------------- MODULE SessionTables ----------------------------
(***************************************************************************)
(* How saved matches are gathered into sessions.  A session that ends      *)
(* while the program runs is saved with the matches it counted; matches    *)
(* that belong to no session (the program was closed first, they come from *)
(* another database or from an older version) are linked by backfill, in   *)
(* chunks of the oldest, to the session that was on or to sessions of      *)
(* their own, which end where more than a gap lies between two matches.    *)
(*                                                                         *)
(* The database worker saves and backfills, a merge or a deletion runs on  *)
(* a thread of its own; each table step is one hold of the write mutex.    *)
(* One account; a match takes no time and is named by when it ended; every *)
(* match is decided at once (PostMatch has the ones that are not).         *)
(***************************************************************************)
EXTENDS Integers, Sequences, FiniteSets, FiniteSetsExt

CONSTANTS
  LastTime,     \* bound: the last moment at which a match may end
  Gap,          \* kSessionGapSeconds
  ChunkSize,    \* how many matches one chunk takes (500)
  MaxRestarts,  \* bound: how often the program is closed or crashes
  MaxDeletes    \* bound: how often the history is deleted

ASSUME SessionTablesAssumption ==
  /\ LastTime \in Nat \ {0} /\ Gap \in Nat \ {0} /\ ChunkSize \in Nat \ {0}
  /\ MaxRestarts \in Nat /\ MaxDeletes \in Nat

Times == 1..LastTime
NoSession == 0

VARIABLES
  now, played,  \* the time, and whether a match has ended at it
  rows,         \* the confirmed matches in table Matches
  link,         \* session_id of each of them
  sessions,     \* table Sessions: [source, from, to, games], games as the set that was counted
  live,         \* the matches the open session has counted (sessionMatchGuids)
  recapValid,   \* lastSessionRecap.valid
  saves,        \* the critical jobs that wait: matches and sessions to save
  backfill,     \* BackfillSessions on the worker: "none", "queued", "running"
  merging,      \* MergeDatabase has added its rows and backfills them
  imported,     \* the matches it added
  exposed,      \* a session was not saved yet when a backfill that does not know of it ran
  restarts, deletes

rowVars == <<rows, link, sessions>>
mergeState == <<merging, imported>>
times == <<now, played>>
sessionVars == <<times, rowVars, live, recapValid, saves, backfill, mergeState, exposed,
                 restarts, deletes>>

NoLinks == [t \in Times |-> NoSession]

SessionInit ==
  /\ now = 1 /\ played = FALSE /\ rows = {} /\ link = NoLinks /\ sessions = <<>>
  /\ live = {} /\ recapValid = FALSE /\ saves = <<>> /\ backfill = "none"
  /\ merging = FALSE /\ imported = {} /\ exposed = FALSE
  /\ restarts = 0 /\ deletes = 0

Unlinked == {t \in rows : link[t] = NoSession}
RowsOf(id) == {t \in rows : link[t] = id}
Oldest(ends, n) == {t \in ends : Cardinality({u \in ends : u < t}) < n}
Latest(ends, n) == {t \in ends : Cardinality({u \in ends : u > t}) < n}

\* StartsNewSession.
Separates(t, u) == u - t > Gap

\* GroupSessionTimestamps: where its slices begin, which of them a match belongs to, and the last.
Begins(ends) == {t \in ends : \A u \in ends : u < t => Separates(u, t)}
SliceOf(begins, t) == Cardinality({b \in begins : b <= t})
LastSlice(ends) == {t \in ends : \A b \in Begins(ends) : b <= t}

\* LinkSessionMatches: by guid and by time, and if that finds none the latest without a session.
LinkedBy(games, from, to) ==
  LET found == {t \in Unlinked : t \in games \/ t \in from..to}
      latest == Latest(Unlinked, Cardinality(games))
  IN IF found # {} THEN found ELSE LastSlice(latest)

\* SaveSession of a recap.
SaveSession(games, to) ==
  LET id == Len(sessions) + 1
      linked == LinkedBy(games, Min(games), to)
  IN /\ sessions' = Append(sessions, [source |-> "live", from |-> Min(games), to |-> to,
                                      games |-> games])
     /\ link' = [t \in Times |-> IF t \in linked THEN id ELSE link[t]]

MatchSave(t) == [games |-> {t}, to |-> NoSession]
SessionSave(games, to) == [games |-> games, to |-> to]
IsMatch(save) == save.to = NoSession

\* CloseSessionIfInactive.
Inactive == live # {} /\ Separates(Max(live), now)

\* A match ends: an inactive session has been closed when it began; it is counted and saved.
Play ==
  /\ ~played /\ now \notin rows /\ played' = TRUE
  /\ saves' = saves \o (IF Inactive THEN <<SessionSave(live, Max(live))>> ELSE <<>>)
                    \o <<MatchSave(now)>>
  /\ live' = IF Inactive THEN {now} ELSE live \cup {now}
  /\ recapValid' = (recapValid \/ Inactive)
  /\ exposed' = (exposed \/ (Inactive /\ backfill = "running"))
  /\ UNCHANGED <<now, rowVars, backfill, mergeState, restarts, deletes>>

\* The connection to the game ends: a session is closed now if reset_session_on_close is set, and
\* otherwise, if it is inactive, at the end of its last match.
EndSession ==
  /\ live # {} /\ live' = {} /\ recapValid' = TRUE
  /\ \E to \in {now} \cup (IF Inactive THEN {Max(live)} ELSE {}) :
       saves' = Append(saves, SessionSave(live, to))
  /\ exposed' = (exposed \/ backfill = "running")
  /\ UNCHANGED <<times, rowVars, backfill, mergeState, restarts, deletes>>

TimePasses ==
  /\ now < LastTime /\ now' = now + 1 /\ played' = FALSE
  /\ UNCHANGED <<rowVars, live, recapValid, saves, backfill, mergeState, exposed, restarts,
                 deletes>>

\* The program ends, or crashes with jobs in the queue; Initialize queues a backfill.
Restart ==
  /\ restarts < MaxRestarts /\ restarts' = restarts + 1
  /\ live' = {} /\ recapValid' = FALSE /\ saves' = <<>> /\ merging' = FALSE
  /\ backfill' = IF Unlinked # {} THEN "queued" ELSE "none"
  /\ UNCHANGED <<times, rowVars, imported, exposed, deletes>>

\* The worker between two jobs, the write mutex free.
WorkerFree == backfill # "running" /\ ~merging

\* AsyncSaveMatch, AsyncSaveSession.
RunSave ==
  /\ WorkerFree /\ saves # <<>> /\ saves' = Tail(saves)
  /\ LET save == Head(saves)
     IN IF IsMatch(save)
        THEN rows' = rows \cup save.games /\ UNCHANGED <<link, sessions>>
        ELSE SaveSession(save.games, save.to) /\ UNCHANGED rows
  /\ UNCHANGED <<times, live, recapValid, backfill, mergeState, exposed, restarts, deletes>>

\* The job of Initialize, behind the critical ones.
StartBackfill ==
  /\ WorkerFree /\ saves = <<>> /\ backfill = "queued" /\ backfill' = "running"
  /\ UNCHANGED <<times, rowVars, live, recapValid, saves, mergeState, exposed, restarts, deletes>>

NothingInMemory == live = {} /\ ~recapValid

\* ListSessions, in a job that reads the sessions for a window.
ListSessions ==
  /\ WorkerFree /\ backfill = "none"
  /\ NothingInMemory /\ Unlinked # {} /\ backfill' = "running"
  /\ UNCHANGED <<times, rowVars, live, recapValid, saves, mergeState, exposed, restarts, deletes>>

\* The session an earlier chunk or an earlier backfill left within a gap before a slice begins.
JoinedSession(begin) ==
  LET before == {i \in DOMAIN sessions : sessions[i].source = "backfill"
                                          /\ sessions[i].to <= begin}
      latest == {i \in before : \A j \in before : sessions[j].to <= sessions[i].to}
  IN IF before = {} \/ \A i \in latest : Separates(sessions[i].to, begin)
     THEN NoSession ELSE Max(latest)

\* The live session that was on when the match ended, if one is saved.
LiveAt(t) ==
  LET on == {i \in DOMAIN sessions : sessions[i].source = "live"
                                      /\ t \in sessions[i].from..sessions[i].to}
  IN IF on = {} THEN NoSession ELSE Max(on)

\* Mutant: a session that is continued is computed from the new matches.
JoiningAlone(id, slice) == slice

\* RecomputeBackfillSession reads every match of the session.
Joining(id, slice) == RowsOf(id) \cup slice

Backfilled(games) ==
  [source |-> "backfill", from |-> Min(games), to |-> Max(games), games |-> games]

\* What one chunk reads: one match more than it takes, to know whether there are others.
ReadBy(active) == Oldest(Unlinked, ChunkSize + 1) \ active
ChunkOf(active) == Oldest(ReadBy(active), ChunkSize)
MoreRemaining(active) == Cardinality(ReadBy(active)) > ChunkSize

\* BackfillSessionsChunk: matches of a live session are linked to it; the others by slices, of
\* which the first may continue a session; each session is computed anew from its rows.
Alone(chunk) == {t \in chunk : LiveAt(t) = NoSession}
Joined(alone) == IF alone = {} THEN NoSession ELSE JoinedSession(Min(alone))

\* Where the slices begin that get sessions of their own; slice 0 is the one that continues one.
Fresh(alone) == IF Joined(alone) = NoSession THEN Begins(alone) ELSE Begins(alone) \ {Min(alone)}
Slice(alone, k) == {t \in alone : SliceOf(Fresh(alone), t) = k}

IdIn(alone, t) ==
  IF t \notin alone THEN LiveAt(t)
  ELSE IF SliceOf(Fresh(alone), t) = 0 THEN Joined(alone)
  ELSE Len(sessions) + SliceOf(Fresh(alone), t)

Continued(alone) ==
  LET id == Joined(alone)
  IN IF id = NoSession THEN sessions
     ELSE [sessions EXCEPT ![id] = Backfilled(Joining(id, Slice(alone, 0)))]

Created(alone) == [k \in 1..Cardinality(Fresh(alone)) |-> Backfilled(Slice(alone, k))]

BackfillSessionsChunk(active) ==
  LET chunk == ChunkOf(active)
      alone == Alone(chunk)
  IN /\ link' = [t \in Times |-> IF t \in chunk THEN IdIn(alone, t) ELSE link[t]]
     /\ sessions' = Continued(alone) \o Created(alone)

Active == live

\* One turn of BackfillSessions on the worker.
Backfill ==
  /\ backfill = "running" /\ ~merging
  /\ BackfillSessionsChunk(Active)
  /\ backfill' = IF MoreRemaining(Active) THEN "running" ELSE "none"
  /\ UNCHANGED <<times, rows, live, recapValid, saves, mergeState, exposed, restarts, deletes>>

\* MergeDatabase: matches that are not there yet are added, without a session.
Merge(others) ==
  /\ imported = {} /\ others # {} /\ others \cap rows = {}
  /\ rows' = rows \cup others /\ imported' = others /\ merging' = TRUE
  /\ exposed' = (exposed \/ live # {} \/ saves # <<>>)
  /\ UNCHANGED <<times, link, sessions, live, recapValid, saves, backfill, restarts, deletes>>

\* Its loop over the chunks, with the write mutex held: it leaves no match out.
BackfillMerged ==
  /\ merging
  /\ BackfillSessionsChunk({})
  /\ merging' = MoreRemaining({})
  /\ UNCHANGED <<times, rows, live, recapValid, saves, backfill, imported, exposed, restarts,
                 deletes>>

DeleteLocalMatchHistory ==
  /\ ~merging /\ deletes < MaxDeletes /\ deletes' = deletes + 1
  /\ rows' = {} /\ link' = NoLinks /\ sessions' = <<>>
  /\ UNCHANGED <<times, live, recapValid, saves, backfill, mergeState, exposed, restarts>>

SessionNext ==
  \/ Play \/ EndSession \/ TimePasses \/ Restart
  \/ RunSave \/ StartBackfill \/ ListSessions \/ Backfill
  \/ (\E others \in SUBSET (1..now \ live) : Merge(others)) \/ BackfillMerged
  \/ DeleteLocalMatchHistory

SessionSpec == SessionInit /\ [][SessionNext]_sessionVars

-----------------------------------------------------------------------------
SessionTypeOK ==
  /\ now \in Times /\ played \in BOOLEAN /\ rows \subseteq Times /\ live \subseteq Times /\ imported \subseteq Times
  /\ link \in [Times -> Nat]
  /\ sessions \in Seq([source : {"live", "backfill"}, from : Times, to : Times,
                       games : SUBSET Times])
  /\ saves \in Seq([games : SUBSET Times, to : Times \cup {NoSession}])
  /\ backfill \in {"none", "queued", "running"}
  /\ recapValid \in BOOLEAN /\ merging \in BOOLEAN /\ exposed \in BOOLEAN

\* What a backfilled session shows are the matches linked to it, whatever chunks it was put
\* together from (RecomputeBackfillSession runs after every slice).
BackfillIsExact ==
  \A i \in DOMAIN sessions :
    sessions[i].source = "backfill" => sessions[i] = Backfilled(RowsOf(i))

\* One sitting of matches becomes one session, however the chunks and restarts cut it up.
BackfillDoesNotSplit ==
  imported = {} =>
    \A i, j \in DOMAIN sessions :
      (sessions[i].source = "backfill" /\ sessions[j].source = "backfill"
         /\ sessions[i].from < sessions[j].from)
        => Separates(sessions[i].to, sessions[j].from)

\* Within a session no two matches that follow each other lie more than the gap apart.
SessionsAreSittings == \A i \in DOMAIN sessions : Cardinality(Begins(sessions[i].games)) = 1

\* A match is counted in one session at most: backfill leaves out those of the session that is
\* on or has just ended, and takes none that a session was saved with.
GamesCountedOnce ==
  ~exposed =>
    \A i, j \in DOMAIN sessions : i # j => sessions[i].games \cap sessions[j].games = {}

\* A saved match that a session counts is never linked to another one.
LinkedWhereCounted ==
  ~exposed =>
    \A i \in DOMAIN sessions : \A t \in sessions[i].games \cap rows : link[t] \in {NoSession, i}
=============================================================================
