---------------------------- MODULE DatabaseWorker ----------------------------
(***************************************************************************)
(* The job queue of DatabaseManager and what its jobs do to the tables and *)
(* to the figures that follow every save (the statistics and the recent    *)
(* matches).  A save writes the tables and then reads them again for both; *)
(* a refresh reads them for one; a merge or a deletion writes them from a  *)
(* thread of its own, under the write mutex, after which the UI thread     *)
(* clears the figures and asks for them again.  Tables and figures are     *)
(* known by how often the tables had been written.                         *)
(***************************************************************************)
EXTENDS Naturals, Sequences, FiniteSets, SequencesExt, FiniteSetsExt

CONSTANTS
  Keys,      \* the coalesce keys: one for each figure that can be refreshed
  JobLimit,  \* m_jobs.size() above which only critical jobs are accepted (100)
  MaxJobs,   \* bound: how many jobs are accepted
  MaxDirect  \* bound: how many merges and deletions there are

ASSUME DatabaseWorkerAssumption == JobLimit \in Nat /\ MaxJobs \in Nat /\ MaxDirect \in Nat

Cleared == 0
NoKey == "noKey"
NoJob == [id |-> 0, kind |-> "none", key |-> NoKey]

\* kind: "save" is Critical, "refresh" Coalescable, "query" Normal.
Job(id, kind, key) == [id |-> id, kind |-> kind, key |-> key]
JobSet == {Job(i, kind, NoKey) : i \in 1..MaxJobs, kind \in {"save", "query"}}
            \cup {Job(i, "refresh", key) : i \in 1..MaxJobs, key \in Keys}
Critical(job) == job.kind = "save"
Other(job) == job.kind # "save"
Class(job) == IF Critical(job) THEN "critical" ELSE "other"
NoneYet == [class \in {"critical", "other"} |-> <<>>]
JobCount(list) == Len(list.critical) + Len(list.other)

VARIABLES
  dbJobs,       \* m_jobs
  pendingKeys,  \* m_pendingCoalescedJobs
  current,      \* the job the worker took, or NoJob
  phase,        \* how far it has got: "write", "read", "publish", "ended"
  result,       \* what it has read
  stopWorker,   \* m_stopWorker
  gone,         \* the destructor has joined the worker
  tables,       \* how often the tables have been written
  figures,      \* what is shown: the tables it was read from, or Cleared
  toClear,      \* a merge or deletion whose UI callback is still to run
  direct,       \* how many of them there have been
  took, did,    \* the accepted jobs and the ones that ran: the critical in order, and the others
  missed        \* figures whose last refresh was not queued, or whose job failed

queueVars == <<dbJobs, pendingKeys, stopWorker>>
shownVars == <<tables, figures>>
mergeVars == <<toClear, direct>>
dbVars == <<dbJobs, pendingKeys, current, phase, result, stopWorker, gone, tables, figures,
            toClear, direct, took, did, missed>>

DbInit ==
  /\ dbJobs = <<>> /\ pendingKeys = {} /\ stopWorker = FALSE
  /\ current = NoJob /\ phase = "ended" /\ result = Cleared /\ gone = FALSE
  /\ tables = 1 /\ figures = [k \in Keys |-> 1]
  /\ toClear = FALSE /\ direct = 0
  /\ took = NoneYet /\ did = NoneYet /\ missed = {}

NextId == JobCount(took) + 1

\* Where the loop over the critical jobs at the front stops.
FirstOther(waiting) ==
  Min({i \in 1..(Len(waiting) + 1) : i > Len(waiting) \/ Other(waiting[i])})

\* A critical job goes behind the critical jobs at the front and before all others.
Inserted(waiting, job) ==
  IF Critical(job) THEN InsertAt(waiting, FirstOther(waiting), job) ELSE Append(waiting, job)

Full == Len(dbJobs) > JobLimit

Queue(job) ==
  /\ NextId <= MaxJobs
  /\ dbJobs' = Inserted(dbJobs, job)
  /\ took' = [took EXCEPT ![Class(job)] = Append(@, job)]

\* AsyncSaveMatch: full or not, a critical job is kept.
EnqueueSave ==
  /\ ~stopWorker /\ Queue(Job(NextId, "save", NoKey))
  /\ UNCHANGED <<pendingKeys, current, phase, result, stopWorker, gone, shownVars, mergeVars,
                 did, missed>>

KeysAfterDrop(key) == pendingKeys \ {key}

\* A refresh: coalesced with the job of that key that waits or runs, dropped, or queued.
Refresh(key) ==
  \/ /\ key \in pendingKeys
     /\ missed' = IF current.key = key THEN missed \cup {key} ELSE missed
     /\ UNCHANGED <<dbJobs, pendingKeys, took>>
  \/ /\ key \notin pendingKeys /\ Full
     /\ pendingKeys' = KeysAfterDrop(key)
     /\ missed' = missed \cup {key}
     /\ UNCHANGED <<dbJobs, took>>
  \/ /\ key \notin pendingKeys /\ ~Full
     /\ Queue(Job(NextId, "refresh", key))
     /\ pendingKeys' = pendingKeys \cup {key}
     /\ missed' = missed \ {key}

EnqueueRefresh(key) ==
  /\ ~stopWorker /\ Refresh(key)
  /\ UNCHANGED <<current, phase, result, stopWorker, gone, shownVars, mergeVars, did>>

\* AsyncQueryMatches and other Normal jobs read for a window of their own; full, they are dropped.
EnqueueQuery ==
  /\ ~stopWorker /\ ~Full /\ Queue(Job(NextId, "query", NoKey))
  /\ UNCHANGED <<pendingKeys, current, phase, result, stopWorker, gone, shownVars, mergeVars,
                 did, missed>>

\* A merge or deletion on its background thread.
DirectWrite ==
  /\ ~gone /\ ~toClear /\ direct < MaxDirect
  /\ tables' = tables + 1 /\ direct' = direct + 1 /\ toClear' = TRUE
  /\ UNCHANGED <<queueVars, current, phase, result, gone, figures, took, did, missed>>

\* Its callback on the UI thread (FinishDatabaseMerge) clears what is shown.
ClearFigures ==
  /\ toClear /\ toClear' = FALSE
  /\ figures' = [k \in Keys |-> Cleared]
  /\ missed' = Keys
  /\ UNCHANGED <<queueVars, current, phase, result, gone, tables, direct, took, did>>

Take ==
  /\ current = NoJob /\ dbJobs # <<>>
  /\ current' = Head(dbJobs) /\ dbJobs' = Tail(dbJobs)
  /\ phase' = IF Critical(current') THEN "write" ELSE "read"
  /\ UNCHANGED <<pendingKeys, result, stopWorker, gone, shownVars, mergeVars, took, did, missed>>

WriteTables ==
  /\ phase = "write"
  /\ tables' = tables + 1 /\ phase' = "read"
  /\ UNCHANGED <<queueVars, current, result, gone, figures, mergeVars, took, did, missed>>

ReadTables ==
  /\ phase = "read"
  /\ result' = tables /\ phase' = "publish"
  /\ UNCHANGED <<queueVars, current, gone, shownVars, mergeVars, took, did, missed>>

FiguresOf(job) == IF Critical(job) THEN Keys ELSE {job.key} \cap Keys

PublishSnapshot ==
  /\ phase = "publish" /\ phase' = "ended"
  /\ figures' = [k \in Keys |-> IF k \in FiguresOf(current) THEN result ELSE figures[k]]
  /\ missed' = IF result = tables THEN missed \ FiguresOf(current) ELSE missed
  /\ UNCHANGED <<queueVars, current, result, gone, tables, mergeVars, took, did>>

\* An exception leaves the job where it is and the worker goes on.
Fail ==
  /\ phase \in {"write", "read", "publish"} /\ phase' = "ended"
  /\ missed' = missed \cup FiguresOf(current)
  /\ UNCHANGED <<queueVars, current, result, gone, shownVars, mergeVars, took, did>>

KeysAfter(job) == IF job.kind = "refresh" THEN pendingKeys \ {job.key} ELSE pendingKeys

FinishJob ==
  /\ current # NoJob /\ phase = "ended"
  /\ pendingKeys' = KeysAfter(current)
  /\ did' = [did EXCEPT ![Class(current)] = Append(@, current)]
  /\ current' = NoJob
  /\ UNCHANGED <<dbJobs, phase, result, stopWorker, gone, shownVars, mergeVars, took, missed>>

\* ~DatabaseManager.
BeginDestroy ==
  /\ ~stopWorker /\ stopWorker' = TRUE
  /\ UNCHANGED <<dbJobs, pendingKeys, current, phase, result, gone, shownVars, mergeVars, took,
                 did, missed>>

MayLeave == current = NoJob /\ dbJobs = <<>>

Destroyed ==
  /\ stopWorker /\ ~gone /\ MayLeave
  /\ gone' = TRUE
  /\ UNCHANGED <<queueVars, current, phase, result, shownVars, mergeVars, took, did, missed>>

WorkerSteps ==
  Take \/ WriteTables \/ ReadTables \/ PublishSnapshot \/ Fail \/ FinishJob \/ Destroyed

DbNext ==
  \/ EnqueueSave \/ EnqueueQuery \/ (\E key \in Keys : EnqueueRefresh(key))
  \/ DirectWrite \/ ClearFigures
  \/ WorkerSteps \/ BeginDestroy

\* The worker goes on while it has something to do.
DbFairness == WF_dbVars(WorkerSteps)

DbSpec == DbInit /\ [][DbNext]_dbVars /\ DbFairness

-----------------------------------------------------------------------------
DbTypeOK ==
  /\ dbJobs \in Seq(JobSet) /\ {took, did} \subseteq [{"critical", "other"} -> Seq(JobSet)]
  /\ current \in JobSet \cup {NoJob} /\ phase \in {"write", "read", "publish", "ended"}
  /\ pendingKeys \subseteq Keys /\ missed \subseteq Keys
  /\ result \in Nat /\ tables \in Nat /\ figures \in [Keys -> Nat] /\ direct \in Nat
  /\ stopWorker \in BOOLEAN /\ gone \in BOOLEAN /\ toClear \in BOOLEAN

\* The critical jobs run in the order in which they were accepted, whatever else waits and however
\* full the queue is, all of them before the destructor returns; and so do the others.
CriticalFifo == INSTANCE FifoRun WITH
  Jobs <- JobSet, accepted <- took.critical, ran <- did.critical, over <- gone
OtherFifo == INSTANCE FifoRun WITH
  Jobs <- JobSet, accepted <- took.other, ran <- did.other, over <- gone
RunInOrder == CriticalFifo!FifoSafety /\ OtherFifo!FifoSafety

\* A key is pending exactly while a job for it waits or runs: a key left behind would make every
\* later refresh of its figure disappear (EnqueueDbJob drops it when the queue is full, the worker
\* when the job has run or thrown).
PendingKeysExact ==
  pendingKeys = {job.key : job \in {j \in ToSet(dbJobs) \cup {current} : j.kind = "refresh"}}

\* Once nothing waits and nothing runs, a figure is out of date only if the last refresh asked for
\* after the change was dropped, failed, or was coalesced with a job that had already begun.
StaleOnlyWhenMissed ==
  dbJobs = <<>> /\ current = NoJob /\ ~toClear =>
    \A k \in Keys : figures[k] = tables \/ k \in missed

\* Every accepted job is run, those that critical ones overtake included.
JobsAllRun == \A n \in 1..MaxJobs : JobCount(took) >= n ~> JobCount(did) >= n
=============================================================================
