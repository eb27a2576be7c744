------------------------------ MODULE WorkQueue ------------------------------
(***************************************************************************)
(* WorkQueue: one worker thread, any number of callers.  A wait on a       *)
(* condition variable is a test of its predicate under the mutex and, when *)
(* it fails, a sleep that only a notification ends, so that a missing one  *)
(* shows as a thread that sleeps for ever.  Enqueue and Stop notify after  *)
(* the mutex is released.  Jobs are numbered in the order of acceptance; a *)
(* job may enqueue others.                                                 *)
(***************************************************************************)
EXTENDS Naturals, Sequences

CONSTANTS
  Callers,     \* the threads that use the queue
  QueueLimit,  \* jobs.size() at which a job that is not critical is refused (256)
  MaxQueued    \* bound: how many jobs are accepted

ASSUME WorkQueueAssumption == QueueLimit \in Nat /\ MaxQueued \in Nat

JobIds == 1..MaxQueued
NothingRuns == 0

VARIABLES
  queue,     \* m_jobs
  active,    \* the job the worker is running (m_active)
  stop,      \* m_stop
  runner,    \* the worker thread
  caller,    \* what each caller is doing
  stopper,   \* the thread that calls Stop
  accepted,  \* the jobs Enqueue accepted, in order
  ran,       \* the jobs that have run, in order
  since      \* what had been accepted when a caller called Drain

workVars == <<queue, active, stop, runner, caller, stopper, accepted, ran, since>>

WorkInit ==
  /\ queue = <<>> /\ active = NothingRuns /\ stop = FALSE
  /\ runner = "testing"
  /\ caller = [c \in Callers |-> "idle"]
  /\ stopper = "idle"
  /\ accepted = <<>> /\ ran = <<>>
  /\ since = [c \in Callers |-> 0]

Room(critical) == Len(queue) < QueueLimit \/ critical

Push ==
  /\ Len(accepted) < MaxQueued
  /\ queue' = Append(queue, Len(accepted) + 1)
  /\ accepted' = Append(accepted, Len(accepted) + 1)

\* A refused job leaves no trace, so only acceptance is a step.
Enqueue(c, critical) ==
  /\ caller[c] = "idle"
  /\ ~stop /\ Room(critical) /\ Push
  /\ caller' = [caller EXCEPT ![c] = "notifying"]
  /\ UNCHANGED <<active, stop, runner, stopper, ran, since>>

WokenWorker == IF runner = "asleep" THEN "testing" ELSE runner

Notify(c) ==
  /\ caller[c] = "notifying"
  /\ runner' = WokenWorker
  /\ caller' = [caller EXCEPT ![c] = "idle"]
  /\ UNCHANGED <<queue, active, stop, stopper, accepted, ran, since>>

\* A job calls Enqueue: m_workerId is this thread, so it may do so after Stop.
EnqueueFromJob(critical) ==
  /\ runner = "running"
  /\ Room(critical) /\ Push
  /\ UNCHANGED <<active, stop, runner, caller, stopper, ran, since>>

MayExit == stop /\ queue = <<>>

TakeFirst == active' = Head(queue) /\ queue' = Tail(queue)

WorkerStep ==
  /\ runner = "testing"
  /\ \/ MayExit /\ runner' = "exited" /\ UNCHANGED <<queue, active>>
     \/ ~MayExit /\ queue # <<>> /\ TakeFirst /\ runner' = "running"
     \/ ~stop /\ queue = <<>> /\ runner' = "asleep" /\ UNCHANGED <<queue, active>>
  /\ UNCHANGED <<stop, caller, stopper, accepted, ran, since>>

WokenDrains(now) == [c \in Callers |-> IF now[c] = "asleep" THEN "draining" ELSE now[c]]

\* The job returns or throws, which is the same to the worker.
JobDone ==
  /\ runner = "running"
  /\ ran' = Append(ran, active)
  /\ active' = NothingRuns
  /\ runner' = "testing"
  /\ caller' = IF queue = <<>> THEN WokenDrains(caller) ELSE caller
  /\ UNCHANGED <<queue, stop, stopper, accepted, since>>

BeginDrain(c) ==
  /\ caller[c] = "idle"
  /\ caller' = [caller EXCEPT ![c] = "draining"]
  /\ since' = [since EXCEPT ![c] = Len(accepted)]
  /\ UNCHANGED <<queue, active, stop, runner, stopper, accepted, ran>>

Drained == queue = <<>> /\ active = NothingRuns

DrainStep(c) ==
  /\ caller[c] = "draining"
  /\ caller' = [caller EXCEPT ![c] = IF Drained THEN "drained" ELSE "asleep"]
  /\ UNCHANGED <<queue, active, stop, runner, stopper, accepted, ran, since>>

DrainReturns(c) ==
  /\ caller[c] = "drained"
  /\ caller' = [caller EXCEPT ![c] = "idle"]
  /\ UNCHANGED <<queue, active, stop, runner, stopper, accepted, ran, since>>

BeginStop ==
  /\ stopper = "idle"
  /\ stop' = TRUE /\ stopper' = "notifying"
  /\ UNCHANGED <<queue, active, runner, caller, accepted, ran, since>>

NotifyStop ==
  /\ stopper = "notifying"
  /\ runner' = WokenWorker
  /\ stopper' = "joining"
  /\ UNCHANGED <<queue, active, stop, caller, accepted, ran, since>>

Join ==
  /\ stopper = "joining" /\ runner = "exited"
  /\ stopper' = "stopped"
  /\ UNCHANGED <<queue, active, stop, runner, caller, accepted, ran, since>>

CallerStep(c) == Notify(c) \/ DrainStep(c) \/ DrainReturns(c)
StopStep == NotifyStop \/ Join

WorkNext ==
  \/ \E c \in Callers : \/ \E critical \in BOOLEAN : Enqueue(c, critical)
                        \/ BeginDrain(c) \/ CallerStep(c)
  \/ \E critical \in BOOLEAN : EnqueueFromJob(critical)
  \/ WorkerStep \/ JobDone
  \/ BeginStop \/ StopStep

\* A thread that can take a step inside a call does, and every job ends.
WorkFairness ==
  /\ WF_workVars(WorkerStep) /\ WF_workVars(JobDone)
  /\ \A c \in Callers : WF_workVars(CallerStep(c))
  /\ WF_workVars(StopStep)

WorkSpec == WorkInit /\ [][WorkNext]_workVars /\ WorkFairness

-----------------------------------------------------------------------------
WorkTypeOK ==
  /\ queue \in Seq(JobIds) /\ accepted \in Seq(JobIds) /\ ran \in Seq(JobIds)
  /\ active \in JobIds \cup {NothingRuns} /\ stop \in BOOLEAN
  /\ runner \in {"testing", "asleep", "running", "exited"}
  /\ caller \in [Callers -> {"idle", "notifying", "draining", "asleep", "drained"}]
  /\ stopper \in {"idle", "notifying", "joining", "stopped"}
  /\ since \in [Callers -> Nat]

Running == IF active = NothingRuns THEN <<>> ELSE <<active>>

\* Nothing accepted is lost, run twice or overtaken: what has run, what is running and what
\* waits are, in this order, what was accepted (worker loop and Enqueue).
NothingLost == accepted = ran \o Running \o queue

\* When Drain returns, every job accepted before the call has run, the one that was running
\* included (WorkQueue.hpp: "wait for queued and running jobs").
DrainWaitsForAll == \A c \in Callers : caller[c] = "drained" => Len(ran) >= since[c]

\* The queue is a FifoRun that is over when Stop returns: all accepted jobs, also those that
\* jobs enqueued while the queue was stopping, run before that and none after.
Fifo == INSTANCE FifoRun WITH Jobs <- JobIds, over <- stopper = "stopped"
KeepsFifo == Fifo!FifoSafety

\* Stop returns, whatever the worker and the callers were doing when it was called.
StopReturns == stop ~> stopper = "stopped"

\* A thread in Drain is not left asleep once the queue is empty and idle.
DrainReturnsAtLast ==
  \A c \in Callers : caller[c] \in {"draining", "asleep"} ~> caller[c] = "drained"

\* Every accepted job is run.
AcceptedRuns == \A n \in JobIds : Len(accepted) >= n ~> Len(ran) >= n
=============================================================================
