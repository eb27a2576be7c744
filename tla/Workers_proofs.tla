---------------------------- MODULE Workers_proofs ----------------------------
(***************************************************************************)
(* Proofs about the components that are checked together in MCSafety, of   *)
(* which each runs by itself: the work queue, the pool of read             *)
(* connections, the update check and the tables of sessions.  Each has an  *)
(* inductive invariant of its own, kept by its own steps whatever the      *)
(* others do, since they share no variable.                                *)
(***************************************************************************)
EXTENDS MCSafety, FiniteSetTheorems, SequenceTheorems, TLAPS

-----------------------------------------------------------------------------
\* The work queue.

\* Where the worker and the thread in Stop can be: a job runs exactly while the worker is not
\* at its wait, it leaves only a stopped and empty queue, and Stop returns after it has left.
WorkerPlace ==
  /\ runner = "running" <=> active # NothingRuns
  /\ runner = "exited" => stop /\ queue = <<>>
  /\ stopper # "idle" => stop
  /\ stopper = "stopped" => runner = "exited"

\* A caller in Drain has called it after what it waits for was accepted.
DrainSeen == \A c \in Callers : since[c] <= Len(accepted)

WorkInv == WorkTypeOK /\ WorkerPlace /\ NothingLost /\ DrainSeen /\ DrainWaitsForAll

LEMMA WorkInitially == WorkInit => WorkInv
<1> SUFFICES ASSUME WorkInit PROVE WorkInv
  OBVIOUS
<1>1. WorkTypeOK
  <2>1. <<>> \in Seq(JobIds)
    BY EmptySeq
  <2>2. QED
    BY <2>1 DEF WorkInit, WorkTypeOK
<1>2. WorkerPlace /\ NothingLost /\ DrainSeen /\ DrainWaitsForAll
  BY DEF WorkInit, WorkerPlace, NothingLost, Running, DrainSeen, DrainWaitsForAll, NothingRuns
<1>3. QED
  BY <1>1, <1>2 DEF WorkInv

\* Whatever is at work, what runs has a place between what ran and what waits.
LEMMA RunningIsSeq ==
  ASSUME active \in JobIds \cup {NothingRuns}
  PROVE  Running \in Seq(JobIds)
BY DEF Running

\* Accepting a job adds it at the end of all three, taken together.
LEMMA PushKeeps ==
  ASSUME WorkInv, Push, UNCHANGED <<active, ran>>
  PROVE  /\ queue' \in Seq(JobIds) /\ accepted' \in Seq(JobIds)
         /\ Len(accepted') = Len(accepted) + 1 /\ NothingLost'
<1> DEFINE n == Len(accepted) + 1
<1>1. /\ queue \in Seq(JobIds) /\ accepted \in Seq(JobIds) /\ ran \in Seq(JobIds)
      /\ Running \in Seq(JobIds)
  BY RunningIsSeq DEF WorkInv, WorkTypeOK
<1>2. n \in JobIds
  BY <1>1, WorkQueueAssumption DEF Push, JobIds
<1>3. accepted' = accepted \o <<n>> /\ queue' = queue \o <<n>> /\ Running' = Running
  BY <1>1, <1>2, AppendIsConcat DEF Push, Running
<1>4. <<n>> \in Seq(JobIds)
  BY <1>2
<1>5. (ran \o Running) \in Seq(JobIds)
  BY <1>1, ConcatProperties
<1>6. accepted' = (ran \o Running) \o (queue \o <<n>>)
  <2>1. accepted = (ran \o Running) \o queue
    BY DEF WorkInv, NothingLost
  <2>2. ((ran \o Running) \o queue) \o <<n>> = (ran \o Running) \o (queue \o <<n>>)
    BY <1>1, <1>4, <1>5, ConcatAssociative
  <2>3. QED
    BY <1>3, <2>1, <2>2
<1>7. NothingLost'
  BY <1>3, <1>6 DEF NothingLost
<1>8. /\ queue' \in Seq(JobIds) /\ accepted' \in Seq(JobIds)
      /\ Len(accepted') = Len(accepted) + 1
  BY <1>1, <1>2, AppendProperties DEF Push
<1>9. QED
  BY <1>7, <1>8

LEMMA WorkStep == WorkInv /\ [WorkNext]_workVars => WorkInv'
<1> SUFFICES ASSUME WorkInv, [WorkNext]_workVars
             PROVE  WorkInv'
  OBVIOUS
<1> USE WorkQueueAssumption
<1>0. /\ queue \in Seq(JobIds) /\ accepted \in Seq(JobIds) /\ ran \in Seq(JobIds)
      /\ Running \in Seq(JobIds)
      /\ Len(accepted) \in Nat /\ Len(ran) \in Nat
  BY RunningIsSeq DEF WorkInv, WorkTypeOK
<1>1. ASSUME NEW c \in Callers, NEW critical \in BOOLEAN, Enqueue(c, critical)
      PROVE  WorkInv'
  <2>1. /\ queue' \in Seq(JobIds) /\ accepted' \in Seq(JobIds)
        /\ Len(accepted') = Len(accepted) + 1 /\ NothingLost'
    BY <1>1, PushKeeps DEF Enqueue
  <2>2. WorkTypeOK'
    BY <1>1, <2>1 DEF Enqueue, WorkInv, WorkTypeOK
  <2>3. WorkerPlace'
    BY <1>1 DEF Enqueue, WorkInv, WorkerPlace
  <2>4. DrainSeen' /\ DrainWaitsForAll'
    BY <1>0, <1>1, <2>1 DEF Enqueue, WorkInv, WorkTypeOK, DrainSeen, DrainWaitsForAll
  <2>5. QED
    BY <2>1, <2>2, <2>3, <2>4 DEF WorkInv
<1>2. ASSUME NEW critical \in BOOLEAN, EnqueueFromJob(critical)
      PROVE  WorkInv'
  <2>1. /\ queue' \in Seq(JobIds) /\ accepted' \in Seq(JobIds)
        /\ Len(accepted') = Len(accepted) + 1 /\ NothingLost'
    BY <1>2, PushKeeps DEF EnqueueFromJob
  <2>2. WorkTypeOK'
    BY <1>2, <2>1 DEF EnqueueFromJob, WorkInv, WorkTypeOK
  <2>3. WorkerPlace'
    BY <1>2 DEF EnqueueFromJob, WorkInv, WorkerPlace
  <2>4. DrainSeen' /\ DrainWaitsForAll'
    BY <1>0, <1>2, <2>1 DEF EnqueueFromJob, WorkInv, WorkTypeOK, DrainSeen, DrainWaitsForAll
  <2>5. QED
    BY <2>1, <2>2, <2>3, <2>4 DEF WorkInv
<1>3. ASSUME WorkerStep
      PROVE  WorkInv'
  <2>1. CASE UNCHANGED <<queue, active>> /\ runner' \in {"exited", "asleep"}
    <3>1. WorkTypeOK' /\ NothingLost' /\ DrainSeen' /\ DrainWaitsForAll'
      BY <1>3, <2>1 DEF WorkerStep, WorkInv, WorkTypeOK, NothingLost, Running, DrainSeen,
                        DrainWaitsForAll
    <3>2. WorkerPlace'
      BY <1>3, <2>1 DEF WorkerStep, MayExit, TakeFirst, WorkInv, WorkerPlace
    <3>3. QED
      BY <3>1, <3>2 DEF WorkInv
  <2>2. CASE ~MayExit /\ queue # <<>> /\ TakeFirst /\ runner' = "running"
    <3>1. Head(queue) \in JobIds /\ Tail(queue) \in Seq(JobIds)
      BY <1>0, <2>2, HeadTailProperties
    <3>2. Head(queue) # NothingRuns
      BY <3>1 DEF JobIds, NothingRuns
    <3>3. WorkTypeOK'
      BY <1>3, <2>2, <3>1 DEF WorkerStep, TakeFirst, WorkInv, WorkTypeOK
    <3>4. WorkerPlace'
      BY <1>3, <2>2, <3>2 DEF WorkerStep, TakeFirst, WorkInv, WorkerPlace
    <3>5. active = NothingRuns /\ Running = <<>> /\ Running' = <<Head(queue)>>
      BY <1>3, <2>2, <3>2 DEF WorkerStep, TakeFirst, WorkInv, WorkerPlace, Running
    <3>6. queue = <<Head(queue)>> \o Tail(queue)
      BY <1>0, <2>2, <3>1
    <3>7. accepted = (ran \o <<Head(queue)>>) \o Tail(queue)
      <4>1. accepted = ran \o queue
        BY <1>0, <3>5, ConcatEmptySeq DEF WorkInv, NothingLost
      <4>2. ran \in Seq(JobIds) /\ <<Head(queue)>> \in Seq(JobIds) /\ Tail(queue) \in Seq(JobIds)
        BY <1>0, <3>1
      <4>3. (ran \o <<Head(queue)>>) \o Tail(queue) = ran \o (<<Head(queue)>> \o Tail(queue))
        BY <4>2, ConcatAssociative
      <4>4. QED
        BY <3>6, <4>1, <4>3
    <3>8. NothingLost'
      BY <1>3, <2>2, <3>5, <3>7 DEF WorkerStep, TakeFirst, NothingLost
    <3>9. DrainSeen' /\ DrainWaitsForAll'
      BY <1>3 DEF WorkerStep, WorkInv, DrainSeen, DrainWaitsForAll
    <3>10. QED
      BY <3>3, <3>4, <3>8, <3>9 DEF WorkInv
  <2>3. QED
    BY <1>3, <2>1, <2>2 DEF WorkerStep
<1>4. ASSUME JobDone
      PROVE  WorkInv'
  <2>1. active \in JobIds /\ Running = <<active>> /\ Running' = <<>>
    BY <1>4 DEF JobDone, WorkInv, WorkTypeOK, WorkerPlace, Running
  <2>2. ran' \in Seq(JobIds) /\ Len(ran') = Len(ran) + 1 /\ ran' = ran \o <<active>>
    BY <1>0, <1>4, <2>1, AppendProperties, AppendIsConcat DEF JobDone
  <2>3. WorkTypeOK'
    BY <1>4, <2>2 DEF JobDone, WorkInv, WorkTypeOK, WokenDrains
  <2>4. WorkerPlace'
    BY <1>4 DEF JobDone, WorkInv, WorkerPlace
  <2>5. NothingLost'
    <3>1. ran' \o <<>> = ran'
      BY <2>2, ConcatEmptySeq
    <3>2. QED
      BY <1>4, <2>1, <2>2, <3>1 DEF JobDone, WorkInv, NothingLost
  <2>6. DrainSeen' /\ DrainWaitsForAll'
    BY <1>0, <1>4, <2>2 DEF JobDone, WorkInv, WorkTypeOK, DrainSeen, DrainWaitsForAll, WokenDrains
  <2>7. QED
    BY <2>3, <2>4, <2>5, <2>6 DEF WorkInv
<1>5. ASSUME NEW c \in Callers, BeginDrain(c) \/ Notify(c) \/ DrainReturns(c)
      PROVE  WorkInv'
  <2>1. WorkTypeOK'
    BY <1>0, <1>5 DEF BeginDrain, Notify, DrainReturns, WorkInv, WorkTypeOK, WokenWorker
  <2>2. WorkerPlace' /\ NothingLost'
    BY <1>5 DEF BeginDrain, Notify, DrainReturns, WorkInv, WorkerPlace, NothingLost, Running,
                WokenWorker
  <2>3. DrainSeen'
    BY <1>0, <1>5 DEF BeginDrain, Notify, DrainReturns, WorkInv, WorkTypeOK, DrainSeen
  <2>5. DrainWaitsForAll'
    BY <1>0, <1>5 DEF BeginDrain, Notify, DrainReturns, WorkInv, WorkTypeOK, DrainWaitsForAll
  <2>4. QED
    BY <2>1, <2>2, <2>3, <2>5 DEF WorkInv
<1>6. ASSUME NEW c \in Callers, DrainStep(c)
      PROVE  WorkInv'
  <2>1. WorkTypeOK' /\ WorkerPlace' /\ NothingLost' /\ DrainSeen'
    BY <1>6 DEF DrainStep, WorkInv, WorkTypeOK, WorkerPlace, NothingLost, Running, DrainSeen
  <2>2. Drained => accepted = ran
    BY <1>0, ConcatEmptySeq DEF Drained, WorkInv, NothingLost, Running
  <2>3. DrainWaitsForAll'
    BY <1>0, <1>6, <2>2 DEF DrainStep, WorkInv, WorkTypeOK, DrainSeen, DrainWaitsForAll
  <2>4. QED
    BY <2>1, <2>3 DEF WorkInv
<1>7. ASSUME BeginStop \/ StopStep
      PROVE  WorkInv'
  <2>1. WorkTypeOK' /\ WorkerPlace' /\ NothingLost' /\ DrainSeen' /\ DrainWaitsForAll'
    BY <1>7 DEF BeginStop, StopStep, NotifyStop, Join, WorkInv, WorkTypeOK, WorkerPlace,
                NothingLost, Running, DrainSeen, DrainWaitsForAll, WokenWorker
  <2>2. QED
    BY <2>1 DEF WorkInv
<1>8. CASE UNCHANGED workVars
  BY <1>8 DEF workVars, WorkInv, WorkTypeOK, WorkerPlace, NothingLost, Running, DrainSeen,
              DrainWaitsForAll
<1>9. QED
  BY <1>1, <1>2, <1>3, <1>4, <1>5, <1>6, <1>7, <1>8 DEF WorkNext, CallerStep

LEMMA WorkInvariant == WorkInit /\ [][WorkNext]_workVars => []WorkInv
BY WorkInitially, WorkStep, PTL

\* The queue runs every job it accepted once and in order, and Drain waits for what was accepted
\* before it (WorkQueue.cpp), for any number of callers, of jobs, and any limit.
THEOREM WorkQueueSafety == WorkSpec => []WorkTypeOK /\ []NothingLost /\ []DrainWaitsForAll
<1>1. WorkInv => WorkTypeOK /\ NothingLost /\ DrainWaitsForAll
  BY DEF WorkInv
<1>2. QED
  BY <1>1, WorkInvariant, PTL DEF WorkSpec

\* A step of the queue is one of FifoRun's, or none.
LEMMA WorkStepIsFifo == WorkInv /\ [WorkNext]_workVars => [Fifo!FifoNext]_(Fifo!fifoVars)
<1> SUFFICES ASSUME WorkInv, [WorkNext]_workVars
             PROVE  Fifo!FifoNext \/ UNCHANGED Fifo!fifoVars
  OBVIOUS
<1> USE WorkQueueAssumption
<1>0. /\ queue \in Seq(JobIds) /\ accepted \in Seq(JobIds) /\ ran \in Seq(JobIds)
      /\ Len(accepted) \in Nat /\ Len(ran) \in Nat
  BY DEF WorkInv, WorkTypeOK
<1>1. ASSUME Push, UNCHANGED <<ran, stopper>>, stopper # "stopped"
      PROVE  Fifo!FifoNext
  <2>1. Len(accepted) + 1 \in JobIds
    BY <1>0, <1>1 DEF Push, JobIds
  <2>2. Fifo!Accept(Len(accepted) + 1)
    BY <1>1 DEF Push, Fifo!Accept
  <2>3. QED
    BY <2>1, <2>2 DEF Fifo!FifoNext
<1>2. ASSUME NEW c \in Callers, NEW critical \in BOOLEAN, Enqueue(c, critical)
      PROVE  Fifo!FifoNext
  BY <1>1, <1>2 DEF Enqueue, WorkInv, WorkerPlace
<1>3. ASSUME NEW critical \in BOOLEAN, EnqueueFromJob(critical)
      PROVE  Fifo!FifoNext
  BY <1>1, <1>3 DEF EnqueueFromJob, WorkInv, WorkerPlace
<1>4. ASSUME JobDone
      PROVE  Fifo!FifoNext
  <2>1. active \in JobIds /\ Running = <<active>>
    BY <1>4 DEF JobDone, WorkInv, WorkTypeOK, WorkerPlace, Running
  <2>2. (ran \o <<active>>) \in Seq(JobIds) /\ Len(ran \o <<active>>) = Len(ran) + 1
    BY <1>0, <2>1, ConcatProperties
  <2>3. accepted = (ran \o <<active>>) \o queue
    BY <2>1 DEF WorkInv, NothingLost
  <2>4. Len(accepted) = Len(ran) + 1 + Len(queue) /\ Len(queue) \in Nat
    BY <1>0, <2>2, <2>3, ConcatProperties
  <2>5. accepted[Len(ran) + 1] = (ran \o <<active>>)[Len(ran) + 1]
    BY <1>0, <2>2, <2>3, ConcatProperties
  <2>6. (ran \o <<active>>)[Len(ran) + 1] = active
    BY <1>0, <2>1
  <2>7. Fifo!RunNext
    BY <1>0, <1>4, <2>4, <2>5, <2>6 DEF JobDone, Fifo!RunNext
  <2>8. QED
    BY <2>7 DEF Fifo!FifoNext
<1>5. ASSUME Join
      PROVE  Fifo!FifoNext
  <2>1. accepted = ran
    <3>1. queue = <<>> /\ Running = <<>>
      BY <1>5 DEF Join, WorkInv, WorkerPlace, Running
    <3>2. QED
      BY <1>0, <3>1, ConcatEmptySeq DEF WorkInv, NothingLost
  <2>2. QED
    BY <1>5, <2>1 DEF Join, Fifo!End, Fifo!FifoNext
<1>6. ASSUME WorkerStep \/ (\E c \in Callers : BeginDrain(c) \/ CallerStep(c))
      PROVE  UNCHANGED Fifo!fifoVars
  BY <1>6 DEF WorkerStep, BeginDrain, CallerStep, Notify, DrainStep, DrainReturns, Fifo!fifoVars
<1>7. ASSUME BeginStop \/ NotifyStop
      PROVE  UNCHANGED Fifo!fifoVars
  BY <1>7 DEF BeginStop, NotifyStop, Fifo!fifoVars
<1>8. CASE UNCHANGED workVars
  BY <1>8 DEF workVars, Fifo!fifoVars
<1>9. QED
  BY <1>2, <1>3, <1>4, <1>5, <1>6, <1>7, <1>8 DEF WorkNext, StopStep

LEMMA WorkImplementsFifo == WorkInit /\ [][WorkNext]_workVars => KeepsFifo
<1>1. WorkInit => Fifo!FifoInit
  BY DEF WorkInit, Fifo!FifoInit
<1>2. QED
  BY <1>1, WorkInvariant, WorkStepIsFifo, PTL DEF KeepsFifo, Fifo!FifoSafety

\* The queue keeps the promise of FifoRun: jobs run in the order they were accepted, all of them
\* before Stop returns, and none is accepted afterwards (WorkQueue::Stop, and Enqueue from a job).
THEOREM WorkQueueIsFifo == WorkSpec => KeepsFifo
BY WorkImplementsFifo DEF WorkSpec

-----------------------------------------------------------------------------
\* Sequences without repetitions, as the stack of free connections is one.

LEMMA InjectiveSeq ==
  ASSUME NEW S, NEW s \in Seq(S), IsInjective(s)
  PROVE  /\ IsFiniteSet(ToSet(s)) /\ Cardinality(ToSet(s)) = Len(s)
         /\ ToSet(s) \subseteq S
<1>1. Len(s) \in Nat /\ DOMAIN s = 1..Len(s) /\ s \in [1..Len(s) -> S]
  BY LenProperties
<1>2. s \in Bijection(1..Len(s), ToSet(s))
  BY <1>1 DEF Bijection, Injection, Surjection, ToSet, IsInjective
<1>3. ExistsBijection(1..Len(s), ToSet(s))
  BY <1>2 DEF ExistsBijection
<1>4. QED
  BY <1>1, <1>3, FS_CountingElements, FS_NatBijection DEF ToSet

LEMMA SeqOfSet ==
  ASSUME NEW S, IsFiniteSet(S)
  PROVE  SetToSeq(S) \in Seq(S) /\ IsInjective(SetToSeq(S)) /\ ToSet(SetToSeq(S)) = S
<1> DEFINE n == Cardinality(S)
<1>1. n \in Nat /\ ExistsBijection(1..n, S)
  BY FS_CardinalityType
<1>2. \E f \in [1..n -> S] : IsInjective(f)
  BY <1>1 DEF ExistsBijection, Bijection, Injection
<1>3. SetToSeq(S) \in [1..n -> S] /\ IsInjective(SetToSeq(S))
  BY <1>2 DEF SetToSeq
<1>4. SetToSeq(S) \in Seq(S) /\ Len(SetToSeq(S)) = n
  BY <1>1, <1>3
<1>5. ToSet(SetToSeq(S)) \in SUBSET S /\ Cardinality(ToSet(SetToSeq(S))) = n
  BY <1>3, <1>4, InjectiveSeq
<1>6. QED
  BY <1>3, <1>4, <1>5, FS_Subset

LEMMA PushedSeq ==
  ASSUME NEW S, NEW s \in Seq(S), IsInjective(s), NEW e \in S, e \notin ToSet(s)
  PROVE  /\ Append(s, e) \in Seq(S) /\ IsInjective(Append(s, e))
         /\ ToSet(Append(s, e)) = ToSet(s) \cup {e}
<1> DEFINE t == Append(s, e)
<1>1. /\ t \in Seq(S) /\ Len(s) \in Nat /\ DOMAIN s = 1..Len(s) /\ DOMAIN t = 1..Len(s) + 1
      /\ \A i \in 1..Len(s) : t[i] = s[i]
      /\ t[Len(s) + 1] = e
  BY LenProperties, AppendProperties
<1>2. \A i \in 1..Len(s) : s[i] # e
  BY <1>1 DEF ToSet
<1>3. IsInjective(t)
  BY <1>1, <1>2 DEF IsInjective
<1>4. ToSet(t) = ToSet(s) \cup {e}
  BY <1>1 DEF ToSet
<1>5. QED
  BY <1>1, <1>3, <1>4

LEMMA PoppedSeq ==
  ASSUME NEW S, NEW s \in Seq(S), s # <<>>, IsInjective(s)
  PROVE  /\ Front(s) \in Seq(S) /\ IsInjective(Front(s))
         /\ ToSet(Front(s)) = ToSet(s) \ {Last(s)} /\ Last(s) \in ToSet(s)
<1>1. Len(s) \in Nat /\ Len(s) # 0 /\ DOMAIN s = 1..Len(s) /\ \A i \in 1..Len(s) : s[i] \in S
  BY LenProperties, EmptySeq, ElementOfSeq
<1>2. /\ Front(s) \in Seq(S) /\ DOMAIN Front(s) = 1..Len(s) - 1
      /\ \A i \in 1..Len(s) - 1 : Front(s)[i] = s[i]
  <2>1. /\ SubSeq(s, 1, Len(s) - 1) \in Seq(S)
        /\ Len(SubSeq(s, 1, Len(s) - 1)) = Len(s) - 1
        /\ \A i \in 1..Len(s) - 1 : SubSeq(s, 1, Len(s) - 1)[i] = s[i]
    BY <1>1, SubSeqProperties
  <2>2. QED
    BY <2>1, LenProperties DEF Front
<1>3. IsInjective(Front(s))
  BY <1>1, <1>2 DEF IsInjective
<1>4. ToSet(Front(s)) = ToSet(s) \ {Last(s)}
  <2>1. \A i \in 1..Len(s) - 1 : s[i] # s[Len(s)]
    BY <1>1 DEF IsInjective
  <2>2. QED
    BY <1>1, <1>2, <2>1 DEF ToSet, Last
<1>5. Last(s) \in ToSet(s)
  BY <1>1 DEF ToSet, Last
<1>6. QED
  BY <1>2, <1>3, <1>4, <1>5

-----------------------------------------------------------------------------
\* The pool of read connections.

\* A thread holds a connection exactly between Acquire and the end of its lease, nobody has begun
\* before the pool is there, and only open connections are free.
PoolPlace ==
  /\ \A t \in Readers : reader[t] \in {"beginning", "reading"} <=> lease[t] # NoLease
  /\ owner = "new" => \A t \in Readers : reader[t] = "idle"
  /\ ToSet(available) \subseteq connections

PoolInv == PoolTypeOK /\ PoolPlace /\ LeaseExclusive /\ LeaseOpen

LEMMA ConnectionsFinite == IsFiniteSet(Connections)
<1>1. 1 \in Int /\ PoolSize \in Int
  BY ReaderPoolAssumption
<1>2. QED
  BY <1>1, FS_Interval DEF Connections

LEMMA PoolInitially == PoolInit => PoolInv
<1> SUFFICES ASSUME PoolInit PROVE PoolInv
  OBVIOUS
<1> USE ReaderPoolAssumption
<1>1. <<>> \in Seq(Connections) /\ ToSet(<<>>) = {} /\ IsInjective(<<>>)
  BY EmptySeq DEF ToSet, IsInjective
<1>2. PoolTypeOK
  <2>1. 0 \in 0..MaxCalls /\ {} \in SUBSET Connections
    OBVIOUS
  <2>2. /\ reads \in [Readers -> 0..MaxCalls]
        /\ lease \in [Readers -> Connections \cup {NoLease}]
        /\ reader \in [Readers -> {"idle", "acquiring", "asleep", "beginning", "reading",
                                   "locking", "writing"}]
    BY <2>1 DEF PoolInit
  <2>3. QED
    BY <1>1, <2>1, <2>2 DEF PoolInit, PoolTypeOK
<1>3. PoolPlace /\ LeaseExclusive /\ LeaseOpen
  BY <1>1 DEF PoolInit, PoolPlace, LeaseExclusive, LeaseOpen, NoLease
<1>4. QED
  BY <1>2, <1>3 DEF PoolInv

\* The connection goes back to the stack, whatever the thread does next.
LEMMA GiveBackKeeps ==
  ASSUME PoolInv, NEW t \in Readers, reader[t] \in {"beginning", "reading"},
         NEW next \in {"idle", "locking"}, GiveBack(t, next),
         UNCHANGED <<connections, stopping, reads, mutex, writerOpen>>
  PROVE  PoolInv'
<1> USE ReaderPoolAssumption
<1>1. /\ lease[t] # NoLease /\ lease[t] \in Connections /\ lease[t] \in connections
      /\ lease[t] \notin ToSet(available) /\ available \in Seq(Connections)
      /\ IsInjective(available)
  BY DEF PoolInv, PoolTypeOK, PoolPlace, LeaseExclusive, LeaseOpen
<1>2. /\ available' \in Seq(Connections) /\ IsInjective(available')
      /\ ToSet(available') = ToSet(available) \cup {lease[t]}
  BY <1>1, PushedSeq DEF GiveBack
<1>3. PoolTypeOK'
  <2>1. /\ lease' \in [Readers -> Connections \cup {NoLease}]
        /\ owner' \in {"new", "running", "closing", "asleep", "shut", "closed"}
    BY DEF PoolInv, PoolTypeOK, GiveBack, WokenOwner
  <2>2. reader' \in [Readers -> {"idle", "acquiring", "asleep", "beginning", "reading",
                                 "locking", "writing"}]
    BY DEF PoolInv, PoolTypeOK, GiveBack, WokenReaders
  <2>3. QED
    BY <1>2, <2>1, <2>2 DEF PoolInv, PoolTypeOK
<1>4. /\ lease'[t] = NoLease /\ reader'[t] = next
      /\ \A u \in Readers \ {t} :
           /\ lease'[u] = lease[u]
           /\ reader'[u] = IF reader[u] = "asleep" THEN "acquiring" ELSE reader[u]
  BY DEF PoolInv, PoolTypeOK, GiveBack, WokenReaders
<1>5. PoolPlace'
  <2>1. owner # "new" /\ owner' # "new"
    BY DEF PoolInv, PoolPlace, GiveBack, WokenOwner
  <2>2. QED
    BY <1>1, <1>2, <1>4, <2>1 DEF PoolInv, PoolPlace
<1>6. LeaseExclusive'
  BY <1>1, <1>2, <1>4 DEF PoolInv, LeaseExclusive
<1>7. LeaseOpen'
  BY <1>4 DEF PoolInv, LeaseOpen
<1>8. QED
  BY <1>3, <1>5, <1>6, <1>7 DEF PoolInv

\* A thread goes on without touching a connection.
LEMMA ReaderOnlyKeeps ==
  ASSUME PoolInv, UNCHANGED <<connections, available, lease>>,
         PoolTypeOK', owner = "new" <=> owner' = "new",
         owner = "new" => reader' = reader,
         \A t \in Readers : reader'[t] \in {"beginning", "reading"}
                              <=> reader[t] \in {"beginning", "reading"}
  PROVE  PoolInv'
BY DEF PoolInv, PoolPlace, LeaseExclusive, LeaseOpen

LEMMA PoolStep == PoolInv /\ [PoolNext]_poolVars => PoolInv'
<1> SUFFICES ASSUME PoolInv, [PoolNext]_poolVars
             PROVE  PoolInv'
  OBVIOUS
<1> USE ReaderPoolAssumption
<1>1. ASSUME Initialize
      PROVE  PoolInv'
  <2>1. PICK opening \in SUBSET Connections :
          connections' = opening /\ available' = SetToSeq(opening)
    BY <1>1 DEF Initialize
  <2>2. IsFiniteSet(opening)
    BY ConnectionsFinite, FS_Subset
  <2>3. available' \in Seq(opening) /\ IsInjective(available') /\ ToSet(available') = opening
    BY <2>1, <2>2, SeqOfSet
  <2>4. available' \in Seq(Connections)
    BY <2>3, SeqMonotonic
  <2>5. PoolTypeOK'
    BY <1>1, <2>1, <2>4 DEF Initialize, PoolInv, PoolTypeOK
  <2>6. \A t \in Readers : lease[t] = NoLease
    BY <1>1 DEF Initialize, PoolInv, PoolPlace
  <2>7. PoolPlace' /\ LeaseExclusive' /\ LeaseOpen'
    BY <1>1, <2>1, <2>3, <2>6 DEF Initialize, PoolInv, PoolPlace, LeaseExclusive, LeaseOpen
  <2>8. QED
    BY <2>5, <2>7 DEF PoolInv
<1>2. ASSUME NEW t \in Readers, BeginRead(t) \/ BeginWrite(t)
      PROVE  PoolInv'
  <2>1. reads' \in [Readers -> 0..MaxCalls]
    BY <1>2 DEF BeginRead, BeginWrite, Call, PoolInv, PoolTypeOK
  <2>2. PoolTypeOK'
    BY <1>2, <2>1 DEF BeginRead, BeginWrite, Call, PoolInv, PoolTypeOK
  <2>3. \A u \in Readers : reader'[u] \in {"beginning", "reading"}
                            <=> reader[u] \in {"beginning", "reading"}
    BY <1>2 DEF BeginRead, BeginWrite, Call, PoolInv, PoolTypeOK
  <2>4. QED
    BY <1>2, <2>2, <2>3, ReaderOnlyKeeps DEF BeginRead, BeginWrite, Call
<1>3. ASSUME NEW t \in Readers, Acquire(t)
      PROVE  PoolInv'
  <2>1. CASE /\ \E next \in {"locking", "asleep"} : reader' = [reader EXCEPT ![t] = next]
             /\ UNCHANGED <<available, lease>>
    <3>1. PoolTypeOK'
      BY <1>3, <2>1 DEF Acquire, PoolInv, PoolTypeOK
    <3>2. \A u \in Readers : reader'[u] \in {"beginning", "reading"}
                              <=> reader[u] \in {"beginning", "reading"}
      BY <1>3, <2>1 DEF Acquire, PoolInv, PoolTypeOK
    <3>3. QED
      BY <1>3, <2>1, <3>1, <3>2, ReaderOnlyKeeps DEF Acquire, PoolInv, PoolPlace
  <2>2. CASE /\ available # <<>> /\ PopAvailable
             /\ lease' = [lease EXCEPT ![t] = Last(available)]
             /\ reader' = [reader EXCEPT ![t] = "beginning"]
    <3>1. /\ available' \in Seq(Connections) /\ IsInjective(available')
          /\ ToSet(available') = ToSet(available) \ {Last(available)}
          /\ Last(available) \in ToSet(available)
      BY <2>2, PoppedSeq DEF PopAvailable, PoolInv, PoolTypeOK, LeaseExclusive
    <3>2. Last(available) \in connections /\ Last(available) \in Connections
      BY <3>1 DEF PoolInv, PoolTypeOK, PoolPlace
    <3>3. PoolTypeOK'
      BY <1>3, <2>2, <3>1, <3>2 DEF Acquire, PoolInv, PoolTypeOK
    <3>4. /\ lease'[t] = Last(available) /\ reader'[t] = "beginning"
          /\ \A u \in Readers \ {t} : lease'[u] = lease[u] /\ reader'[u] = reader[u]
      BY <2>2 DEF PoolInv, PoolTypeOK
    <3>5. PoolPlace'
      <4>1. Last(available) # NoLease
        BY <3>2 DEF Connections, NoLease
      <4>2. owner # "new"
        BY <1>3 DEF Acquire, PoolInv, PoolPlace
      <4>3. QED
        BY <1>3, <3>1, <3>4, <4>1, <4>2 DEF Acquire, PoolInv, PoolPlace
    <3>6. LeaseExclusive'
      BY <3>1, <3>4 DEF PoolInv, LeaseExclusive
    <3>7. LeaseOpen'
      BY <1>3, <3>2, <3>4 DEF Acquire, PoolInv, LeaseOpen
    <3>8. QED
      BY <3>3, <3>5, <3>6, <3>7 DEF PoolInv
  <2>3. QED
    BY <1>3, <2>1, <2>2 DEF Acquire
<1>4. ASSUME NEW t \in Readers, Begin(t) \/ Release(t)
      PROVE  PoolInv'
  <2>1. CASE reader' = [reader EXCEPT ![t] = "reading"] /\ UNCHANGED <<available, lease, owner>>
             /\ Begin(t)
    <3>1. PoolTypeOK'
      BY <2>1 DEF Begin, PoolInv, PoolTypeOK
    <3>2. \A u \in Readers : reader'[u] \in {"beginning", "reading"}
                              <=> reader[u] \in {"beginning", "reading"}
      BY <2>1 DEF Begin, PoolInv, PoolTypeOK
    <3>3. owner # "new"
      BY <2>1 DEF Begin, PoolInv, PoolPlace
    <3>4. QED
      BY <2>1, <3>1, <3>2, <3>3, ReaderOnlyKeeps DEF Begin
  <2>2. CASE Begin(t) /\ GiveBack(t, "locking")
    BY <2>2, GiveBackKeeps DEF Begin
  <2>3. CASE Release(t)
    BY <2>3, GiveBackKeeps DEF Release
  <2>4. QED
    BY <1>4, <2>1, <2>2, <2>3 DEF Begin
<1>5. ASSUME NEW t \in Readers, Lock(t) \/ Unlock(t)
      PROVE  PoolInv'
  <2>1. PoolTypeOK'
    BY <1>5 DEF Lock, Unlock, PoolInv, PoolTypeOK
  <2>2. \A u \in Readers : reader'[u] \in {"beginning", "reading"}
                            <=> reader[u] \in {"beginning", "reading"}
    BY <1>5 DEF Lock, Unlock, PoolInv, PoolTypeOK
  <2>3. owner # "new"
    BY <1>5 DEF Lock, Unlock, PoolInv, PoolPlace
  <2>4. QED
    BY <1>5, <2>1, <2>2, <2>3, ReaderOnlyKeeps DEF Lock, Unlock
<1>6. ASSUME BeginShutdown
      PROVE  PoolInv'
  <2>1. PoolTypeOK'
    BY <1>6 DEF BeginShutdown, WokenReaders, PoolInv, PoolTypeOK
  <2>2. \A u \in Readers : reader'[u] \in {"beginning", "reading"}
                            <=> reader[u] \in {"beginning", "reading"}
    BY <1>6 DEF BeginShutdown, WokenReaders, PoolInv, PoolTypeOK
  <2>3. QED
    BY <1>6, <2>1, <2>2, ReaderOnlyKeeps DEF BeginShutdown
<1>7. ASSUME FinishShutdown
      PROVE  PoolInv'
  <2>1. CASE AllBack
    <3>1. IsFiniteSet(connections)
      BY ConnectionsFinite, FS_Subset DEF PoolInv, PoolTypeOK
    <3>2. Cardinality(ToSet(available)) = Len(available)
      BY InjectiveSeq DEF PoolInv, PoolTypeOK, LeaseExclusive
    <3>3. ToSet(available) = connections
      BY <2>1, <3>1, <3>2, FS_Subset DEF AllBack, PoolInv, PoolPlace
    <3>4. \A t \in Readers : lease[t] = NoLease
      BY <3>3 DEF PoolInv, LeaseExclusive, LeaseOpen
    <3>5. /\ available' = <<>> /\ connections' = {} /\ owner' = "shut"
          /\ <<>> \in Seq(Connections) /\ ToSet(<<>>) = {} /\ IsInjective(<<>>)
      BY <1>7, <2>1, EmptySeq DEF FinishShutdown, ToSet, IsInjective
    <3>6. PoolTypeOK'
      BY <1>7, <3>5 DEF FinishShutdown, PoolInv, PoolTypeOK
    <3>7. PoolPlace' /\ LeaseExclusive' /\ LeaseOpen'
      BY <1>7, <3>4, <3>5 DEF FinishShutdown, PoolInv, PoolPlace, LeaseExclusive, LeaseOpen
    <3>8. QED
      BY <3>6, <3>7 DEF PoolInv
  <2>2. CASE ~AllBack
    <3>1. PoolTypeOK'
      BY <1>7, <2>2 DEF FinishShutdown, PoolInv, PoolTypeOK
    <3>2. QED
      BY <1>7, <2>2, <3>1, ReaderOnlyKeeps DEF FinishShutdown
  <2>3. QED
    BY <2>1, <2>2
<1>8. ASSUME CloseWriter
      PROVE  PoolInv'
  <2>1. PoolTypeOK'
    BY <1>8 DEF CloseWriter, PoolInv, PoolTypeOK
  <2>2. QED
    BY <1>8, <2>1, ReaderOnlyKeeps DEF CloseWriter
<1>9. CASE UNCHANGED poolVars
  BY <1>9 DEF poolVars, PoolInv, PoolTypeOK, PoolPlace, LeaseExclusive, LeaseOpen
<1>10. QED
  BY <1>1, <1>2, <1>3, <1>4, <1>5, <1>6, <1>7, <1>8, <1>9 DEF PoolNext, ReaderStep, OwnerStep

LEMMA PoolInvariant == PoolInit /\ [][PoolNext]_poolVars => []PoolInv
BY PoolInitially, PoolStep, PTL

\* A connection is lent to one thread at a time and closed only when it is back (ReaderPool.cpp),
\* for any number of threads and connections.
THEOREM ReaderPoolSafety == PoolSpec => []PoolTypeOK /\ []LeaseExclusive /\ []LeaseOpen
<1>1. PoolInv => PoolTypeOK /\ LeaseExclusive /\ LeaseOpen
  BY DEF PoolInv
<1>2. QED
  BY <1>1, PoolInvariant, PTL DEF PoolSpec

-----------------------------------------------------------------------------
\* The update check.

Preparing(r) == requester[r].at \in {"claimed", "joining"}

Check == [reason : Reasons, start : Nat, ok : BOOLEAN, end : Nat]

\* Who holds the slot: a requester that prepares a check, or the thread until its last statement.
SlotHeld ==
  /\ \A r \in Requesters : Preparing(r) => inProgress /\ checkThread # "running"
  /\ checkThread = "running" => inProgress

\* What the launcher's times say of the last check.
TimesOfLast ==
  LET last == checks[Len(checks)] IN
  checks # <<>> =>
    /\ last.start <= moment /\ lastAttempt = last.start
    /\ last.ok => last.end # Never /\ lastSuccess # Never /\ last.start <= lastSuccess
    /\ ~last.ok => attemptIsLater

UpdateCheckInv ==
  /\ UpdateCheckTypeOK /\ checks \in Seq(Check)
  /\ OneCheckThread /\ SlotHeld /\ TimesOfLast /\ ChecksAreSpaced

LEMMA UpdateCheckInitially == UpdateCheckInit => UpdateCheckInv
<1> SUFFICES ASSUME UpdateCheckInit PROVE UpdateCheckInv
  OBVIOUS
<1>1. moment \in Nat /\ 0 \in 0..moment /\ checks \in Seq(Check) /\ Len(checks) = 0
  BY EmptySeq DEF UpdateCheckInit
<1>2. moment \in 1..LastMoment
  BY UpdateCheckAssumption, <1>1 DEF UpdateCheckInit
<1>3. UpdateCheckTypeOK
  BY <1>1, <1>2 DEF UpdateCheckInit, UpdateCheckTypeOK, Never, Reasons
<1>4. OneCheckThread /\ SlotHeld /\ TimesOfLast /\ ChecksAreSpaced
  BY <1>1 DEF UpdateCheckInit, OneCheckThread, SlotHeld, Preparing, TimesOfLast, ChecksAreSpaced
<1>5. QED
  BY <1>1, <1>3, <1>4 DEF UpdateCheckInv

\* A step of the requesters that starts no check.
LEMMA RequesterKeeps ==
  ASSUME UpdateCheckInv, UpdateCheckTypeOK', SlotHeld',
         UNCHANGED <<moment, lastAttempt, lastSuccess, attemptIsLater, terminated, checks>>,
         \A r, s \in Requesters : Preparing(r)' /\ Preparing(s)' => r = s
  PROVE  UpdateCheckInv'
BY DEF UpdateCheckInv, OneCheckThread, Preparing, TimesOfLast, ChecksAreSpaced,
       MinimumIntervalFor

LEMMA UpdateCheckStep == UpdateCheckInv /\ [UpdateCheckNext]_updateCheckVars => UpdateCheckInv'
<1> SUFFICES ASSUME UpdateCheckInv, [UpdateCheckNext]_updateCheckVars
             PROVE  UpdateCheckInv'
  OBVIOUS
<1> USE UpdateCheckAssumption
<1>0. /\ checks \in Seq(Check) /\ Len(checks) \in Nat
      /\ \A i \in 1..Len(checks) : checks[i] \in Check
      /\ moment \in 1..LastMoment /\ lastAttempt \in 0..moment /\ lastSuccess \in 0..moment
  BY LenProperties, ElementOfSeq DEF UpdateCheckInv, UpdateCheckTypeOK
<1>1. ASSUME TimeGoes
      PROVE  UpdateCheckInv'
  <2>1. UpdateCheckTypeOK'
    BY <1>0, <1>1 DEF TimeGoes, UpdateCheckInv, UpdateCheckTypeOK
  <2>2. OneCheckThread' /\ SlotHeld' /\ ChecksAreSpaced'
    BY <1>1 DEF TimeGoes, UpdateCheckInv, OneCheckThread, SlotHeld, Preparing, ChecksAreSpaced,
                MinimumIntervalFor
  <2>3. TimesOfLast'
    BY <1>0, <1>1 DEF TimeGoes, UpdateCheckInv, TimesOfLast, Check
  <2>4. QED
    BY <1>1, <2>1, <2>2, <2>3 DEF TimeGoes, UpdateCheckInv
<1>2. ASSUME NEW r \in Requesters, NEW reason \in Reasons, RequestCheck(r, reason)
      PROVE  UpdateCheckInv'
  <2>1. /\ requester' \in [Requesters -> [at : {"idle", "passed", "claimed", "joining"},
                                          reason : Reasons]]
        /\ \A s \in Requesters : Preparing(s)' => Preparing(s)
    BY <1>2 DEF RequestCheck, UpdateCheckInv, UpdateCheckTypeOK, Preparing
  <2>2. UpdateCheckTypeOK'
    BY <1>2, <2>1 DEF RequestCheck, RequesterOnly, UpdateCheckInv, UpdateCheckTypeOK
  <2>3. SlotHeld' /\ \A s, t \in Requesters : Preparing(s)' /\ Preparing(t)' => s = t
    BY <1>2, <2>1 DEF RequestCheck, UpdateCheckInv, SlotHeld, OneCheckThread, Preparing
  <2>4. QED
    BY <1>2, <2>2, <2>3, RequesterKeeps DEF RequestCheck, RequesterOnly
<1>3. ASSUME NEW r \in Requesters, Claim(r)
      PROVE  UpdateCheckInv'
  <2>1. /\ requester' \in [Requesters -> [at : {"idle", "passed", "claimed", "joining"},
                                          reason : Reasons]]
        /\ inProgress' \in BOOLEAN
        /\ \A s \in Requesters \ {r} : requester'[s] = requester[s]
        /\ Preparing(r)' => ~inProgress /\ inProgress'
        /\ inProgress => inProgress'
    <3>1. inProgress \in BOOLEAN /\ requester[r].at = "passed"
          /\ requester \in [Requesters -> [at : {"idle", "passed", "claimed", "joining"},
                                           reason : Reasons]]
      BY <1>3 DEF Claim, UpdateCheckInv, UpdateCheckTypeOK
    <3>2. \/ /\ inProgress /\ inProgress' = inProgress
             /\ requester' = [requester EXCEPT ![r].at = "idle"]
          \/ /\ ~inProgress /\ inProgress' = TRUE
             /\ requester' = [requester EXCEPT ![r].at = "claimed"]
      BY <1>3, <3>1 DEF Claim, ClaimSlot, Goes
    <3>3. /\ requester' \in [Requesters -> [at : {"idle", "passed", "claimed", "joining"},
                                            reason : Reasons]]
          /\ \A s \in Requesters \ {r} : requester'[s] = requester[s]
          /\ inProgress => requester'[r].at = "idle"
      BY <3>1, <3>2
    <3>4. QED
      BY <3>1, <3>2, <3>3 DEF Preparing
  <2>2. UpdateCheckTypeOK'
    BY <1>3, <2>1 DEF Claim, RequesterOnly, UpdateCheckInv, UpdateCheckTypeOK
  <2>3. SlotHeld'
    BY <1>3, <2>1 DEF Claim, UpdateCheckInv, SlotHeld, Preparing
  <2>4. \A s, t \in Requesters : Preparing(s)' /\ Preparing(t)' => s = t
    BY <2>1 DEF UpdateCheckInv, SlotHeld, OneCheckThread, Preparing
  <2>5. QED
    BY <1>3, <2>2, <2>3, <2>4, RequesterKeeps DEF Claim, RequesterOnly
<1>4. ASSUME NEW r \in Requesters, Recheck(r)
      PROVE  UpdateCheckInv'
  <2>1. Preparing(r) /\ inProgress /\ checkThread # "running"
    BY <1>4 DEF Recheck, UpdateCheckInv, SlotHeld, Preparing
  <2>2. /\ requester' \in [Requesters -> [at : {"idle", "passed", "claimed", "joining"},
                                          reason : Reasons]]
        /\ \A s \in Requesters : Preparing(s)' => Preparing(s)
        /\ \A s \in Requesters \ {r} : ~Preparing(s)'
    <3>1. PICK at \in {"idle", "joining"} : requester' = [requester EXCEPT ![r].at = at]
      BY <1>4 DEF Recheck, Goes
    <3>2. \A s \in Requesters \ {r} : requester'[s] = requester[s] /\ ~Preparing(s)
      BY <2>1, <3>1 DEF UpdateCheckInv, UpdateCheckTypeOK, OneCheckThread, Preparing
    <3>3. requester' \in [Requesters -> [at : {"idle", "passed", "claimed", "joining"},
                                         reason : Reasons]]
      BY <3>1 DEF UpdateCheckInv, UpdateCheckTypeOK
    <3>4. QED
      BY <2>1, <3>2, <3>3 DEF Preparing
  <2>3. OneCheckThread'
    BY <1>4, <2>2 DEF Recheck, UpdateCheckInv, OneCheckThread, Preparing
  <2>4. CASE AllowedAgain(requester[r].reason)
    <3> DEFINE new == [reason |-> requester[r].reason, start |-> moment, ok |-> FALSE, end |-> Never]
               before == checks[Len(checks)]
    <3>1. /\ lastAttempt' = moment /\ attemptIsLater' = TRUE /\ checks' = Append(checks, new)
          /\ UNCHANGED <<moment, lastSuccess, inProgress, checkThread, terminated, program>>
      BY <1>4, <2>4 DEF Recheck, RequesterOnly
    <3>2. new \in Check /\ requester[r].reason \in Reasons
      BY <1>0 DEF UpdateCheckInv, UpdateCheckTypeOK, Check, Never
    <3>3. /\ checks' \in Seq(Check) /\ Len(checks') = Len(checks) + 1
          /\ checks'[Len(checks) + 1] = new
          /\ \A i \in 1..Len(checks) : checks'[i] = checks[i]
      BY <1>0, <3>1, <3>2, AppendProperties
    <3>4. UpdateCheckTypeOK'
      BY <1>0, <2>2, <3>1 DEF UpdateCheckInv, UpdateCheckTypeOK
    <3>5. SlotHeld'
      BY <2>1, <2>2, <3>1 DEF UpdateCheckInv, SlotHeld
    <3>6. TimesOfLast'
      BY <1>0, <3>1, <3>3 DEF TimesOfLast
    <3>7. ASSUME Len(checks) # 0
          PROVE  moment - before.start >=
                   IF before.ok THEN MinimumIntervalFor(requester[r].reason) ELSE 1
      <4>1. before \in Check /\ checks # <<>>
        BY <1>0, <3>7
      <4>2. CASE before.ok
        BY <1>0, <2>4, <3>2, <4>1, <4>2
        DEF AllowedAgain, UpdateCheckAllowed, MinimumIntervalFor, Reasons, UpdateCheckInv,
            TimesOfLast, Check, Never
      <4>3. CASE ~before.ok
        BY <1>0, <2>4, <4>1, <4>3
        DEF AllowedAgain, UpdateCheckAllowed, UpdateCheckInv, TimesOfLast, Check
      <4>4. QED
        BY <4>2, <4>3
    <3>8. ChecksAreSpaced'
      <4> SUFFICES ASSUME NEW i \in 2..Len(checks')
                   PROVE  checks'[i].start - checks'[i - 1].start >=
                            IF checks'[i - 1].ok THEN MinimumIntervalFor(checks'[i].reason) ELSE 1
        BY DEF ChecksAreSpaced, MinimumIntervalFor
      <4>1. CASE i = Len(checks) + 1
        BY <1>0, <3>3, <3>7, <4>1
      <4>2. CASE i # Len(checks) + 1
        <5>1. i \in 2..Len(checks) /\ i - 1 \in 1..Len(checks) /\ i \in 1..Len(checks)
          BY <1>0, <3>3, <4>2
        <5>2. QED
          BY <3>3, <5>1 DEF UpdateCheckInv, ChecksAreSpaced
      <4>3. QED
        BY <4>1, <4>2
    <3>9. QED
      BY <2>3, <3>3, <3>4, <3>5, <3>6, <3>8 DEF UpdateCheckInv
  <2>5. CASE ~AllowedAgain(requester[r].reason)
    <3>1. /\ UNCHANGED <<moment, lastAttempt, lastSuccess, attemptIsLater, terminated, checks,
                         checkThread, program>>
          /\ inProgress' = FALSE /\ ~Preparing(r)'
      BY <1>4, <2>5 DEF Recheck, RequesterOnly, Goes, UpdateCheckInv, UpdateCheckTypeOK, Preparing
    <3>2. UpdateCheckTypeOK' /\ SlotHeld'
      BY <2>1, <2>2, <3>1 DEF UpdateCheckInv, UpdateCheckTypeOK, SlotHeld
    <3>3. QED
      BY <2>2, <3>1, <3>2, RequesterKeeps
  <2>6. QED
    BY <2>4, <2>5
<1>5. ASSUME NEW r \in Requesters, StartThread(r)
      PROVE  UpdateCheckInv'
  <2>1. Preparing(r) /\ inProgress
    BY <1>5 DEF StartThread, UpdateCheckInv, SlotHeld, Preparing
  <2>2. /\ requester' \in [Requesters -> [at : {"idle", "passed", "claimed", "joining"},
                                          reason : Reasons]]
        /\ \A s \in Requesters : ~Preparing(s)'
    BY <1>5, <2>1 DEF StartThread, Goes, UpdateCheckInv, UpdateCheckTypeOK, OneCheckThread, Preparing
  <2>3. UNCHANGED <<moment, lastAttempt, lastSuccess, attemptIsLater, terminated, checks,
                    inProgress, program>> /\ checkThread' = "running"
    <3>1. ~terminated /\ terminated \in BOOLEAN
      BY DEF UpdateCheckInv, OneCheckThread, UpdateCheckTypeOK
    <3>2. terminated' = (terminated \/ FALSE)
      BY <1>5 DEF StartThread, AfterJoin
    <3>3. terminated' = terminated
      BY <3>1, <3>2, Zenon
    <3>4. QED
      BY <1>5, <3>3 DEF StartThread, RequesterOnly
  <2>4. UpdateCheckTypeOK' /\ SlotHeld'
    BY <2>1, <2>2, <2>3 DEF UpdateCheckInv, UpdateCheckTypeOK, SlotHeld
  <2>5. QED
    BY <2>2, <2>3, <2>4, RequesterKeeps
<1>6. ASSUME CheckAnswers
      PROVE  UpdateCheckInv'
  <2>1. PICK ok \in BOOLEAN :
          /\ checks' = [checks EXCEPT ![Len(checks)].ok = ok, ![Len(checks)].end = moment]
          /\ lastSuccess' = IF ok THEN moment ELSE lastSuccess
          /\ attemptIsLater' = (attemptIsLater /\ ~ok)
    BY <1>6 DEF CheckAnswers
  <2> DEFINE last == checks[Len(checks)]
  <2>2. Len(checks) \in 1..Len(checks) /\ last \in Check /\ last.end = Never
    BY <1>0, <1>6, EmptySeq DEF CheckAnswers, Last
  <2>3. /\ checks' = [checks EXCEPT ![Len(checks)] = [last EXCEPT !.ok = ok, !.end = moment]]
        /\ [last EXCEPT !.ok = ok, !.end = moment] \in Check
    <3>1. [last EXCEPT !.ok = ok, !.end = moment] \in Check
      <4>1. \A c \in Check, t \in Nat : [c EXCEPT !.ok = ok, !.end = t] \in Check
        <5> SUFFICES ASSUME NEW c \in Check, NEW t \in Nat
                     PROVE  [c EXCEPT !.ok = ok, !.end = t] \in Check
          OBVIOUS
        <5>1. [c EXCEPT !.ok = ok] \in Check
          BY DEF Check
        <5>2. \A d \in Check : [d EXCEPT !.end = t] \in Check
          BY DEF Check
        <5>3. QED
          BY <5>1, <5>2
      <4>2. moment \in Nat
        BY <1>0
      <4>3. QED
        BY <2>2, <4>1, <4>2
    <3>2. checks' = [checks EXCEPT ![Len(checks)] = [last EXCEPT !.ok = ok, !.end = moment]]
      BY <2>1, Zenon
    <3>3. QED
      BY <3>1, <3>2
  <2>4. /\ checks' \in Seq(Check) /\ Len(checks') = Len(checks)
        /\ \A i \in 1..Len(checks) :
             /\ i # Len(checks) => checks'[i] = checks[i]
             /\ checks'[i].start = checks[i].start /\ checks'[i].reason = checks[i].reason
        /\ checks'[Len(checks)].ok = ok /\ checks'[Len(checks)].end = moment
    <3>1. \A i \in 1..Len(checks) : checks'[i] = IF i = Len(checks)
                                                 THEN [last EXCEPT !.ok = ok, !.end = moment]
                                                 ELSE checks[i]
      BY <1>0, <2>2, <2>3, ExceptSeq
    <3>2. checks' \in Seq(Check) /\ Len(checks') = Len(checks)
      BY <1>0, <2>2, <2>3, ExceptSeq
    <3>3. /\ last.start = checks[Len(checks)].start /\ last.reason = checks[Len(checks)].reason
          /\ [last EXCEPT !.ok = ok, !.end = moment].ok = ok
          /\ [last EXCEPT !.ok = ok, !.end = moment].end = moment
          /\ [last EXCEPT !.ok = ok, !.end = moment].start = last.start
          /\ [last EXCEPT !.ok = ok, !.end = moment].reason = last.reason
      BY <2>2 DEF Check
    <3>4. QED
      BY <2>2, <3>1, <3>2, <3>3
  <2>5. UpdateCheckTypeOK'
    BY <1>0, <1>6, <2>1 DEF CheckAnswers, UpdateCheckInv, UpdateCheckTypeOK
  <2>6. OneCheckThread' /\ SlotHeld'
    BY <1>6 DEF CheckAnswers, UpdateCheckInv, OneCheckThread, SlotHeld, Preparing
  <2>7. TimesOfLast'
    <3>1. last.start <= moment /\ lastAttempt = last.start /\ attemptIsLater
      BY <1>6, <2>2 DEF CheckAnswers, UpdateCheckInv, TimesOfLast
    <3>2. /\ checks'[Len(checks')].start = last.start /\ checks'[Len(checks')].ok = ok
          /\ checks'[Len(checks')].end = moment /\ UNCHANGED <<moment, lastAttempt>>
      BY <1>6, <2>2, <2>4 DEF CheckAnswers
    <3>3. CASE ok
      <4>1. lastSuccess' = moment /\ moment # Never
        BY <1>0, <2>1, <3>3 DEF Never
      <4>2. QED
        BY <3>1, <3>2, <3>3, <4>1 DEF TimesOfLast
    <3>4. CASE ~ok
      <4>1. attemptIsLater'
        BY <2>1, <3>1, <3>4, Zenon
      <4>2. QED
        BY <3>1, <3>2, <3>4, <4>1 DEF TimesOfLast
    <3>5. QED
      BY <3>3, <3>4
  <2>8. ChecksAreSpaced'
    <3> SUFFICES ASSUME NEW i \in 2..Len(checks')
                 PROVE  checks'[i].start - checks'[i - 1].start >=
                          IF checks'[i - 1].ok THEN MinimumIntervalFor(checks'[i].reason) ELSE 1
      BY DEF ChecksAreSpaced, MinimumIntervalFor
    <3>1. i \in 2..Len(checks) /\ i \in 1..Len(checks) /\ i - 1 \in 1..Len(checks)
          /\ i - 1 # Len(checks)
      BY <1>0, <2>4
    <3>2. QED
      BY <2>4, <3>1 DEF UpdateCheckInv, ChecksAreSpaced
  <2>9. QED
    BY <2>4, <2>5, <2>6, <2>7, <2>8 DEF UpdateCheckInv
<1>7. ASSUME ReleaseSlot \/ ThreadEnds \/ Close \/ ShutdownBackgroundTasks
      PROVE  UpdateCheckInv'
  <2>1. UpdateCheckTypeOK' /\ SlotHeld'
    BY <1>7 DEF ReleaseSlot, ClearFlag, ThreadEnds, Close, ShutdownBackgroundTasks,
                UpdateCheckInv, UpdateCheckTypeOK, SlotHeld, Preparing
  <2>2. UNCHANGED <<moment, lastAttempt, lastSuccess, attemptIsLater, requester, terminated,
                    checks>>
    BY <1>7 DEF ReleaseSlot, ThreadEnds, Close, ShutdownBackgroundTasks
  <2>3. QED
    BY <2>1, <2>2, RequesterKeeps DEF UpdateCheckInv, OneCheckThread, Preparing
<1>8. CASE UNCHANGED updateCheckVars
  BY <1>8 DEF updateCheckVars, UpdateCheckInv, UpdateCheckTypeOK, OneCheckThread, SlotHeld,
              Preparing, TimesOfLast, ChecksAreSpaced, MinimumIntervalFor
<1>9. QED
  BY <1>1, <1>2, <1>3, <1>4, <1>5, <1>6, <1>7, <1>8
  DEF UpdateCheckNext, RequesterGoesOn, ThreadGoesOn

LEMMA UpdateCheckInvariant ==
  UpdateCheckInit /\ [][UpdateCheckNext]_updateCheckVars => []UpdateCheckInv
BY UpdateCheckInitially, UpdateCheckStep, PTL

\* However many threads ask for a check at once, one at a time prepares it, its thread is joined
\* and never replaced while it runs, and checks keep their distance
\* (StartBackgroundUpdateCheck).
THEOREM UpdateCheckSafety ==
  UpdateCheckSpec => []UpdateCheckTypeOK /\ []OneCheckThread /\ []ChecksAreSpaced
<1>1. UpdateCheckInv => UpdateCheckTypeOK /\ OneCheckThread /\ ChecksAreSpaced
  BY DEF UpdateCheckInv
<1>2. QED
  BY <1>1, UpdateCheckInvariant, PTL DEF UpdateCheckSpec

-----------------------------------------------------------------------------
\* Of some numbers one is the least, and of some below a bound one the greatest.
LEMMA LeastOfSome ==
  ASSUME NEW S \in SUBSET Nat, S # {}
  PROVE  Min(S) \in S /\ \A t \in S : Min(S) <= t
<1>1. IsWellFoundedOn(OpToRel(<, Nat), Nat)
  BY NatLessThanWellFounded, Zenon
<1>2. PICK i \in S : \A j \in S : <<j, i>> \notin OpToRel(<, Nat)
  BY <1>1, WFMin, Zenon
<1>3. \A j \in S : ~(j < i)
  BY <1>2, Zenon DEF OpToRel
<1>4. \A j \in S : i <= j
  BY <1>3
<1>5. QED
  BY <1>4, Zenon DEF Min

LEMMA GreatestOfSome ==
  ASSUME NEW n \in Nat, NEW S \in SUBSET (0..n), S # {}
  PROVE  Max(S) \in S /\ \A t \in S : t <= Max(S)
<1> DEFINE below == {n - t : t \in S}
<1>1. below \in SUBSET Nat /\ below # {}
  <2>1. \A t \in S : n - t \in Nat
    OBVIOUS
  <2>2. QED
    BY <2>1
<1>2. Min(below) \in below /\ \A d \in below : Min(below) <= d
  BY <1>1, LeastOfSome, Zenon
<1>3. PICK s \in S : Min(below) = n - s
  BY <1>2
<1> HIDE DEF below
<1>4. \A t \in S : n - t \in below
  BY DEF below
<1>5. \A t \in S : s >= t
  BY <1>2, <1>3, <1>4
<1>6. Max(S) \in S /\ \A t \in S : Max(S) >= t
  BY <1>5, Zenon DEF Max
<1>7. QED
  BY <1>6

-----------------------------------------------------------------------------
\* The tables of sessions: what is invariant.

\* Every game of one set ended before every game of another; a set of games without a gap; and
\* the tables and the queue, told apart.
Precede(S, U) == \A s \in S, u \in U : s < u
Together(games) == \A s, t \in games : s < t => \E u \in games : u < t /\ ~Separates(u, t)
SavedLive == {i \in DOMAIN sessions : sessions[i].source = "live"}
SavedBack == {i \in DOMAIN sessions : sessions[i].source = "backfill"}
SessionAt == {a \in DOMAIN saves : ~IsMatch(saves[a])}
MatchesAfter(a) == {t \in Times : \E d \in DOMAIN saves : a < d /\ saves[d] = MatchSave(t)}
WaitingMatches == MatchesAfter(0)

\* Only a match in the table is linked, to a session in the table.
LinksAreRows ==
  \A t \in Times : link[t] # NoSession => t \in rows /\ link[t] \in DOMAIN sessions

\* What waits to be saved is one match each, or a session without a gap in it.
SavesAreWhole ==
  \A a \in DOMAIN saves :
    IF IsMatch(saves[a]) THEN \E t \in Times : saves[a] = MatchSave(t)
    ELSE /\ saves[a].games # {} /\ Together(saves[a].games)
         /\ \A t \in saves[a].games : t <= saves[a].to

\* So is each session in the table, and the one that is on.
AllTogether ==
  /\ \A i \in DOMAIN sessions : sessions[i].games # {} /\ Together(sessions[i].games)
  /\ Together(live)

\* A session saved when it ended spans the games it counted.
LiveSpans ==
  \A i \in SavedLive :
    /\ sessions[i].from \in sessions[i].games
    /\ \A t \in sessions[i].games : t \in sessions[i].from..sessions[i].to

\* Nothing was played later than now, and what ends now has not been counted before.
Past(games) == \A t \in games : t <= now /\ (~played => t # now)

InTime ==
  /\ \A t \in rows : t <= now
  /\ Past(live)
  /\ \A a \in DOMAIN saves : Past(saves[a].games)
  /\ \A i \in SavedLive : Past(sessions[i].games)

\* Sessions follow each other: those in the table, those that wait, the one that is on; and so
\* do the matches that wait.
InOrder ==
  /\ \A i, j \in SavedLive : i < j => Precede(sessions[i].games, sessions[j].games)
  /\ \A i \in SavedLive :
       /\ Precede(sessions[i].games, live)
       /\ \A a \in SessionAt : Precede(sessions[i].games, saves[a].games)
  /\ \A a \in SessionAt : Precede(saves[a].games, live)
  /\ \A a, b \in DOMAIN saves :
       a < b /\ (IsMatch(saves[a]) <=> IsMatch(saves[b])) => Precede(saves[a].games, saves[b].games)

\* When a session is saved its own matches have been saved and those of later ones have not.
StillToSave ==
  \A a \in SessionAt :
    /\ live \subseteq MatchesAfter(a)
    /\ \A b \in SessionAt : a < b => saves[b].games \subseteq MatchesAfter(a)
    /\ saves[a].games \cap MatchesAfter(a) = {}

\* As long as nothing was imported the backfill works forward in time: what it has made ends
\* before what it has yet to link, and what is played is later than all of it.
ApartNow ==
  /\ ~merging
  /\ \A i \in SavedBack, t \in Unlinked : sessions[i].to < t
  /\ Precede(rows, WaitingMatches)
  /\ Precede((rows \cup WaitingMatches) \ live, live)
  /\ \A i, j \in SavedBack :
       sessions[i].from < sessions[j].from => Separates(sessions[i].to, sessions[j].from)
Apart == imported = {} => ApartNow

\* As long as every backfill knows of every session, the games of a session that waits or is on
\* are linked to none; one whose games were all deleted was on before any that is in the table;
\* and while a backfill runs it meets no game of a session that it has to leave alone.
Remembered(games) == SavedLive # {} => games \cap (rows \cup WaitingMatches) # {}
Free(games) == \A t \in games : link[t] = NoSession
CountedNow ==
  /\ \A i \in DOMAIN sessions : \A t \in sessions[i].games \cap rows : link[t] \in {NoSession, i}
  /\ Free(live) /\ \A a \in SessionAt : Free(saves[a].games)
  /\ live # {} => Remembered(live)
  /\ \A a \in SessionAt : Remembered(saves[a].games)
  /\ WaitingMatches \cap rows = {}
  /\ backfill = "running" => SessionAt = {}
  /\ SessionAt # {} => recapValid
  /\ merging => live \cap rows = {} /\ \A a \in SessionAt : saves[a].games \cap rows = {}
Counted == ~exposed => CountedNow

SessionInv ==
  /\ SessionTypeOK /\ LinksAreRows /\ BackfillIsExact /\ SavesAreWhole /\ AllTogether /\ LiveSpans
  /\ InTime /\ InOrder /\ StillToSave /\ Apart /\ Counted

-----------------------------------------------------------------------------
\* Slices of a set of matches.

LEMMA TimesAreFinite == \A S \in SUBSET Times : IsFiniteSet(S) /\ Cardinality(S) \in Nat
<1>1. IsFiniteSet(Times)
  BY FS_Interval, SessionTablesAssumption DEF Times
<1>2. QED
  BY <1>1, FS_Subset, FS_CardinalityType

LEMMA EndsOfSome ==
  ASSUME NEW S \in SUBSET Times, S # {}
  PROVE  /\ Min(S) \in S /\ \A t \in S : Min(S) <= t
         /\ Max(S) \in S /\ \A t \in S : t <= Max(S)
<1>1. S \in SUBSET Nat /\ S \in SUBSET (0..LastTime) /\ LastTime \in Nat
  BY SessionTablesAssumption DEF Times
<1>2. QED
  BY <1>1, LeastOfSome, GreatestOfSome

\* What a query for the oldest leaves is later than all it gives.
LEMMA OldestFirst ==
  ASSUME NEW E \in SUBSET Times, NEW n \in Nat,
         NEW t \in Oldest(E, n), NEW u \in E, u \notin Oldest(E, n)
  PROVE  t < u
<1> DEFINE OlderThan(s) == {v \in E : v < s}
<1>1. t \in E /\ Cardinality(OlderThan(t)) < n /\ ~(Cardinality(OlderThan(u)) < n)
  BY DEF Oldest
<1>2. IsFiniteSet(OlderThan(t)) /\ Cardinality(OlderThan(t)) \in Nat /\ Cardinality(OlderThan(u)) \in Nat
  BY TimesAreFinite
<1>3. t \in Nat /\ u \in Nat
  BY <1>1 DEF Times
<1>4. CASE u <= t
  <2>1. OlderThan(u) \in SUBSET OlderThan(t)
    <3>1. \A v \in E : v \in Nat
      BY DEF Times
    <3>2. \A v \in E : v < u => v < t
      BY <1>3, <1>4, <3>1
    <3>3. QED
      BY <3>2
  <2>2. Cardinality(OlderThan(u)) <= Cardinality(OlderThan(t))
    BY <1>2, <2>1, FS_Subset
  <2> HIDE DEF OlderThan
  <2>3. QED
    BY <1>1, <1>2, <2>2
<1>5. QED
  BY <1>3, <1>4

\* Slices are numbered in the order of time, and a slice begins where the number grows.
LEMMA SlicesGrow ==
  ASSUME NEW B \in SUBSET Times, NEW s \in Times, NEW t \in Times, s <= t
  PROVE  /\ SliceOf(B, s) \in Nat /\ SliceOf(B, t) \in Nat /\ SliceOf(B, s) <= SliceOf(B, t)
         /\ SliceOf(B, t) <= Cardinality(B)
         /\ SliceOf(B, s) # SliceOf(B, t) <=> \E b \in B : s < b /\ b <= t
<1> DEFINE Until(x) == {b \in B : b <= x}
<1>1. /\ IsFiniteSet(B) /\ IsFiniteSet(Until(t)) /\ Cardinality(Until(s)) \in Nat
      /\ Cardinality(Until(t)) \in Nat
  BY TimesAreFinite
<1>2. /\ s \in Nat /\ t \in Nat /\ \A b \in B : b \in Nat
  BY DEF Times
<1>3. Until(s) \in SUBSET Until(t) /\ Until(t) \in SUBSET B
  <2>1. \A b \in B : b <= s => b <= t
    BY <1>2
  <2>2. QED
    BY <2>1
<1>4. /\ Cardinality(Until(s)) <= Cardinality(Until(t))
      /\ Cardinality(Until(s)) = Cardinality(Until(t)) => Until(s) = Until(t)
      /\ Cardinality(Until(t)) <= Cardinality(B)
  BY <1>1, <1>3, FS_Subset
<1>5. Until(s) # Until(t) <=> \E b \in B : s < b /\ b <= t
  <2>1. Until(s) # Until(t) <=> \E b \in B : b \notin Until(s) /\ b \in Until(t)
    BY <1>3
  <2>2. \A b \in B : (b \notin Until(s) <=> s < b) /\ (b \in Until(t) <=> b <= t)
    BY <1>2
  <2> HIDE DEF Until
  <2>3. QED
    BY <2>1, <2>2
<1>6. SliceOf(B, s) = Cardinality(Until(s)) /\ SliceOf(B, t) = Cardinality(Until(t))
  BY DEF SliceOf
<1> HIDE DEF Until
<1>7. QED
  BY <1>1, <1>4, <1>5, <1>6

\* Each place where a slice begins has a number of its own, and each number such a place.
LEMMA SlicesBegin ==
  ASSUME NEW B \in SUBSET Times, NEW k \in 1..Cardinality(B)
  PROVE  \E b \in B : SliceOf(B, b) = k
<1> DEFINE n == Cardinality(B)
           f == [b \in B |-> SliceOf(B, b)]
<1>1. IsFiniteSet(B) /\ n \in Nat
  BY TimesAreFinite
<1>2. \A b \in B : SliceOf(B, b) \in 1..n
  <2> SUFFICES ASSUME NEW b \in B PROVE SliceOf(B, b) \in 1..n
    OBVIOUS
  <2>1. b \in Times /\ b <= b /\ b \in {c \in B : c <= b} /\ {c \in B : c <= b} \in SUBSET Times
    <3>1. b \in Nat
      BY DEF Times
    <3>2. b <= b
      BY <3>1
    <3>3. QED
      BY <3>2
  <2>2. SliceOf(B, b) # 0 /\ SliceOf(B, b) \in Nat
    BY <2>1, TimesAreFinite, FS_EmptySet DEF SliceOf
  <2>3. SliceOf(B, b) <= n
    BY <2>1, SlicesGrow
  <2> HIDE DEF n
  <2>4. QED
    BY <1>1, <2>2, <2>3
<1>3. \A b, c \in B : SliceOf(B, b) = SliceOf(B, c) => b = c
  <2> SUFFICES ASSUME NEW b \in B, NEW c \in B, b < c PROVE SliceOf(B, b) # SliceOf(B, c)
    BY DEF Times
  <2>1. b \in Times /\ c \in Times /\ b <= c /\ c <= c
    BY DEF Times
  <2>2. QED
    BY <2>1, SlicesGrow
<1>4. f \in Injection(B, 1..n)
  BY <1>2, <1>3 DEF Injection, IsInjective
<1>5. IsFiniteSet(1..n) /\ Cardinality(1..n) = n
  BY <1>1, FS_Interval
<1>6. f \in Surjection(B, 1..n)
  BY <1>4, <1>5, FS_Injection
<1>7. PICK b \in B : f[b] = k
  BY <1>6 DEF Surjection
<1>8. QED
  BY <1>7

\* Between slices there is a gap, within one there is none.
LEMMA SlicesAreApart ==
  ASSUME NEW E \in SUBSET Times, NEW B \in SUBSET Begins(E), NEW s \in E, NEW t \in E,
         s < t, SliceOf(B, s) # SliceOf(B, t)
  PROVE  Separates(s, t)
<1>1. s \in Times /\ t \in Times /\ s <= t /\ B \in SUBSET Times /\ Gap \in Nat
  BY SessionTablesAssumption DEF Times, Begins
<1>2. PICK b \in B : s < b /\ b <= t
  BY <1>1, SlicesGrow
<1>3. Separates(s, b) /\ b \in Nat /\ s \in Nat /\ t \in Nat
  BY <1>1, <1>2 DEF Begins, Times
<1>4. QED
  BY <1>1, <1>2, <1>3 DEF Separates

LEMMA SliceIsTogether ==
  ASSUME NEW E \in SUBSET Times, NEW B \in SUBSET Begins(E), Begins(E) \ B \subseteq {Min(E)},
         NEW k
  PROVE  Together({t \in E : SliceOf(B, t) = k})
<1> DEFINE slice == {t \in E : SliceOf(B, t) = k}
<1> SUFFICES ASSUME NEW s \in slice, NEW t \in slice, s < t
             PROVE  \E u \in slice : u < t /\ ~Separates(u, t)
  BY DEF Together
<1>1. s \in Times /\ t \in Times /\ s <= t /\ B \in SUBSET Times /\ s \in E /\ t \in E /\ t \in Nat /\ s \in Nat
  BY DEF Times, Begins
<1>2. t \notin B
  BY <1>1, SlicesGrow
<1>3. t # Min(E)
  BY <1>1, EndsOfSome
<1>4. PICK u \in E : u < t /\ ~Separates(u, t)
  BY <1>1, <1>2, <1>3 DEF Begins
<1>5. SliceOf(B, u) = k
  BY <1>1, <1>4, SlicesAreApart
<1>6. QED
  BY <1>4, <1>5

\* A set of games without a gap begins once.
LEMMA TogetherBeginsOnce ==
  ASSUME NEW games \in SUBSET Times, games # {}, Together(games)
  PROVE  Cardinality(Begins(games)) = 1
<1>1. /\ Min(games) \in games /\ \A t \in games : Min(games) <= t /\ t \in Nat
  BY EndsOfSome DEF Times
<1>2. Begins(games) = {Min(games)}
  <2>1. Min(games) \in Begins(games)
    BY <1>1 DEF Begins
  <2>2. ASSUME NEW t \in Begins(games) PROVE t = Min(games)
    <3>1. t \in games /\ t \in Nat /\ Min(games) \in Nat
      BY <1>1 DEF Begins
    <3>2. CASE Min(games) < t
      <4>1. PICK u \in games : u < t /\ ~Separates(u, t)
        BY <1>1, <3>1, <3>2 DEF Together
      <4>2. QED
        BY <4>1 DEF Begins
    <3>3. QED
      BY <1>1, <3>1, <3>2
  <2>3. QED
    BY <2>1, <2>2
<1>3. QED
  BY <1>2, FS_Singleton

TableEntry == [source : {"live", "backfill"}, from : Times, to : Times, games : SUBSET Times]

\* What a session is computed to be from its matches.
LEMMA BackfilledFits ==
  ASSUME NEW games \in SUBSET Times, games # {}
  PROVE  /\ Backfilled(games) \in TableEntry
         /\ Backfilled(games).source = "backfill" /\ Backfilled(games).games = games
         /\ Backfilled(games).from \in games /\ Backfilled(games).to \in games
         /\ \A t \in games : Backfilled(games).from <= t /\ t <= Backfilled(games).to
<1>1. /\ Min(games) \in games /\ Max(games) \in games
      /\ \A t \in games : Min(games) <= t /\ t <= Max(games)
  BY EndsOfSome
<1>2. /\ Backfilled(games).source = "backfill" /\ Backfilled(games).games = games
      /\ Backfilled(games).from = Min(games) /\ Backfilled(games).to = Max(games)
  BY DEF Backfilled
<1>3. Backfilled(games) \in TableEntry
  BY <1>1 DEF Backfilled, TableEntry
<1>4. QED
  BY <1>1, <1>2, <1>3

LEMMA TablesTyped ==
  ASSUME SessionTypeOK
  PROVE  /\ sessions \in Seq(TableEntry) /\ Len(sessions) \in Nat
         /\ DOMAIN sessions = 1..Len(sessions)
         /\ \A i \in DOMAIN sessions :
              /\ sessions[i] \in TableEntry /\ sessions[i].source \in {"live", "backfill"}
              /\ sessions[i].games \in SUBSET Times
              /\ sessions[i].from \in Times /\ sessions[i].to \in Times
<1>1. sessions \in Seq(TableEntry)
  BY DEF SessionTypeOK, TableEntry
<1>2. \A i \in DOMAIN sessions : sessions[i] \in TableEntry
  BY <1>1, ElementOfSeq
<1>3. QED
  BY <1>1, <1>2 DEF TableEntry

SaveEntry == [games : SUBSET Times, to : Times \cup {NoSession}]

LEMMA SavesTyped ==
  ASSUME SessionTypeOK
  PROVE  /\ saves \in Seq(SaveEntry) /\ Len(saves) \in Nat /\ DOMAIN saves = 1..Len(saves)
         /\ \A a \in DOMAIN saves :
              /\ saves[a] \in SaveEntry /\ saves[a].games \in SUBSET Times
              /\ saves[a].to \in Times \cup {NoSession}
<1>1. saves \in Seq(SaveEntry)
  BY DEF SessionTypeOK, SaveEntry
<1>2. \A a \in DOMAIN saves : saves[a] \in SaveEntry
  BY <1>1, ElementOfSeq
<1>3. QED
  BY <1>1, <1>2 DEF SaveEntry

\* The live session a match is linked to is the last of those that span it.
LEMMA LiveAtIsLast ==
  ASSUME SessionTypeOK, NEW t \in Times
  PROVE  /\ LiveAt(t) = NoSession =>
              \A i \in SavedLive : t \notin sessions[i].from..sessions[i].to
         /\ LiveAt(t) # NoSession =>
              /\ LiveAt(t) \in SavedLive /\ t \in sessions[LiveAt(t)].from..sessions[LiveAt(t)].to
              /\ \A i \in SavedLive : t \in sessions[i].from..sessions[i].to => i <= LiveAt(t)
<1> DEFINE on == {i \in SavedLive : t \in sessions[i].from..sessions[i].to}
<1>1. LiveAt(t) = IF on = {} THEN NoSession ELSE Max(on)
  BY DEF LiveAt, SavedLive
<1>2. on \in SUBSET (0..Len(sessions)) /\ Len(sessions) \in Nat /\ \A i \in on : i # NoSession
  BY TablesTyped DEF SavedLive, NoSession
<1>3. CASE on = {}
  BY <1>1, <1>3
<1>4. CASE on # {}
  <2>1. LiveAt(t) \in on /\ \A i \in on : i <= LiveAt(t)
    BY <1>1, <1>2, <1>4, GreatestOfSome
  <2>2. QED
    BY <1>2, <2>1
<1>5. QED
  BY <1>3, <1>4

\* The session a slice continues is the last to end of those made before, and no gap before it.
LEMMA JoinedIsLast ==
  ASSUME SessionTypeOK, NEW begin \in Times
  PROVE  /\ JoinedSession(begin) = NoSession =>
              \A i \in SavedBack : sessions[i].to <= begin => Separates(sessions[i].to, begin)
         /\ JoinedSession(begin) # NoSession =>
              /\ JoinedSession(begin) \in SavedBack
              /\ sessions[JoinedSession(begin)].to <= begin
              /\ ~Separates(sessions[JoinedSession(begin)].to, begin)
              /\ \A i \in SavedBack :
                   sessions[i].to <= begin => sessions[i].to <= sessions[JoinedSession(begin)].to
<1> DEFINE before == {i \in SavedBack : sessions[i].to <= begin}
           latest == {i \in before : \A j \in before : sessions[j].to <= sessions[i].to}
           ends == {sessions[i].to : i \in before}
<1>1. JoinedSession(begin) =
        IF before = {} \/ \A i \in latest : Separates(sessions[i].to, begin)
        THEN NoSession ELSE Max(latest)
  BY DEF JoinedSession, SavedBack
<1>2. /\ before \in SUBSET (1..Len(sessions)) /\ latest \in SUBSET (0..Len(sessions))
      /\ Len(sessions) \in Nat /\ ends \in SUBSET Times
      /\ \A i \in before : sessions[i].to \in Times /\ i # NoSession
  BY TablesTyped DEF SavedBack, NoSession
<1>3. CASE before = {}
  BY <1>1, <1>3
<1>4. CASE before # {}
  <2>1. Max(ends) \in ends /\ \A e \in ends : e <= Max(ends)
    <3>1. ends \in SUBSET Times /\ ends # {}
      BY <1>2, <1>4
    <3> HIDE DEF ends
    <3>2. QED
      BY <3>1, EndsOfSome
  <2>2. PICK last \in before : sessions[last].to = Max(ends)
    BY <2>1
  <2>3. \A i \in before : sessions[i].to \in ends
    OBVIOUS
  <2> HIDE DEF ends
  <2>4. last \in latest
    BY <2>1, <2>2, <2>3
  <2>5. \A i \in latest : sessions[i].to = sessions[last].to
    BY <1>2, <2>2, <2>4 DEF Times
  <2>6. Max(latest) \in latest
    BY <1>2, <2>4, GreatestOfSome
  <2>7. \A i \in before : sessions[i].to <= sessions[last].to
    BY <2>1, <2>2, <2>3
  <2>8. CASE Separates(sessions[last].to, begin)
    <3>1. JoinedSession(begin) = NoSession
      BY <1>1, <2>5, <2>8
    <3>2. \A i \in before : Separates(sessions[i].to, begin)
      BY <1>2, <2>7, <2>8, SessionTablesAssumption DEF Separates, Times
    <3>3. QED
      BY <3>1, <3>2
  <2>9. CASE ~Separates(sessions[last].to, begin)
    <3>1. JoinedSession(begin) = Max(latest)
      BY <1>1, <1>4, <2>4, <2>9
    <3>2. QED
      BY <1>2, <2>5, <2>6, <2>7, <2>9, <3>1
  <2>10. QED
    BY <2>8, <2>9
<1>5. QED
  BY <1>3, <1>4

\* The slices of a chunk: those with a number of their own have a begin, and there is a slice 0
\* exactly when there is a session it continues.
LEMMA SlicesOfChunk ==
  ASSUME SessionTypeOK, NEW alone \in SUBSET Times
  PROVE  /\ Fresh(alone) \in SUBSET Begins(alone) /\ Begins(alone) \ Fresh(alone) \subseteq {Min(alone)}
         /\ Cardinality(Fresh(alone)) \in Nat
         /\ \A t \in alone : SliceOf(Fresh(alone), t) \in 0..Cardinality(Fresh(alone))
         /\ \A k \in 1..Cardinality(Fresh(alone)) : Slice(alone, k) # {}
         /\ Slice(alone, 0) # {} <=> Joined(alone) # NoSession
         /\ Joined(alone) # NoSession => Min(alone) \in Slice(alone, 0)
<1>1. /\ Fresh(alone) \in SUBSET Begins(alone)
      /\ Begins(alone) \ Fresh(alone) \subseteq {Min(alone)}
      /\ Begins(alone) \in SUBSET alone
  BY DEF Fresh, Begins
<1>2. IsFiniteSet(Fresh(alone)) /\ Cardinality(Fresh(alone)) \in Nat /\ Fresh(alone) \in SUBSET Times
  BY <1>1, TimesAreFinite
<1>3. ASSUME NEW t \in alone PROVE SliceOf(Fresh(alone), t) \in 0..Cardinality(Fresh(alone))
  <2>1. t \in Times /\ t <= t
    BY DEF Times
  <2>2. QED
    BY <1>2, <2>1, SlicesGrow
<1>4. ASSUME NEW k \in 1..Cardinality(Fresh(alone)) PROVE Slice(alone, k) # {}
  BY <1>1, <1>2, SlicesBegin DEF Slice
<1>5. CASE Joined(alone) # NoSession
  <2>1. alone # {} /\ Fresh(alone) = Begins(alone) \ {Min(alone)}
    BY <1>5 DEF Joined, Fresh
  <2>2. Min(alone) \in alone /\ \A t \in alone : Min(alone) <= t /\ t \in Nat
    BY <2>1, EndsOfSome DEF Times
  <2>3. {b \in Fresh(alone) : b <= Min(alone)} = {}
    <3>1. \A b \in Fresh(alone) : b \in alone /\ b # Min(alone)
      BY <1>1, <2>1
    <3>2. QED
      BY <2>2, <3>1
  <2>4. SliceOf(Fresh(alone), Min(alone)) = 0
    BY <2>3, FS_EmptySet DEF SliceOf
  <2>5. Min(alone) \in Slice(alone, 0)
    BY <2>2, <2>4 DEF Slice
  <2>6. QED
    BY <1>1, <1>2, <1>3, <1>4, <1>5, <2>5
<1>6. CASE Joined(alone) = NoSession
  <2>1. ASSUME NEW t \in alone PROVE SliceOf(Fresh(alone), t) # 0
    <3>1. Min(alone) \in alone /\ Min(alone) <= t /\ \A u \in alone : Min(alone) <= u /\ u \in Nat
      BY EndsOfSome DEF Times
    <3>2. Min(alone) \in Begins(alone)
      BY <3>1 DEF Begins
    <3>3. Min(alone) \in {b \in Fresh(alone) : b <= t}
      BY <1>6, <3>1, <3>2 DEF Fresh
    <3>4. IsFiniteSet({b \in Fresh(alone) : b <= t})
      BY <1>2, FS_Subset
    <3>5. QED
      BY <3>3, <3>4, FS_EmptySet DEF SliceOf
  <2>2. Slice(alone, 0) = {}
    BY <2>1 DEF Slice
  <2>3. QED
    BY <1>1, <1>2, <1>3, <1>4, <1>6, <2>2
<1>7. QED
  BY <1>5, <1>6

\* Of two sequences the first keeps its places and the second follows.
LEMMA JoinedSeqs ==
  ASSUME NEW S, NEW s \in Seq(S), NEW t \in Seq(S)
  PROVE  /\ s \o t \in Seq(S) /\ Len(s \o t) = Len(s) + Len(t)
         /\ \A i \in 1..Len(s) : (s \o t)[i] = s[i]
         /\ \A k \in 1..Len(t) : (s \o t)[Len(s) + k] = t[k]
<1> DEFINE m == Len(s)
           n == Len(t)
           both == s \o t
<1>1. m \in Nat /\ n \in Nat
  OBVIOUS
<1>2. /\ both \in Seq(S) /\ Len(both) = m + n
      /\ \A i \in 1..m + n : both[i] = IF i <= m THEN s[i] ELSE t[i - m]
  BY ConcatProperties
<1> HIDE DEF m, n, both
<1>3. \A i \in 1..m : both[i] = s[i]
  BY <1>1, <1>2
<1>4. \A k \in 1..n : both[m + k] = t[k]
  <2> SUFFICES ASSUME NEW k \in 1..n PROVE both[m + k] = t[k]
    OBVIOUS
  <2>1. m + k \in 1..m + n /\ ~(m + k <= m) /\ (m + k) - m = k
    BY <1>1
  <2>2. QED
    BY <1>2, <2>1
<1>5. QED
  BY <1>2, <1>3, <1>4 DEF m, n, both

\* The table after a chunk: what was there, one of it continued, and the new slices behind it.
LEMMA TableAfterChunk ==
  ASSUME SessionTypeOK, NEW alone \in SUBSET Times
  PROVE  LET table == Continued(alone) \o Created(alone)
         IN
         /\ table \in Seq(TableEntry)
         /\ Len(table) = Len(sessions) + Cardinality(Fresh(alone))
         /\ \A i \in DOMAIN sessions : i # Joined(alone) => table[i] = sessions[i]
         /\ Joined(alone) # NoSession =>
              /\ Joined(alone) \in SavedBack
              /\ table[Joined(alone)] = Backfilled(RowsOf(Joined(alone)) \cup Slice(alone, 0))
         /\ \A k \in 1..Cardinality(Fresh(alone)) :
              table[Len(sessions) + k] = Backfilled(Slice(alone, k))
<1> DEFINE n == Cardinality(Fresh(alone))
           id == Joined(alone)
           added == Created(alone)
           table == Continued(alone) \o added
           size == Len(sessions)
<1>1. n \in Nat /\ size \in Nat /\ sessions \in Seq(TableEntry) /\ DOMAIN sessions = 1..size
  BY SlicesOfChunk, TablesTyped
<1>2. added \in Seq(TableEntry) /\ Len(added) = n
  <2>1. ASSUME NEW k \in 1..n PROVE Backfilled(Slice(alone, k)) \in TableEntry
    <3>1. Slice(alone, k) # {} /\ Slice(alone, k) \in SUBSET Times
      BY SlicesOfChunk DEF Slice
    <3>2. QED
      BY <3>1, BackfilledFits
  <2>2. added = [k \in 1..n |-> Backfilled(Slice(alone, k))]
    BY DEF Created
  <2> HIDE DEF n, added
  <2>3. QED
    BY <1>1, <2>1, <2>2
<1>3. id # NoSession => id \in SavedBack /\ Backfilled(RowsOf(id) \cup Slice(alone, 0)) \in TableEntry
  <2> SUFFICES ASSUME id # NoSession
               PROVE  id \in SavedBack /\ Backfilled(RowsOf(id) \cup Slice(alone, 0)) \in TableEntry
    OBVIOUS
  <2>1. alone # {} /\ id = JoinedSession(Min(alone))
    BY DEF Joined
  <2>2. Min(alone) \in Times
    BY <2>1, EndsOfSome
  <2>3. id \in SavedBack
    BY <2>1, <2>2, JoinedIsLast
  <2>4. RowsOf(id) \cup Slice(alone, 0) \in SUBSET Times /\ RowsOf(id) \cup Slice(alone, 0) # {}
    <3>1. Slice(alone, 0) # {}
      BY SlicesOfChunk
    <3>2. RowsOf(id) \in SUBSET Times /\ Slice(alone, 0) \in SUBSET Times
      BY DEF RowsOf, Slice, SessionTypeOK
    <3>3. QED
      BY <3>1, <3>2
  <2>5. QED
    BY <2>3, <2>4, BackfilledFits
<1>4. /\ Continued(alone) \in Seq(TableEntry) /\ Len(Continued(alone)) = size
      /\ \A i \in 1..size : i # id => Continued(alone)[i] = sessions[i]
      /\ id # NoSession => Continued(alone)[id] = Backfilled(RowsOf(id) \cup Slice(alone, 0))
  <2>1. CASE id = NoSession
    BY <1>1, <2>1 DEF Continued
  <2>2. CASE id # NoSession
    <3> DEFINE new == Backfilled(RowsOf(id) \cup Slice(alone, 0))
    <3>1. Continued(alone) = [sessions EXCEPT ![id] = new]
      BY <2>2 DEF Continued, Joining
    <3>2. id \in DOMAIN sessions /\ new \in TableEntry
      BY <1>3, <2>2 DEF SavedBack
    <3> HIDE DEF new, id, size
    <3>3. /\ Continued(alone) \in Seq(TableEntry) /\ Len(Continued(alone)) = size
          /\ \A i \in 1..size : Continued(alone)[i] = IF i = id THEN new ELSE sessions[i]
      <4>1. id \in 1..Len(sessions) /\ Len(sessions) = size
        BY <1>1, <3>2 DEF size
      <4>2. QED
        BY <1>1, <3>1, <3>2, <4>1, ExceptSeq
    <3>4. QED
      BY <1>1, <2>2, <3>2, <3>3 DEF new
  <2>3. QED
    BY <2>1, <2>2
<1> HIDE DEF n, id, added, size
<1>5. table = Continued(alone) \o added
  OBVIOUS
<1> HIDE DEF table
<1>6. /\ table \in Seq(TableEntry) /\ Len(table) = size + n
      /\ \A i \in 1..size : table[i] = Continued(alone)[i]
      /\ \A k \in 1..n : table[size + k] = added[k]
  <2>1. Continued(alone) \in Seq(TableEntry) /\ Len(Continued(alone)) = size /\ Len(added) = n
    BY <1>2, <1>4
  <2>2. /\ (Continued(alone) \o added) \in Seq(TableEntry)
        /\ Len(Continued(alone) \o added) = Len(Continued(alone)) + Len(added)
        /\ \A i \in 1..Len(Continued(alone)) :
             (Continued(alone) \o added)[i] = Continued(alone)[i]
        /\ \A k \in 1..Len(added) :
             (Continued(alone) \o added)[Len(Continued(alone)) + k] = added[k]
    <3>1. Continued(alone) \in Seq(TableEntry) /\ added \in Seq(TableEntry)
      BY <1>2, <2>1
    <3>2. QED
      BY <3>1, JoinedSeqs
  <2>3. QED
    BY <1>5, <2>1, <2>2, Zenon
<1>7. \A k \in 1..n : added[k] = Backfilled(Slice(alone, k))
  BY DEF added, n, Created
<1>8. /\ \A i \in DOMAIN sessions : i # id => table[i] = sessions[i]
      /\ \A k \in 1..n : table[size + k] = Backfilled(Slice(alone, k))
  BY <1>1, <1>4, <1>6, <1>7, Zenon
<1>9. id # NoSession => id \in SavedBack /\ table[id] = Backfilled(RowsOf(id) \cup Slice(alone, 0))
  BY <1>1, <1>3, <1>4, <1>6, Zenon DEF SavedBack
<1>10. QED
  BY <1>6, <1>8, <1>9, Zenon DEF n, id, size, table, added

\* What a chunk links: matches that were not linked, each to a live session that spans it, to the
\* session that is continued, or to one of the new slices.
LEMMA LinksOfChunk ==
  ASSUME SessionTypeOK, LinksAreRows, NEW chunk \in SUBSET Unlinked, NEW alone, alone = Alone(chunk),
         NEW links, links = [t \in Times |-> IF t \in chunk THEN IdIn(alone, t) ELSE link[t]]
  PROVE  /\ alone \in SUBSET Times
         /\ links \in [Times -> Nat]
         /\ \A t \in Times : links[t] # NoSession =>
              t \in rows /\ links[t] \in 1..Len(sessions) + Cardinality(Fresh(alone))
         /\ \A t \in Times \ chunk : links[t] = link[t]
         /\ \A t \in chunk \ alone : links[t] = LiveAt(t) /\ LiveAt(t) # NoSession
         /\ \A t \in alone : links[t] # NoSession /\ LiveAt(t) = NoSession
         /\ \A t \in rows, i \in DOMAIN sessions :
              links[t] = i <=> \/ link[t] = i
                               \/ t \in chunk \ alone /\ LiveAt(t) = i
                               \/ i = Joined(alone) /\ t \in Slice(alone, 0)
         /\ \A t \in rows, k \in 1..Cardinality(Fresh(alone)) :
              links[t] = Len(sessions) + k <=> t \in Slice(alone, k)
<1> DEFINE n == Cardinality(Fresh(alone))
           size == Len(sessions)
<1>1. /\ alone \in SUBSET chunk /\ chunk \in SUBSET Times /\ chunk \in SUBSET rows
      /\ alone \in SUBSET Times /\ rows \in SUBSET Times /\ link \in [Times -> Nat]
  BY DEF Alone, Unlinked, SessionTypeOK
<1>2. /\ n \in Nat /\ size \in Nat /\ DOMAIN sessions = 1..size
      /\ \A t \in alone : SliceOf(Fresh(alone), t) \in 0..n
  BY <1>1, SlicesOfChunk, TablesTyped
<1>3. \A t \in chunk : link[t] = NoSession /\ t \in rows
  BY DEF Unlinked
<1>4. \A t \in alone : LiveAt(t) = NoSession
  BY DEF Alone
<1>5. \A t \in chunk \ alone :
        links[t] = LiveAt(t) /\ LiveAt(t) \in 1..size /\ LiveAt(t) # NoSession
  <2> SUFFICES ASSUME NEW t \in chunk \ alone
               PROVE  links[t] = LiveAt(t) /\ LiveAt(t) \in 1..size /\ LiveAt(t) # NoSession
    OBVIOUS
  <2>1. LiveAt(t) # NoSession /\ t \in Times
    BY <1>1 DEF Alone
  <2>2. LiveAt(t) \in 1..size
    BY <1>2, <2>1, LiveAtIsLast DEF SavedLive
  <2>3. links[t] = LiveAt(t)
    BY <2>1 DEF IdIn
  <2>4. QED
    BY <2>1, <2>2, <2>3
<1>6. \A t \in alone : SliceOf(Fresh(alone), t) = 0 =>
        links[t] = Joined(alone) /\ Joined(alone) \in 1..size /\ Joined(alone) # NoSession
  <2> SUFFICES ASSUME NEW t \in alone, SliceOf(Fresh(alone), t) = 0
               PROVE  links[t] = Joined(alone) /\ Joined(alone) \in 1..size /\ Joined(alone) # NoSession
    OBVIOUS
  <2>1. t \in Slice(alone, 0) /\ t \in chunk /\ t \in Times
    BY <1>1 DEF Slice
  <2>2. Joined(alone) # NoSession /\ alone # {}
    BY <1>1, <2>1, SlicesOfChunk DEF Joined
  <2>3. Joined(alone) = JoinedSession(Min(alone)) /\ Min(alone) \in Times
    BY <1>1, <2>2, EndsOfSome DEF Joined
  <2>4. Joined(alone) \in 1..size
    BY <1>2, <2>2, <2>3, JoinedIsLast DEF SavedBack
  <2>5. links[t] = Joined(alone)
    BY <2>1 DEF IdIn
  <2>6. QED
    BY <2>2, <2>4, <2>5
<1>7. \A t \in alone : SliceOf(Fresh(alone), t) # 0 => links[t] = size + SliceOf(Fresh(alone), t)
  BY <1>1 DEF IdIn
<1>8. \A t \in Times \ chunk : links[t] = link[t]
  OBVIOUS
<1>9. \A t, k : t \in Slice(alone, k) <=> t \in alone /\ SliceOf(Fresh(alone), t) = k
  BY DEF Slice
<1>10. \A t \in Times : link[t] # NoSession => t \in rows /\ link[t] \in 1..size
  BY <1>2 DEF LinksAreRows
<1> DEFINE S(t) == SliceOf(Fresh(alone), t)
<1>11. \A t \in Times :
         \/ t \notin chunk /\ links[t] = link[t]
         \/ t \in chunk \ alone /\ links[t] = LiveAt(t) /\ LiveAt(t) \in 1..size /\ link[t] = NoSession
         \/ t \in alone /\ S(t) = 0 /\ links[t] = Joined(alone) /\ Joined(alone) \in 1..size /\ link[t] = NoSession
         \/ t \in alone /\ S(t) \in 1..n /\ links[t] = size + S(t) /\ link[t] = NoSession
  <2>1. \A t \in alone : S(t) # 0 => S(t) \in 1..n
    <3> HIDE DEF n
    <3>1. QED
      BY <1>2
  <2>2. QED
    BY <1>1, <1>3, <1>5, <1>6, <1>7, <1>8, <2>1
<1> HIDE DEF n, size, S
<1>12. links \in [Times -> Nat]
  <2>1. \A t \in Times : links[t] \in Nat
    BY <1>1, <1>2, <1>11
  <2>2. links = [t \in Times |-> links[t]]
    OBVIOUS
  <2>3. QED
    BY <2>1, <2>2
<1>13. \A t \in Times : links[t] # NoSession => t \in rows /\ links[t] \in 1..size + n
  <2> SUFFICES ASSUME NEW t \in Times, links[t] # NoSession
               PROVE  t \in rows /\ links[t] \in 1..size + n
    OBVIOUS
  <2>1. CASE t \notin chunk
    BY <1>2, <1>8, <1>10, <2>1
  <2>2. CASE t \in chunk
    BY <1>2, <1>3, <1>11, <2>2
  <2>3. QED
    BY <2>1, <2>2
<1>14. \A t \in alone : links[t] # NoSession
  BY <1>1, <1>2, <1>11 DEF NoSession
<1>15. \A t \in rows, i \in 1..size :
         links[t] = i <=> \/ link[t] = i
                          \/ t \in chunk \ alone /\ LiveAt(t) = i
                          \/ i = Joined(alone) /\ t \in alone /\ S(t) = 0
  BY <1>1, <1>2, <1>4, <1>11 DEF NoSession
<1>16. \A t \in rows, k \in 1..n : links[t] = size + k <=> t \in alone /\ S(t) = k
  BY <1>1, <1>2, <1>10, <1>11 DEF NoSession
<1>17. \A t \in rows, i \in DOMAIN sessions :
         links[t] = i <=> \/ link[t] = i
                          \/ t \in chunk \ alone /\ LiveAt(t) = i
                          \/ i = Joined(alone) /\ t \in Slice(alone, 0)
  BY <1>2, <1>9, <1>15, Zenon DEF S
<1>18. \A t \in rows, k \in 1..n : links[t] = size + k <=> t \in Slice(alone, k)
  BY <1>9, <1>16, Zenon DEF S
<1>19. /\ \A t \in chunk \ alone : links[t] = LiveAt(t) /\ LiveAt(t) # NoSession
       /\ \A t \in alone : links[t] # NoSession /\ LiveAt(t) = NoSession
  BY <1>4, <1>5, <1>14, Zenon
<1>20. QED
  BY <1>1, <1>8, <1>12, <1>13, <1>17, <1>18, <1>19, Zenon DEF n, size

\* What a chunk leaves: live sessions as they were, each backfilled one with its rows, and of the
\* matches it took each in its session.
ChunkEffect(chunk, alone) ==
  /\ chunk \in SUBSET Unlinked /\ alone \in SUBSET Times /\ alone = Alone(chunk)
  /\ SavedLive' = SavedLive /\ \A i \in SavedLive : sessions'[i] = sessions[i]
  /\ \A i \in SavedBack : i # Joined(alone) => i \in SavedBack' /\ RowsOf(i)' = RowsOf(i)
  /\ Joined(alone) # NoSession => Joined(alone) \in SavedBack
  /\ \A i \in SavedBack : i = Joined(alone) =>
       i \in SavedBack' /\ RowsOf(i)' = RowsOf(i) \cup Slice(alone, 0)
  /\ \A i \in SavedBack' :
       \/ i \in SavedBack
       \/ \E k \in 1..Cardinality(Fresh(alone)) : RowsOf(i)' = Slice(alone, k)
  /\ \A i \in SavedBack' :
       /\ RowsOf(i)' \in SUBSET Times /\ RowsOf(i)' # {}
       /\ sessions'[i] = Backfilled(RowsOf(i)')
  /\ \A t \in Times \ chunk : link'[t] = link[t]
  /\ \A t \in chunk : link'[t] # NoSession
  /\ \A t \in chunk \ alone : link'[t] = LiveAt(t) /\ LiveAt(t) \in SavedLive
  /\ \A t \in alone : LiveAt(t) = NoSession
  /\ DOMAIN sessions' = SavedLive' \cup SavedBack' /\ DOMAIN sessions = SavedLive \cup SavedBack
  /\ link' \in [Times -> Nat] /\ sessions' \in Seq(TableEntry)
  /\ LinksAreRows'

LEMMA ChunkHasEffect ==
  ASSUME SessionTypeOK, LinksAreRows, BackfillIsExact, AllTogether, NEW excluded,
         BackfillSessionsChunk(excluded), rows' = rows
  PROVE  ChunkEffect(ChunkOf(excluded), Alone(ChunkOf(excluded)))
<1> DEFINE chunk == ChunkOf(excluded)
           alone == Alone(chunk)
           id == Joined(alone)
           size == Len(sessions)
           n == Cardinality(Fresh(alone))
           links == [t \in Times |-> IF t \in chunk THEN IdIn(alone, t) ELSE link[t]]
           table == Continued(alone) \o Created(alone)
<1>1. chunk \in SUBSET Unlinked
  BY DEF ChunkOf, ReadBy, Oldest
<1>2. link' = links /\ sessions' = table
  BY DEF BackfillSessionsChunk
<1> HIDE DEF chunk, links, table
<1>3. /\ alone \in SUBSET Times
      /\ links \in [Times -> Nat]
      /\ \A t \in Times : links[t] # NoSession => t \in rows /\ links[t] \in 1..size + n
      /\ \A t \in Times \ chunk : links[t] = link[t]
      /\ \A t \in chunk \ alone : links[t] = LiveAt(t) /\ LiveAt(t) # NoSession
      /\ \A t \in alone : links[t] # NoSession /\ LiveAt(t) = NoSession
      /\ \A t \in rows, i \in DOMAIN sessions :
           links[t] = i <=> \/ link[t] = i
                            \/ t \in chunk \ alone /\ LiveAt(t) = i
                            \/ i = id /\ t \in Slice(alone, 0)
      /\ \A t \in rows, k \in 1..n : links[t] = size + k <=> t \in Slice(alone, k)
  <2>1. alone = Alone(chunk)
    OBVIOUS
  <2>2. links = [t \in Times |-> IF t \in chunk THEN IdIn(alone, t) ELSE link[t]]
    BY DEF links
  <2> HIDE DEF alone
  <2>3. QED
    BY <1>1, <2>1, <2>2, LinksOfChunk
<1>4. /\ table \in Seq(TableEntry)
      /\ Len(table) = size + n
      /\ \A i \in DOMAIN sessions : i # id => table[i] = sessions[i]
      /\ id # NoSession =>
           id \in SavedBack /\ table[id] = Backfilled(RowsOf(id) \cup Slice(alone, 0))
      /\ \A k \in 1..n : table[size + k] = Backfilled(Slice(alone, k))
  BY <1>3, TableAfterChunk DEF table
<1>5. /\ n \in Nat /\ size \in Nat /\ DOMAIN sessions = 1..size /\ rows \in SUBSET Times
      /\ \A k \in 1..n : Slice(alone, k) # {}
      /\ \A k \in 0..n : Slice(alone, k) \in SUBSET alone
      /\ \A i \in 1..size : sessions[i].source \in {"live", "backfill"}
      /\ alone \in SUBSET chunk /\ chunk \in SUBSET rows
  BY <1>1, <1>3, SlicesOfChunk, TablesTyped DEF Slice, SessionTypeOK, Alone, Unlinked
<1>6. DOMAIN sessions = SavedLive \cup SavedBack /\ SavedLive \cap SavedBack = {}
  BY <1>5 DEF SavedLive, SavedBack
<1>7. \A t \in chunk \ alone : LiveAt(t) \in SavedLive
  BY <1>1, <1>3, <1>5, LiveAtIsLast
<1> HIDE DEF alone, id, size, n
<1>8. DOMAIN table = 1..size + n
  BY <1>4, <1>5
<1>9. \A i \in 1..size + n : i \in 1..size \/ \E k \in 1..n : i = size + k
  <2> SUFFICES ASSUME NEW i \in 1..size + n, i \notin 1..size PROVE \E k \in 1..n : i = size + k
    OBVIOUS
  <2>1. i - size \in 1..n /\ i = size + (i - size)
    BY <1>5
  <2>2. QED
    BY <2>1
<1>10. \A i \in SavedBack : i # id => {t \in rows : links[t] = i} = RowsOf(i)
  <2> SUFFICES ASSUME NEW i \in SavedBack, i # id, NEW t \in rows
               PROVE  links[t] = i <=> link[t] = i
    BY DEF RowsOf
  <2>1. i \in DOMAIN sessions /\ i \notin SavedLive
    BY <1>6
  <2>2. QED
    BY <1>3, <1>7, <2>1
<1>11. id # NoSession => {t \in rows : links[t] = id} = RowsOf(id) \cup Slice(alone, 0)
  <2> SUFFICES ASSUME id # NoSession, NEW t \in rows
               PROVE  links[t] = id <=> link[t] = id \/ t \in Slice(alone, 0)
    <3>1. Slice(alone, 0) \in SUBSET rows
      BY <1>5
    <3>2. QED
      BY <3>1 DEF RowsOf
  <2>1. id \in DOMAIN sessions /\ id \notin SavedLive
    BY <1>4, <1>6
  <2>2. QED
    BY <1>3, <1>7, <2>1
<1>12. \A k \in 1..n : {t \in rows : links[t] = size + k} = Slice(alone, k)
  <2> SUFFICES ASSUME NEW k \in 1..n PROVE {t \in rows : links[t] = size + k} = Slice(alone, k)
    OBVIOUS
  <2>1. Slice(alone, k) \in SUBSET rows
    BY <1>5
  <2>2. QED
    BY <1>3, <2>1
<1> DEFINE Source(i) == table[i].source
<1>13. /\ \A i \in SavedLive : table[i] = sessions[i] /\ Source(i) = "live"
       /\ \A i \in SavedBack : Source(i) = "backfill"
       /\ \A k \in 1..n : Source(size + k) = "backfill"
  <2>1. \A i \in SavedLive : i # id \/ id = NoSession
    BY <1>4, <1>6
  <2>2. \A i \in 1..size : i # NoSession
    BY <1>5 DEF NoSession
  <2>3. \A i \in SavedLive : table[i] = sessions[i]
    BY <1>4, <1>5, <1>6, <2>1, <2>2
  <2>4. \A games : Backfilled(games).source = "backfill"
    BY DEF Backfilled
  <2>5. \A i \in SavedLive : Source(i) = "live"
    BY <2>3 DEF SavedLive
  <2>6. \A k \in 1..n : Source(size + k) = "backfill"
    BY <1>4, <2>4
  <2>7. ASSUME NEW i \in SavedBack PROVE Source(i) = "backfill"
    <3>1. i \in DOMAIN sessions /\ sessions[i].source = "backfill" /\ i # NoSession
      BY <1>5, <1>6 DEF SavedBack, NoSession
    <3>2. CASE i = id
      BY <1>4, <2>4, <3>1, <3>2
    <3>3. CASE i # id
      BY <1>4, <3>1, <3>3
    <3>4. QED
      BY <3>2, <3>3
  <2>8. QED
    BY <2>3, <2>5, <2>6, <2>7
<1>61. \A i \in SavedLive \cup SavedBack : i \in 1..size + n
  <2>1. \A i \in 1..size : i \in 1..size + n
    BY <1>5
  <2>2. \A i \in DOMAIN sessions : i \in 1..size
    BY <1>5
  <2>3. \A i \in SavedLive \cup SavedBack : i \in DOMAIN sessions
    BY <1>6
  <2>4. QED
    BY <2>1, <2>2, <2>3, Zenon
<1>14. SavedLive' = SavedLive
  <2>1. \A i \in 1..size + n : Source(i) = "live" <=> i \in SavedLive
    BY <1>5, <1>6, <1>9, <1>13
  <2>2. SavedLive \in SUBSET (1..size + n)
    BY <1>61
  <2>3. SavedLive' = {i \in 1..size + n : Source(i) = "live"}
    BY <1>2, <1>8 DEF SavedLive
  <2>4. QED
    BY <2>1, <2>2, <2>3
<1>15. SavedBack' = SavedBack \cup {size + k : k \in 1..n}
  <2>1. \A i \in 1..size + n : Source(i) = "backfill" <=> i \in SavedBack \/ \E k \in 1..n : i = size + k
    BY <1>5, <1>6, <1>9, <1>13
  <2>2. SavedBack \in SUBSET (1..size + n) /\ \A k \in 1..n : size + k \in 1..size + n
    <3>1. \A k \in 1..n : size + k \in 1..size + n
      BY <1>5
    <3>2. \A i \in SavedBack : i \in 1..size + n
      BY <1>61
    <3>3. QED
      BY <3>1, <3>2
  <2>3. SavedBack' = {i \in 1..size + n : Source(i) = "backfill"}
    BY <1>2, <1>8 DEF SavedBack
  <2>4. QED
    BY <2>1, <2>2, <2>3
<1>16. \A i : RowsOf(i)' = {t \in rows : links[t] = i}
  BY <1>2, rows' = rows DEF RowsOf
<1>17. \A i \in SavedBack : RowsOf(i) \in SUBSET Times /\ RowsOf(i) # {} /\ sessions[i] = Backfilled(RowsOf(i))
  <2> SUFFICES ASSUME NEW i \in SavedBack
               PROVE  RowsOf(i) \in SUBSET Times /\ RowsOf(i) # {} /\ sessions[i] = Backfilled(RowsOf(i))
    OBVIOUS
  <2>1. sessions[i] = Backfilled(RowsOf(i)) /\ sessions[i].games # {}
    BY DEF BackfillIsExact, AllTogether, SavedBack
  <2>2. sessions[i].games = RowsOf(i)
    BY <2>1 DEF Backfilled
  <2>3. QED
    BY <1>5, <2>1, <2>2 DEF RowsOf
<1>18. \A i \in SavedBack' :
         /\ RowsOf(i)' \in SUBSET Times /\ RowsOf(i)' # {}
         /\ sessions'[i] = Backfilled(RowsOf(i)')
  <2> SUFFICES ASSUME NEW i \in SavedBack'
               PROVE  /\ RowsOf(i)' \in SUBSET Times /\ RowsOf(i)' # {}
                      /\ table[i] = Backfilled(RowsOf(i)')
    BY <1>2
  <2>1. CASE i \in SavedBack /\ i # id
    BY <1>4, <1>6, <1>10, <1>16, <1>17, <2>1
  <2>2. CASE i \in SavedBack /\ i = id
    <3>1. id # NoSession /\ id \in SavedBack
      BY <1>5, <1>6, <2>2 DEF NoSession
    <3>2. RowsOf(i)' = RowsOf(id) \cup Slice(alone, 0)
      BY <1>11, <1>16, <2>2, <3>1
    <3>3. Slice(alone, 0) \in SUBSET Times
      BY <1>3, <1>5
    <3>4. QED
      BY <1>4, <1>17, <2>2, <3>1, <3>2, <3>3
  <2>3. CASE i \notin SavedBack
    <3>1. PICK k \in 1..n : i = size + k
      BY <1>15, <2>3
    <3>2. RowsOf(i)' = Slice(alone, k) /\ table[i] = Backfilled(Slice(alone, k))
      BY <1>4, <1>12, <1>16, <3>1
    <3>3. QED
      BY <1>3, <1>5, <3>1, <3>2
  <2>4. QED
    BY <2>1, <2>2, <2>3
<1>19. LinksAreRows'
  BY <1>2, <1>3, <1>8, rows' = rows DEF LinksAreRows
<1>20. DOMAIN sessions' = SavedLive' \cup SavedBack'
  <2>1. DOMAIN sessions' = 1..size + n /\ SavedLive' = SavedLive
    BY <1>2, <1>8, <1>14
  <2>2. \A i \in 1..size + n : i \in SavedLive \cup SavedBack'
    BY <1>5, <1>6, <1>9, <1>15
  <2>3. \A i \in SavedLive \cup SavedBack' : i \in 1..size + n
    <3>1. \A k \in 1..n : size + k \in 1..size + n
      BY <1>5
    <3>2. QED
      BY <1>15, <1>61, <3>1
  <2>4. QED
    BY <2>1, <2>2, <2>3
<1>21. /\ \A i \in SavedLive : sessions'[i] = sessions[i]
       /\ \A i \in SavedBack : i # id => i \in SavedBack' /\ RowsOf(i)' = RowsOf(i)
  BY <1>2, <1>10, <1>13, <1>15, <1>16
<1>22. /\ id # NoSession => id \in SavedBack
       /\ \A i \in SavedBack : i = id => i \in SavedBack' /\ RowsOf(i)' = RowsOf(i) \cup Slice(alone, 0)
  <2>1. \A i \in SavedBack : i # NoSession
    BY <1>5, <1>6 DEF NoSession
  <2>2. QED
    BY <1>4, <1>11, <1>15, <1>16, <2>1
<1>23. \A i \in SavedBack' : i \in SavedBack \/ \E k \in 1..n : RowsOf(i)' = Slice(alone, k)
  BY <1>12, <1>15, <1>16
<1>24. /\ \A t \in Times \ chunk : link'[t] = link[t]
       /\ \A t \in chunk : link'[t] # NoSession
       /\ \A t \in chunk \ alone : link'[t] = LiveAt(t) /\ LiveAt(t) \in SavedLive
       /\ \A t \in alone : LiveAt(t) = NoSession
  BY <1>2, <1>3, <1>7
<1>25. link' \in [Times -> Nat] /\ sessions' \in Seq(TableEntry)
  BY <1>2, <1>3, <1>4
<1>26. alone = Alone(chunk) /\ alone \in SUBSET Times
  BY <1>3 DEF alone
<1>27. ChunkEffect(chunk, alone)
  BY <1>1, <1>6, <1>14, <1>18, <1>19, <1>20, <1>21, <1>22, <1>23, <1>24, <1>25, <1>26, Zenon DEF ChunkEffect, id, n
<1>28. QED
  BY <1>27 DEF chunk, alone

\* A chunk takes none of the active session, and what it leaves is later.
LEMMA ChunkIsOldest ==
  ASSUME SessionTypeOK, NEW excluded
  PROVE  /\ ChunkOf(excluded) \in SUBSET Unlinked /\ ChunkOf(excluded) \cap excluded = {}
         /\ \A t \in ChunkOf(excluded), u \in Unlinked : u \notin excluded /\ u \notin ChunkOf(excluded) => t < u
<1>1. ReadBy(excluded) = Oldest(Unlinked, ChunkSize + 1) \ excluded
  BY DEF ReadBy
<1>2. ChunkOf(excluded) = Oldest(ReadBy(excluded), ChunkSize)
  BY DEF ChunkOf
<1>3. /\ Oldest(Unlinked, ChunkSize + 1) \in SUBSET Unlinked /\ Unlinked \in SUBSET Times
      /\ ChunkOf(excluded) \in SUBSET ReadBy(excluded) /\ ReadBy(excluded) \in SUBSET Times
  BY <1>1, <1>2 DEF Oldest, Unlinked, SessionTypeOK
<1>4. ChunkSize \in Nat /\ ChunkSize + 1 \in Nat
  BY SessionTablesAssumption
<1>5. ASSUME NEW t \in ChunkOf(excluded), NEW u \in Unlinked, u \notin excluded, u \notin ChunkOf(excluded)
      PROVE  t < u
  <2>1. CASE u \in ReadBy(excluded)
    BY <1>2, <1>3, <1>4, <1>5, <2>1, OldestFirst
  <2>2. CASE u \notin ReadBy(excluded)
    <3>1. u \notin Oldest(Unlinked, ChunkSize + 1) /\ t \in Oldest(Unlinked, ChunkSize + 1)
      BY <1>1, <1>3, <1>5, <2>2
    <3>2. QED
      BY <1>3, <1>4, <3>1, OldestFirst
  <2>3. QED
    BY <2>1, <2>2
<1>6. QED
  BY <1>1, <1>3, <1>5

\* A session that was backfilled ends with the last of its rows and begins with the first.
LEMMA BackfilledEnds ==
  ASSUME SessionTypeOK, BackfillIsExact, AllTogether, NEW i \in SavedBack
  PROVE  /\ RowsOf(i) \in SUBSET Times /\ RowsOf(i) \in SUBSET rows /\ sessions[i].games = RowsOf(i)
         /\ sessions[i].from \in RowsOf(i) /\ sessions[i].to \in RowsOf(i)
         /\ \A t \in RowsOf(i) : sessions[i].from <= t /\ t <= sessions[i].to
<1>1. sessions[i] = Backfilled(RowsOf(i)) /\ sessions[i].games # {}
  BY DEF BackfillIsExact, AllTogether, SavedBack
<1>2. RowsOf(i) # {} /\ RowsOf(i) \in SUBSET Times /\ RowsOf(i) \in SUBSET rows
  BY <1>1 DEF Backfilled, RowsOf, SessionTypeOK
<1>3. QED
  BY <1>1, <1>2, BackfilledFits

\* What a chunk leaves is without gaps.
LEMMA ChunkTogether ==
  ASSUME SessionTypeOK, LinksAreRows, BackfillIsExact, AllTogether, NEW excluded,
         BackfillSessionsChunk(excluded), rows' = rows, live' = live
  PROVE  AllTogether'
<1> DEFINE chunk == ChunkOf(excluded)
           alone == Alone(chunk)
           id == Joined(alone)
<1>1. ChunkEffect(chunk, alone) /\ alone \in SUBSET Times
  BY ChunkHasEffect DEF ChunkEffect
<1>2. ASSUME NEW k PROVE Together(Slice(alone, k))
  BY <1>1, SlicesOfChunk, SliceIsTogether DEF Slice
<1> HIDE DEF chunk, alone
<1>3. ASSUME NEW i \in SavedBack PROVE Together(RowsOf(i))
  <2>1. sessions[i].games = RowsOf(i)
    BY BackfilledEnds
  <2>2. QED
    BY <2>1 DEF AllTogether, SavedBack
<1>4. ASSUME id # NoSession PROVE Together(RowsOf(id) \cup Slice(alone, 0))
  <2> DEFINE first == Min(alone)
             end == sessions[id].to
  <2>1. alone # {} /\ id = JoinedSession(first)
    BY <1>4 DEF Joined
  <2>2. first \in alone /\ first \in Times /\ \A t \in alone : first <= t
    BY <1>1, <2>1, EndsOfSome
  <2>3. id \in SavedBack /\ end <= first /\ ~Separates(end, first)
    BY <1>4, <2>1, <2>2, JoinedIsLast
  <2>4. end \in RowsOf(id) /\ end \in Times /\ \A t \in RowsOf(id) : t <= end /\ t \in Times
    BY <2>3, BackfilledEnds
  <2>5. first \in Slice(alone, 0) /\ Slice(alone, 0) \in SUBSET alone
    BY <1>1, <1>4, SlicesOfChunk DEF Slice
  <2> HIDE DEF first, end, id
  <2> SUFFICES ASSUME NEW s \in RowsOf(id) \cup Slice(alone, 0),
                      NEW t \in RowsOf(id) \cup Slice(alone, 0), s < t
               PROVE  \E u \in RowsOf(id) \cup Slice(alone, 0) : u < t /\ ~Separates(u, t)
    BY DEF Together
  <2>6. s \in Nat /\ t \in Nat /\ first \in Nat /\ end \in Nat
    BY <1>1, <2>2, <2>4, <2>5 DEF Times
  <2>7. CASE t \in RowsOf(id)
    <3>1. s \in RowsOf(id)
      BY <2>2, <2>3, <2>4, <2>5, <2>6, <2>7
    <3>2. QED
      BY <1>3, <2>3, <2>7, <3>1 DEF Together
  <2>8. CASE t \notin RowsOf(id) /\ t = first
    BY <2>3, <2>4, <2>6, <2>8
  <2>9. CASE t \in Slice(alone, 0) /\ t # first
    <3>1. first < t
      BY <2>2, <2>5, <2>6, <2>9
    <3>2. PICK u \in Slice(alone, 0) : u < t /\ ~Separates(u, t)
      BY <1>2, <2>5, <2>9, <3>1 DEF Together
    <3>3. QED
      BY <3>2
  <2>10. QED
    BY <2>7, <2>8, <2>9
<1>5. ASSUME NEW i \in SavedBack' PROVE RowsOf(i)' # {} /\ Together(RowsOf(i)')
  <2>1. RowsOf(i)' # {}
    BY <1>1 DEF ChunkEffect
  <2>2. CASE i \in SavedBack /\ i # id
    <3>1. RowsOf(i)' = RowsOf(i)
      BY <1>1, <2>2 DEF ChunkEffect
    <3>2. QED
      BY <1>3, <2>1, <2>2, <3>1
  <2>3. CASE i \in SavedBack /\ i = id
    <3>1. i # NoSession
      BY <2>3, TablesTyped DEF SavedBack, NoSession
    <3>2. RowsOf(i)' = RowsOf(i) \cup Slice(alone, 0)
      BY <1>1, <2>3 DEF ChunkEffect
    <3>3. Together(RowsOf(i) \cup Slice(alone, 0))
      BY <1>4, <2>3, <3>1
    <3>4. QED
      BY <2>1, <3>2, <3>3
  <2>4. CASE i \notin SavedBack
    <3>1. PICK k : RowsOf(i)' = Slice(alone, k)
      BY <1>1, <2>4 DEF ChunkEffect
    <3>2. QED
      BY <1>2, <2>1, <3>1
  <2>5. QED
    BY <2>2, <2>3, <2>4
<1>6. ASSUME NEW i \in DOMAIN sessions' PROVE sessions'[i].games # {} /\ Together(sessions'[i].games)
  <2>1. CASE i \in SavedBack'
    <3>1. sessions'[i] = Backfilled(RowsOf(i)')
      BY <1>1, <2>1 DEF ChunkEffect
    <3>2. sessions'[i].games = RowsOf(i)'
      BY <3>1 DEF Backfilled
    <3>3. QED
      BY <1>5, <2>1, <3>2
  <2>2. CASE i \notin SavedBack'
    <3>1. i \in SavedLive /\ sessions'[i] = sessions[i]
      BY <1>1, <2>2 DEF ChunkEffect
    <3>2. QED
      BY <3>1 DEF AllTogether, SavedLive
  <2>3. QED
    BY <2>1, <2>2
<1>7. Together(live')
  BY DEF AllTogether
<1>8. QED
  BY <1>6, <1>7 DEF AllTogether, Together, Separates

\* As long as every backfill knows of every session, a chunk links no game of a session that it
\* has to leave alone, and one of a session in the table to that session.
LEMMA ChunkCounted ==
  ASSUME SessionTypeOK, LinksAreRows, BackfillIsExact, AllTogether, LiveSpans, InOrder, NEW excluded,
         BackfillSessionsChunk(excluded), CountedNow,
         UNCHANGED <<rows, live, saves, recapValid>>,
         backfill' = "running" => backfill = "running", merging' => merging,
         ChunkOf(excluded) \cap live = {},
         \A a \in SessionAt : ChunkOf(excluded) \cap saves[a].games = {}
  PROVE  CountedNow'
<1> DEFINE chunk == ChunkOf(excluded)
           alone == Alone(chunk)
<1>1. ChunkEffect(chunk, alone)
  BY ChunkHasEffect
<1> HIDE DEF chunk, alone
<1>2. live \in SUBSET Times /\ \A a \in SessionAt : saves[a].games \in SUBSET Times
  BY SavesTyped DEF SessionTypeOK, SessionAt
<1>3. ASSUME NEW i \in DOMAIN sessions', NEW t \in sessions'[i].games \cap rows
      PROVE  link'[t] \in {NoSession, i}
  <2>1. CASE i \in SavedBack'
    <3>1. sessions'[i] = Backfilled(RowsOf(i)')
      BY <1>1, <2>1 DEF ChunkEffect
    <3>2. t \in RowsOf(i)'
      BY <1>3, <3>1 DEF Backfilled
    <3>3. QED
      BY <3>2 DEF RowsOf
  <2>2. CASE i \notin SavedBack'
    <3>1. i \in SavedLive /\ i \in DOMAIN sessions /\ sessions'[i] = sessions[i]
      BY <1>1, <2>2 DEF ChunkEffect, SavedLive
    <3>2. t \in sessions[i].games /\ t \in rows /\ t \in Times /\ t \in sessions[i].from..sessions[i].to
      BY <1>3, <3>1 DEF LiveSpans, SessionTypeOK
    <3>3. CASE t \notin chunk
      <4>1. link'[t] = link[t]
        BY <1>1, <3>2, <3>3 DEF ChunkEffect
      <4>2. QED
        BY <3>1, <3>2, <4>1 DEF CountedNow
    <3>4. CASE t \in chunk
      <4> DEFINE last == LiveAt(t)
      <4>1. last # NoSession
        BY <3>1, <3>2, LiveAtIsLast
      <4>2. link'[t] = last
        BY <1>1, <3>4, <4>1 DEF ChunkEffect
      <4>3. last \in SavedLive /\ t \in sessions[last].from..sessions[last].to /\ i <= last
        BY <3>1, <3>2, <4>1, LiveAtIsLast
      <4>4. sessions[last].from \in sessions[last].games /\ last \in Nat /\ i \in Nat
        BY <3>1, <4>3, TablesTyped DEF LiveSpans, SavedLive
      <4> HIDE DEF last
      <4>5. CASE i < last
        <5>1. t < sessions[last].from
          BY <3>1, <3>2, <4>3, <4>4, <4>5 DEF InOrder, Precede
        <5>2. sessions[last].from \in Nat /\ t \in Nat
          BY <3>2, <4>3, TablesTyped DEF SavedLive, Times
        <5>3. QED
          BY <4>3, <5>1, <5>2
      <4>6. QED
        BY <4>2, <4>3, <4>4, <4>5
    <3>5. QED
      BY <3>3, <3>4
  <2>3. QED
    BY <2>1, <2>2
<1>4. SavedLive' = SavedLive /\ SessionAt' = SessionAt /\ WaitingMatches' = WaitingMatches
  BY <1>1 DEF ChunkEffect, SessionAt, WaitingMatches, MatchesAfter
<1>5. \A t \in Times \ chunk : link'[t] = link[t]
  BY <1>1 DEF ChunkEffect
<1>6. Free(live)' /\ \A a \in SessionAt : Free(saves[a].games)'
  BY <1>2, <1>5 DEF CountedNow, Free, chunk
<1>7. /\ live # {} => Remembered(live)'
      /\ \A a \in SessionAt : Remembered(saves[a].games)'
  BY <1>4 DEF CountedNow, Remembered
<1>8. QED
  BY <1>3, <1>4, <1>6, <1>7 DEF CountedNow

\* As long as nothing was imported, a chunk splits no sitting and goes on where the last one ended.
LEMMA ChunkApart ==
  ASSUME SessionTypeOK, LinksAreRows, BackfillIsExact, AllTogether, ApartNow,
         BackfillSessionsChunk(live), UNCHANGED <<rows, live, saves, merging>>
  PROVE  ApartNow'
<1> DEFINE chunk == ChunkOf(live)
           alone == Alone(chunk)
           id == Joined(alone)
           first == Min(alone)
<1>1. ChunkEffect(chunk, alone)
  BY ChunkHasEffect
<1>2. /\ chunk \in SUBSET Unlinked /\ chunk \cap live = {}
      /\ \A t \in chunk, u \in Unlinked : u \notin live /\ u \notin chunk => t < u
  BY ChunkIsOldest
<1> HIDE DEF chunk
<1>3. alone \in SUBSET chunk /\ alone \in SUBSET Times /\ Unlinked \in SUBSET Times /\ rows \in SUBSET Times
  BY <1>1 DEF ChunkEffect, Alone, Unlinked, SessionTypeOK
<1> HIDE DEF alone
<1>4. \A t \in chunk, u \in Unlinked : u \notin chunk => t < u
  <2> SUFFICES ASSUME NEW t \in chunk, NEW u \in Unlinked, u \notin chunk PROVE t < u
    OBVIOUS
  <2>1. CASE u \in live
    BY <1>2, <2>1 DEF ApartNow, Precede, Unlinked
  <2>2. QED
    BY <1>2, <2>1
<1>5. \A i \in SavedBack, t \in Unlinked : sessions[i].to < t
  BY DEF ApartNow
<1>6. ASSUME NEW i \in SavedBack
      PROVE  /\ RowsOf(i) \in SUBSET Times
             /\ sessions[i].from \in RowsOf(i) /\ sessions[i].to \in RowsOf(i)
             /\ \A t \in RowsOf(i) : sessions[i].from <= t /\ t <= sessions[i].to
  BY BackfilledEnds
<1>7. ASSUME NEW i \in SavedBack'
      PROVE  /\ RowsOf(i)' \in SUBSET Times
             /\ sessions'[i].from \in RowsOf(i)' /\ sessions'[i].to \in RowsOf(i)'
             /\ \A t \in RowsOf(i)' : sessions'[i].from <= t /\ t <= sessions'[i].to
  <2>1. sessions'[i] = Backfilled(RowsOf(i)') /\ RowsOf(i)' \in SUBSET Times /\ RowsOf(i)' # {}
    BY <1>1 DEF ChunkEffect
  <2>2. \A games \in SUBSET Times : games # {} =>
          /\ Backfilled(games).from \in games /\ Backfilled(games).to \in games
          /\ \A t \in games : Backfilled(games).from <= t /\ t <= Backfilled(games).to
    BY BackfilledFits
  <2>3. QED
    BY <2>1, <2>2
<1> DEFINE Same(i) == i \in SavedBack /\ i # id /\ RowsOf(i)' = RowsOf(i)
           Longer(i) == i \in SavedBack /\ i = id /\ id # NoSession /\ RowsOf(i)' = RowsOf(i) \cup Slice(alone, 0)
           New(i, k) == i \notin SavedBack /\ RowsOf(i)' = Slice(alone, k)
           numbers == 1..Cardinality(Fresh(alone))
<1>8. ASSUME NEW i \in SavedBack' PROVE Same(i) \/ Longer(i) \/ \E k \in numbers : New(i, k)
  <2>1. \A j \in SavedBack : j # NoSession
    BY TablesTyped DEF SavedBack, NoSession
  <2>2. QED
    BY <1>1, <2>1 DEF ChunkEffect
<1>9. \A k : Slice(alone, k) \in SUBSET alone
  BY DEF Slice
<1>10. alone # {} => first \in alone /\ first \in Times /\ \A t \in alone : first <= t
  BY <1>3, EndsOfSome
<1>11. /\ id # NoSession => /\ alone # {} /\ first \in Slice(alone, 0) /\ id \in SavedBack
                            /\ ~Separates(sessions[id].to, first)
       /\ id # NoSession => \A i \in SavedBack : sessions[i].to <= sessions[id].to
       /\ id = NoSession /\ alone # {} => \A i \in SavedBack : Separates(sessions[i].to, first)
  <2>1. first \in Times => \A i \in SavedBack : first \in Unlinked => sessions[i].to <= first
    <3>1. \A i \in SavedBack : sessions[i].to \in Times
      BY <1>6
    <3>2. QED
      BY <1>5, <3>1 DEF Times
  <2>2. alone # {} => first \in Times /\ first \in Unlinked /\ id = JoinedSession(first)
    BY <1>2, <1>3, <1>10 DEF Joined
  <2>3. id # NoSession => alone # {} /\ first \in Slice(alone, 0)
    BY <1>3, SlicesOfChunk DEF Joined
  <2> HIDE DEF first, id
  <2>4. QED
    BY <2>1, <2>2, <2>3, JoinedIsLast
<1> HIDE DEF id, first
\* Every number a slice has is that of its matches, and slices are apart.
<1>12. ASSUME NEW k, NEW l, k # l, NEW s \in Slice(alone, k), NEW t \in Slice(alone, l), s < t
       PROVE  Separates(s, t)
  <2>1. SliceOf(Fresh(alone), s) # SliceOf(Fresh(alone), t) /\ s \in alone /\ t \in alone
    BY <1>12 DEF Slice
  <2>2. Fresh(alone) \in SUBSET Begins(alone)
    BY <1>3, SlicesOfChunk
  <2>3. QED
    BY <1>3, <1>12, <2>1, <2>2, SlicesAreApart
<1>13. ASSUME NEW k \in Nat, NEW l \in Nat, k < l, NEW s \in Slice(alone, k), NEW t \in Slice(alone, l)
       PROVE  s < t
  <2>1. /\ s \in Times /\ t \in Times /\ SliceOf(Fresh(alone), s) = k
        /\ SliceOf(Fresh(alone), t) = l /\ Fresh(alone) \in SUBSET Times
    BY <1>3, SlicesOfChunk DEF Slice, Begins
  <2>2. s \in Nat /\ t \in Nat
    BY <2>1 DEF Times
  <2>3. CASE t <= s
    BY <1>13, <2>1, <2>3, SlicesGrow
  <2>4. QED
    BY <2>2, <2>3
<1>14. numbers \in SUBSET Nat /\ \A k \in numbers : 0 < k
  BY <1>3, SlicesOfChunk
<1> HIDE DEF numbers, Same, Longer, New
<1>15. \A i \in SavedBack', t \in Unlinked' : sessions'[i].to < t
  <2> SUFFICES ASSUME NEW i \in SavedBack', NEW t \in Unlinked' PROVE sessions'[i].to < t
    OBVIOUS
  <2> DEFINE end == sessions'[i].to
  <2>1. end \in RowsOf(i)' /\ RowsOf(i)' \in SUBSET Times
    BY <1>7
  <2>2. t \in Unlinked /\ t \notin chunk /\ t \in Nat
    BY <1>1, <1>3 DEF ChunkEffect, Unlinked, Times
  <2>3. end \in chunk \/ (i \in SavedBack /\ end \in RowsOf(i))
    BY <1>3, <1>8, <1>9, <2>1 DEF Same, Longer, New
  <2> SUFFICES end < t
    OBVIOUS
  <2> HIDE DEF end
  <2>4. CASE end \in chunk
    BY <1>4, <2>2, <2>4
  <2>5. CASE i \in SavedBack /\ end \in RowsOf(i)
    <3>1. end <= sessions[i].to /\ sessions[i].to < t /\ end \in Nat /\ sessions[i].to \in Nat
      BY <1>5, <1>6, <2>2, <2>5 DEF Times
    <3>2. QED
      BY <2>2, <3>1
  <2>6. QED
    BY <2>3, <2>4, <2>5
<1>16. ASSUME NEW i \in SavedBack', NEW j \in SavedBack', sessions'[i].from < sessions'[j].from
       PROVE  Separates(sessions'[i].to, sessions'[j].from)
  <2> DEFINE a == sessions'[i].from
             b == sessions'[i].to
             c == sessions'[j].from
  <2>1. /\ a \in RowsOf(i)' /\ b \in RowsOf(i)' /\ c \in RowsOf(j)' /\ a < c
        /\ RowsOf(i)' \in SUBSET Times /\ RowsOf(j)' \in SUBSET Times
        /\ \A t \in RowsOf(i)' : a <= t /\ t <= b
        /\ \A t \in RowsOf(j)' : c <= t
    BY <1>7, <1>16
  <2>2. a \in Nat /\ b \in Nat /\ c \in Nat /\ Gap \in Nat
    BY <2>1, SessionTablesAssumption DEF Times
  <2>3. ASSUME NEW s \in Nat, s <= b, Separates(b, c) PROVE Separates(s, c)
    BY <2>2, <2>3 DEF Separates
  <2>4. \A k \in SavedBack : sessions[k].from \in Nat /\ sessions[k].to \in Nat /\ sessions[k].from <= sessions[k].to
    BY <1>6 DEF Times
  <2>5. \A k \in SavedBack, t \in alone : sessions[k].to < t /\ t \in Nat
    BY <1>2, <1>3, <1>5 DEF Times
  <2> SUFFICES Separates(b, c)
    OBVIOUS
  <2> HIDE DEF a, b, c
  \* A session that was there begins where it began, and ends where it ended or in slice 0.
  <2>6. \A k \in SavedBack : Same(k) \/ Longer(k) =>
          /\ \A t \in RowsOf(k) : t \in RowsOf(k)'
          /\ \A t \in RowsOf(k)' : t \in RowsOf(k) \/ (k = id /\ id # NoSession /\ t \in Slice(alone, 0))
    BY DEF Same, Longer
  <2>7. CASE i \in SavedBack /\ j \in SavedBack
    <3>1. Same(i) \/ Longer(i)
      BY <1>8, <2>7 DEF New
    <3>2. Same(j) \/ Longer(j)
      BY <1>8, <2>7 DEF New
    <3>3. a = sessions[i].from
      <4>1. sessions[i].from \in RowsOf(i)'
        BY <1>6, <2>6, <2>7, <3>1
      <4>2. a <= sessions[i].from
        BY <2>1, <4>1
      <4>3. a \in RowsOf(i) \/ a \in alone
        BY <1>9, <2>1, <2>6, <2>7, <3>1
      <4>4. sessions[i].from <= a
        BY <1>6, <2>2, <2>4, <2>5, <2>7, <4>3
      <4>5. QED
        BY <2>2, <2>4, <2>7, <4>2, <4>4
    <3>4. c = sessions[j].from
      <4>1. sessions[j].from \in RowsOf(j)'
        BY <1>6, <2>6, <2>7, <3>2
      <4>2. c <= sessions[j].from
        BY <2>1, <4>1
      <4>3. c \in RowsOf(j) \/ c \in alone
        BY <1>9, <2>1, <2>6, <2>7, <3>2
      <4>4. sessions[j].from <= c
        BY <1>6, <2>2, <2>4, <2>5, <2>7, <4>3
      <4>5. QED
        BY <2>2, <2>4, <2>7, <4>2, <4>4
    <3>5. Separates(sessions[i].to, c)
      BY <2>1, <2>7, <3>3, <3>4 DEF ApartNow
    <3>6. b \in RowsOf(i)
      <4>1. CASE i = id /\ id # NoSession
        <5>1. sessions[j].to <= sessions[i].to /\ sessions[j].from <= sessions[j].to
          BY <1>11, <2>4, <2>7, <4>1
        <5>2. QED
          BY <2>2, <2>4, <2>7, <3>4, <3>5, <5>1 DEF Separates
      <4>2. QED
        BY <2>1, <2>6, <2>7, <3>1, <4>1
    <3>7. b <= sessions[i].to
      BY <1>6, <2>7, <3>6
    <3>8. QED
      BY <2>2, <2>4, <2>7, <3>5, <3>7 DEF Separates
  <2>8. CASE i \in SavedBack /\ j \notin SavedBack
    <3>1. PICK l \in numbers : New(j, l)
      BY <1>8, <2>8 DEF Same, Longer
    <3>2. c \in Slice(alone, l) /\ c \in alone /\ alone # {} /\ l # 0 /\ 0 < l /\ l \in Nat
      BY <1>9, <1>14, <2>1, <3>1 DEF New
    <3>3. first <= c /\ first \in Nat
      BY <1>10, <3>2 DEF Times
    <3>4. Separates(sessions[i].to, c)
      <4>1. CASE id = NoSession
        <5>1. Separates(sessions[i].to, first)
          BY <1>11, <2>8, <3>2, <4>1
        <5>2. QED
          BY <2>2, <2>4, <2>8, <3>3, <5>1 DEF Separates
      <4>2. CASE id # NoSession
        <5>1. first \in Slice(alone, 0)
          BY <1>11, <4>2
        <5>2. first < c
          BY <1>13, <3>2, <5>1
        <5>3. Separates(first, c)
          BY <1>12, <3>2, <5>1, <5>2
        <5>4. sessions[i].to < first
          BY <2>5, <2>8, <1>10, <3>2
        <5>5. QED
          BY <2>2, <2>4, <2>8, <3>3, <5>3, <5>4 DEF Separates
      <4>3. QED
        BY <4>1, <4>2
    <3>5. Same(i) \/ Longer(i)
      BY <1>8, <2>8 DEF New
    <3>6. b \in RowsOf(i) \/ b \in Slice(alone, 0)
      BY <2>1, <2>6, <2>8, <3>5
    <3>7. CASE b \in RowsOf(i)
      <4>1. b <= sessions[i].to
        BY <1>6, <2>8, <3>7
      <4>2. QED
        BY <2>2, <2>4, <2>8, <3>4, <4>1 DEF Separates
    <3>8. CASE b \in Slice(alone, 0)
      <4>1. b < c
        BY <1>13, <3>2, <3>8
      <4>2. QED
        BY <1>12, <3>2, <3>8, <4>1
    <3>9. QED
      BY <3>6, <3>7, <3>8
  <2>9. CASE i \notin SavedBack /\ j \in SavedBack
    <3>1. PICK k \in numbers : New(i, k)
      BY <1>8, <2>9 DEF Same, Longer
    <3>2. a \in alone
      BY <1>9, <2>1, <3>1 DEF New
    <3>3. Same(j) \/ Longer(j)
      BY <1>8, <2>9 DEF New
    <3>4. sessions[j].from \in RowsOf(j)'
      BY <1>6, <2>6, <2>9, <3>3
    <3>5. c <= sessions[j].from /\ sessions[j].from <= sessions[j].to /\ sessions[j].to < a
      BY <2>1, <2>4, <2>5, <2>9, <3>2, <3>4
    <3>6. QED
      BY <2>1, <2>2, <2>4, <2>9, <3>5
  <2>10. CASE i \notin SavedBack /\ j \notin SavedBack
    <3>1. PICK k \in numbers : New(i, k)
      BY <1>8, <2>10 DEF Same, Longer
    <3>2. PICK l \in numbers : New(j, l)
      BY <1>8, <2>10 DEF Same, Longer
    <3>3. /\ a \in Slice(alone, k) /\ b \in Slice(alone, k) /\ c \in Slice(alone, l)
          /\ k \in Nat /\ l \in Nat
      BY <1>14, <2>1, <3>1, <3>2 DEF New
    <3>4. k # l
      <4>1. CASE k = l
        <5>1. a \in RowsOf(j)'
          BY <2>1, <3>1, <3>2, <4>1 DEF New
        <5>2. QED
          BY <2>1, <2>2, <5>1
      <4>2. QED
        BY <4>1
    <3>5. ~(l < k)
      BY <1>13, <2>1, <2>2, <3>3
    <3>6. k < l
      BY <3>3, <3>4, <3>5
    <3>7. b < c
      BY <1>13, <3>3, <3>6
    <3>8. QED
      BY <1>12, <3>3, <3>4, <3>7
  <2>11. QED
    BY <2>7, <2>8, <2>9, <2>10
<1>17. WaitingMatches' = WaitingMatches
  BY DEF WaitingMatches, MatchesAfter
<1>18. QED
  BY <1>15, <1>16, <1>17 DEF ApartNow, Precede, Separates

-----------------------------------------------------------------------------
\* The queue of what waits to be saved, and what a job more or less in it changes.

SessionsIn(jobs) == {a \in DOMAIN jobs : ~IsMatch(jobs[a])}
MatchesIn(jobs, a) == {t \in Times : \E d \in DOMAIN jobs : a < d /\ jobs[d] = MatchSave(t)}

LEMMA QueueOfSaves ==
  /\ SessionAt = SessionsIn(saves) /\ SessionAt' = SessionsIn(saves')
  /\ WaitingMatches = MatchesIn(saves, 0) /\ WaitingMatches' = MatchesIn(saves', 0)
  /\ \A a : MatchesAfter(a) = MatchesIn(saves, a)
  /\ \A a : MatchesAfter(a)' = MatchesIn(saves', a)
  BY DEF SessionAt, SessionsIn, WaitingMatches, MatchesAfter, MatchesIn, IsMatch

LEMMA SaveKinds ==
  /\ \A t \in Times : MatchSave(t) \in SaveEntry /\ IsMatch(MatchSave(t)) /\ MatchSave(t).games = {t}
  /\ \A games \in SUBSET Times, to \in Times :
       /\ SessionSave(games, to) \in SaveEntry /\ ~IsMatch(SessionSave(games, to))
       /\ SessionSave(games, to).games = games /\ SessionSave(games, to).to = to
  BY DEF MatchSave, SessionSave, IsMatch, SaveEntry, Times, NoSession

\* One job more.
LEMMA QueueLonger ==
  ASSUME NEW jobs \in Seq(SaveEntry), NEW save \in SaveEntry
  PROVE  LET longer == Append(jobs, save)
             n == Len(jobs)
         IN /\ longer \in Seq(SaveEntry) /\ n \in Nat
            /\ DOMAIN jobs = 1..n /\ DOMAIN longer = (1..n) \cup {n + 1}
            /\ \A a \in 1..n : longer[a] = jobs[a]
            /\ longer[n + 1] = save
            /\ SessionsIn(longer) = SessionsIn(jobs) \cup (IF IsMatch(save) THEN {} ELSE {n + 1})
            /\ \A a \in 0..n :
                 /\ MatchesIn(jobs, a) \in SUBSET MatchesIn(longer, a)
                 /\ \A t \in MatchesIn(longer, a) : t \in MatchesIn(jobs, a) \/ save = MatchSave(t)
                 /\ \A t \in Times : save = MatchSave(t) => t \in MatchesIn(longer, a)
            /\ MatchesIn(longer, n + 1) = {}
<1> DEFINE longer == Append(jobs, save)
           n == Len(jobs)
<1>1. /\ longer \in Seq(SaveEntry) /\ n \in Nat /\ DOMAIN jobs = 1..n
      /\ DOMAIN longer = (1..n) \cup {n + 1} /\ \A a \in 1..n : longer[a] = jobs[a]
      /\ longer[n + 1] = save
  OBVIOUS
<1> HIDE DEF longer, n
<1>2. SessionsIn(longer) = SessionsIn(jobs) \cup (IF IsMatch(save) THEN {} ELSE {n + 1})
  BY <1>1 DEF SessionsIn
<1>3. ASSUME NEW a \in 0..n
      PROVE  /\ MatchesIn(jobs, a) \in SUBSET MatchesIn(longer, a)
             /\ \A t \in MatchesIn(longer, a) : t \in MatchesIn(jobs, a) \/ save = MatchSave(t)
             /\ \A t \in Times : save = MatchSave(t) => t \in MatchesIn(longer, a)
  <2>1. \A t \in MatchesIn(jobs, a) : t \in MatchesIn(longer, a)
    BY <1>1 DEF MatchesIn
  <2>2. \A t \in MatchesIn(longer, a) : t \in MatchesIn(jobs, a) \/ save = MatchSave(t)
    BY <1>1 DEF MatchesIn
  <2>3. \A t \in Times : save = MatchSave(t) => t \in MatchesIn(longer, a)
    BY <1>1 DEF MatchesIn
  <2>4. QED
    BY <2>1, <2>2, <2>3
<1>4. MatchesIn(longer, n + 1) = {}
  BY <1>1 DEF MatchesIn
<1>5. QED
  BY <1>1, <1>2, <1>3, <1>4 DEF longer, n

\* One job less.
LEMMA QueueShorter ==
  ASSUME NEW jobs \in Seq(SaveEntry), jobs # <<>>
  PROVE  LET rest == Tail(jobs)
             n == Len(rest)
         IN /\ rest \in Seq(SaveEntry) /\ n \in Nat /\ Head(jobs) = jobs[1]
            /\ DOMAIN jobs = 1..(n + 1) /\ DOMAIN rest = 1..n
            /\ \A a \in 1..n : rest[a] = jobs[a + 1]
            /\ \A a \in SessionsIn(rest) : a + 1 \in SessionsIn(jobs) /\ a \in 1..n
            /\ \A a \in 0..n : MatchesIn(rest, a) = MatchesIn(jobs, a + 1)
            /\ \A t \in MatchesIn(jobs, 0) : t \in MatchesIn(jobs, 1) \/ jobs[1] = MatchSave(t)
            /\ MatchesIn(jobs, 1) \in SUBSET MatchesIn(jobs, 0)
            /\ \A t \in Times : jobs[1] = MatchSave(t) => t \in MatchesIn(jobs, 0)
<1> DEFINE rest == Tail(jobs)
           n == Len(rest)
<1>1. /\ rest \in Seq(SaveEntry) /\ n \in Nat /\ Head(jobs) = jobs[1]
      /\ DOMAIN jobs = 1..(n + 1) /\ DOMAIN rest = 1..n
      /\ \A a \in 1..n : rest[a] = jobs[a + 1]
  OBVIOUS
<1> HIDE DEF rest, n
<1>2. \A a \in SessionsIn(rest) : a + 1 \in SessionsIn(jobs) /\ a \in 1..n
  BY <1>1 DEF SessionsIn
<1>3. ASSUME NEW a \in 0..n PROVE MatchesIn(rest, a) = MatchesIn(jobs, a + 1)
  <2>1. \A t \in MatchesIn(rest, a) : t \in MatchesIn(jobs, a + 1)
    BY <1>1 DEF MatchesIn
  <2>2. \A t \in MatchesIn(jobs, a + 1) : t \in MatchesIn(rest, a)
    <3> SUFFICES ASSUME NEW t \in Times, NEW d \in 1..(n + 1), a + 1 < d, jobs[d] = MatchSave(t)
                 PROVE  \E e \in 1..n : a < e /\ rest[e] = MatchSave(t)
      BY <1>1 DEF MatchesIn
    <3>1. d - 1 \in 1..n /\ a < d - 1 /\ rest[d - 1] = jobs[(d - 1) + 1] /\ (d - 1) + 1 = d
      BY <1>1
    <3>2. QED
      BY <3>1
  <2>3. QED
    BY <2>1, <2>2
<1>4. \A t \in MatchesIn(jobs, 0) : t \in MatchesIn(jobs, 1) \/ jobs[1] = MatchSave(t)
  <2>1. \A d \in 1..(n + 1) : 1 < d \/ d = 1
    BY <1>1
  <2>2. QED
    BY <1>1, <2>1 DEF MatchesIn
<1>5. \A t \in MatchesIn(jobs, 1) : t \in MatchesIn(jobs, 0)
  BY <1>1 DEF MatchesIn
<1>6. \A t \in Times : jobs[1] = MatchSave(t) => t \in MatchesIn(jobs, 0)
  BY <1>1 DEF MatchesIn
<1>7. QED
  BY <1>1, <1>2, <1>3, <1>4, <1>5, <1>6 DEF rest, n

-----------------------------------------------------------------------------
\* A match ends.

\* The session that is on, if it has become inactive, and the match are the last in the queue.
PlayQueued(n) ==
  /\ saves' \in Seq(SaveEntry) /\ n \in Nat /\ DOMAIN saves = 1..n
  /\ \A a \in 1..n : a \in DOMAIN saves' /\ saves'[a] = saves[a]
  /\ \A a \in DOMAIN saves' :
       \/ a \in 1..n
       \/ Inactive /\ a = n + 1 /\ saves'[a] = SessionSave(live, Max(live))
       \/ a \in Nat /\ n < a /\ (\A b \in DOMAIN saves' : b <= a) /\ saves'[a] = MatchSave(now)
  /\ \A a \in SessionAt' :
       \/ a \in SessionAt /\ a \in 1..n /\ saves'[a] = saves[a]
       \/ Inactive /\ a = n + 1 /\ saves'[a] = SessionSave(live, Max(live))
  /\ \A a \in 0..n :
       /\ MatchesAfter(a) \in SUBSET MatchesAfter(a)' /\ now \in MatchesAfter(a)'
       /\ \A t \in MatchesAfter(a)' : t \in MatchesAfter(a) \/ t = now
  /\ Inactive => MatchesAfter(n + 1)' = {now}

LEMMA PlayQueues ==
  ASSUME SessionTypeOK, Play, NEW n, n = Len(saves)
  PROVE  PlayQueued(n)
<1> DEFINE session == SessionSave(live, Max(live))
           jobs == IF Inactive THEN Append(saves, session) ELSE saves
           match == MatchSave(now)
<1>1. saves \in Seq(SaveEntry) /\ n \in Nat /\ DOMAIN saves = 1..n /\ now \in Times
  BY SavesTyped DEF SessionTypeOK
<1>2. Inactive => session \in SaveEntry /\ ~IsMatch(session)
  <2>1. live # {} => Max(live) \in Times /\ live \in SUBSET Times
    BY EndsOfSome DEF SessionTypeOK
  <2>2. QED
    BY <2>1, SaveKinds DEF Inactive
<1>3. match \in SaveEntry /\ IsMatch(match) /\ match.games = {now}
  BY <1>1, SaveKinds
<1> HIDE DEF session, match
<1>4. saves' = Append(jobs, match)
  <2>1. saves' = saves \o (IF Inactive THEN <<session>> ELSE <<>>) \o <<match>>
    BY DEF Play, session, match
  <2>2. CASE Inactive
    <3>1. saves' = saves \o <<session>> \o <<match>>
      BY <2>1, <2>2
    <3>2. jobs \in Seq(SaveEntry) /\ jobs = saves \o <<session>>
      BY <1>1, <1>2, <2>2
    <3> HIDE DEF jobs
    <3>3. jobs \in Seq(SaveEntry)
      BY <3>2
    <3>4. Append(jobs, match) = jobs \o <<match>>
      BY <1>3, <3>3
    <3>5. QED
      BY <3>1, <3>2, <3>4
  <2>3. CASE ~Inactive
    <3>1. saves' = saves \o <<>> \o <<match>>
      BY <2>1, <2>3
    <3>2. QED
      BY <1>1, <1>3, <2>3, <3>1
  <2>4. QED
    BY <2>2, <2>3
<1>5. /\ jobs \in Seq(SaveEntry) /\ n <= Len(jobs) /\ Len(jobs) \in Nat
      /\ (Inactive /\ Len(jobs) = n + 1) \/ (~Inactive /\ Len(jobs) = n)
      /\ \A a \in 1..n : jobs[a] = saves[a] /\ (a \in SessionsIn(jobs) => a \in SessionsIn(saves))
      /\ Inactive => jobs[n + 1] = session
      /\ \A a \in 0..n : MatchesIn(jobs, a) = MatchesIn(saves, a)
      /\ Inactive => MatchesIn(jobs, n + 1) = {}
  <2>1. CASE Inactive
    <3>1. jobs = Append(saves, session) /\ Len(jobs) = n + 1 /\ jobs \in Seq(SaveEntry)
      BY <1>1, <1>2, <2>1
    <3>2. \A t \in Times : session # MatchSave(t)
      BY <1>2, <2>1, SaveKinds
    <3>3. MatchesIn(jobs, n + 1) = {}
      BY <1>1, <1>2, <2>1, <3>1, QueueLonger
    <3>4. \A a \in 1..n : jobs[a] = saves[a] /\ (a \in SessionsIn(jobs) => a \in SessionsIn(saves))
      BY <1>1, <1>2, <2>1, <3>1, QueueLonger DEF SessionsIn
    <3>5. jobs[n + 1] = session
      BY <1>1, <1>2, <2>1, <3>1
    <3>6. \A a \in 0..n : MatchesIn(jobs, a) = MatchesIn(saves, a)
      <4>1. \A a \in 0..n :
              /\ MatchesIn(saves, a) \in SUBSET MatchesIn(jobs, a)
              /\ \A t \in MatchesIn(jobs, a) : t \in MatchesIn(saves, a) \/ session = MatchSave(t)
        BY <1>1, <1>2, <2>1, <3>1, QueueLonger
      <4>2. \A a : MatchesIn(jobs, a) \in SUBSET Times
        BY DEF MatchesIn
      <4> HIDE DEF jobs
      <4>3. QED
        BY <3>2, <4>1, <4>2
    <3> HIDE DEF jobs
    <3>7. QED
      BY <1>1, <2>1, <3>1, <3>3, <3>4, <3>5, <3>6
  <2>2. CASE ~Inactive
    <3>1. jobs = saves
      BY <2>2
    <3> HIDE DEF jobs
    <3>2. /\ jobs \in Seq(SaveEntry) /\ n <= Len(jobs) /\ Len(jobs) \in Nat /\ Len(jobs) = n
      BY <1>1, <3>1
    <3>3. /\ \A a \in 1..n : jobs[a] = saves[a] /\ (a \in SessionsIn(jobs) => a \in SessionsIn(saves))
          /\ \A a \in 0..n : MatchesIn(jobs, a) = MatchesIn(saves, a)
      BY <3>1, Zenon
    <3>4. QED
      BY <2>2, <3>2, <3>3
  <2>3. QED
    BY <2>1, <2>2
<1>51. \A t : MatchSave(t).games = {t}
  BY DEF MatchSave
<1> DEFINE m == Len(jobs)
<1>6. /\ saves' \in Seq(SaveEntry)
      /\ DOMAIN jobs = 1..m /\ DOMAIN saves' = (1..m) \cup {m + 1}
      /\ \A a \in 1..m : saves'[a] = jobs[a]
      /\ saves'[m + 1] = match
      /\ SessionsIn(saves') = SessionsIn(jobs)
      /\ \A a \in 0..m :
           /\ MatchesIn(jobs, a) \in SUBSET MatchesIn(saves', a)
           /\ \A t \in MatchesIn(saves', a) : t \in MatchesIn(jobs, a) \/ match = MatchSave(t)
           /\ now \in MatchesIn(saves', a)
  <2> HIDE DEF jobs
  <2>1. match = MatchSave(now)
    BY DEF match
  <2>2. /\ saves' \in Seq(SaveEntry)
        /\ DOMAIN jobs = 1..m /\ DOMAIN saves' = (1..m) \cup {m + 1}
        /\ \A a \in 1..m : saves'[a] = jobs[a]
        /\ saves'[m + 1] = match
        /\ SessionsIn(saves') = SessionsIn(jobs) \cup (IF IsMatch(match) THEN {} ELSE {m + 1})
        /\ \A a \in 0..m :
             /\ MatchesIn(jobs, a) \in SUBSET MatchesIn(saves', a)
             /\ \A t \in MatchesIn(saves', a) : t \in MatchesIn(jobs, a) \/ match = MatchSave(t)
             /\ \A t \in Times : match = MatchSave(t) => t \in MatchesIn(saves', a)
    <3>1. jobs \in Seq(SaveEntry) /\ match \in SaveEntry
      BY <1>3, <1>5
    <3>2. LET longer == Append(jobs, match)
              k == Len(jobs)
          IN /\ longer \in Seq(SaveEntry) /\ k \in Nat
             /\ DOMAIN jobs = 1..k /\ DOMAIN longer = (1..k) \cup {k + 1}
             /\ \A a \in 1..k : longer[a] = jobs[a]
             /\ longer[k + 1] = match
             /\ SessionsIn(longer) = SessionsIn(jobs) \cup (IF IsMatch(match) THEN {} ELSE {k + 1})
             /\ \A a \in 0..k :
                  /\ MatchesIn(jobs, a) \in SUBSET MatchesIn(longer, a)
                  /\ \A t \in MatchesIn(longer, a) : t \in MatchesIn(jobs, a) \/ match = MatchSave(t)
                  /\ \A t \in Times : match = MatchSave(t) => t \in MatchesIn(longer, a)
             /\ MatchesIn(longer, k + 1) = {}
      BY <3>1, QueueLonger, Zenon
    <3>3. QED
      BY <1>4, <3>2, Zenon
  <2> HIDE DEF m
  <2>3. SessionsIn(saves') = SessionsIn(jobs)
    BY <1>3, <2>2
  <2>4. QED
    BY <1>1, <2>1, <2>2, <2>3
<1>7. \A t : match = MatchSave(t) => t = now
  BY <1>3, <1>51
<1> HIDE DEF jobs, m
<1>8. m \in Nat /\ n <= m /\ ((Inactive /\ m = n + 1) \/ (~Inactive /\ m = n))
  BY <1>1, <1>5 DEF m
<1>9. \A a \in 1..n : a \in DOMAIN saves' /\ saves'[a] = saves[a]
  BY <1>1, <1>5, <1>6, <1>8
<1>10. ASSUME NEW a \in DOMAIN saves'
       PROVE  \/ a \in 1..n
              \/ Inactive /\ a = n + 1 /\ saves'[a] = session
              \/ a \in Nat /\ n < a /\ (\A b \in DOMAIN saves' : b <= a) /\ saves'[a] = MatchSave(now)
  <2>1. CASE a = m + 1
    <3>1. a \in Nat /\ n < a /\ \A b \in DOMAIN saves' : b <= a
      BY <1>1, <1>6, <1>8, <2>1
    <3>2. QED
      BY <1>6, <2>1, <3>1 DEF match
  <2>2. CASE a \in 1..m
    BY <1>1, <1>5, <1>6, <1>8, <2>2
  <2>3. QED
    BY <1>6, <2>1, <2>2
<1>11. ASSUME NEW a \in SessionAt'
       PROVE  \/ a \in SessionAt /\ a \in 1..n /\ saves'[a] = saves[a]
              \/ Inactive /\ a = n + 1 /\ saves'[a] = session
  <2>1. a \in SessionsIn(jobs) /\ a \in 1..m
    BY <1>6, QueueOfSaves DEF SessionsIn
  <2>2. CASE a \in 1..n
    BY <1>5, <1>9, <2>1, <2>2, QueueOfSaves
  <2>3. QED
    BY <1>1, <1>5, <1>6, <1>8, <2>1, <2>2
<1>12. ASSUME NEW a \in 0..n
       PROVE  /\ MatchesAfter(a) \in SUBSET MatchesAfter(a)' /\ now \in MatchesAfter(a)'
              /\ \A t \in MatchesAfter(a)' : t \in MatchesAfter(a) \/ t = now
  <2>1. a \in 0..m
    BY <1>1, <1>8
  <2>2. MatchesAfter(a) = MatchesIn(jobs, a) /\ MatchesAfter(a)' = MatchesIn(saves', a)
    BY <1>5, QueueOfSaves
  <2>3. QED
    BY <1>6, <1>7, <2>1, <2>2
<1>13. Inactive => MatchesAfter(n + 1)' = {now}
  <2>1. SUFFICES ASSUME Inactive PROVE MatchesIn(saves', n + 1) = {now}
    BY QueueOfSaves
  <2>2. m = n + 1 /\ m \in 0..m /\ MatchesIn(jobs, m) = {}
    BY <1>1, <1>5, <1>8, <2>1
  <2>3. QED
    BY <1>6, <1>7, <2>2
<1>14. QED
  BY <1>1, <1>6, <1>9, <1>10, <1>11, <1>12, <1>13 DEF PlayQueued, session

LEMMA PlayKeeps ==
  ASSUME SessionInv, Play
  PROVE  SessionInv'
<1>1. /\ SessionTypeOK /\ LinksAreRows /\ BackfillIsExact /\ SavesAreWhole /\ AllTogether
      /\ LiveSpans /\ InTime /\ InOrder /\ StillToSave
  BY DEF SessionInv
<1>2. PICK n : n = Len(saves)
  OBVIOUS
<1>3. PlayQueued(n)
  BY <1>1, <1>2, PlayQueues
<1> USE DEF PlayQueued
<1>4. /\ UNCHANGED <<now, rows, link, sessions, merging, imported, backfill>>
      /\ ~played /\ played' = TRUE /\ now \notin rows /\ now \in Times /\ now \in Nat
  BY <1>1 DEF Play, rowVars, mergeState, SessionTypeOK, Times
<1>5. live' = IF Inactive THEN {now} ELSE live \cup {now}
  BY DEF Play
<1>6. /\ now \in live' /\ live' \in SUBSET Times /\ live \in SUBSET Times
      /\ \A t \in live' : t = now \/ t \in live
      /\ ~Inactive => \A t \in live : t \in live'
  BY <1>1, <1>4, <1>5 DEF SessionTypeOK
<1>7. Inactive => live' = {now} /\ live # {} /\ Max(live) \in Times /\ \A t \in live : t <= Max(live)
  BY <1>5, <1>6, EndsOfSome DEF Inactive
<1>8. MatchSave(now).games = {now} /\ IsMatch(MatchSave(now)) /\ SessionSave(live, Max(live)).games = live
  BY <1>4, SaveKinds DEF SessionSave
<1>9. Inactive => ~IsMatch(SessionSave(live, Max(live))) /\ SessionSave(live, Max(live)).to = Max(live)
  BY <1>6, <1>7, SaveKinds
<1>10. \A S \in SUBSET Times : Past(S) => \A t \in S : t < now
  BY <1>4 DEF Past, Times
<1>11. /\ \A t \in live : t < now
       /\ \A a \in 1..n : \A t \in saves[a].games : t < now
       /\ \A i \in SavedLive : \A t \in sessions[i].games : t < now
       /\ \A a \in 1..n : saves[a].games \in SUBSET Times
       /\ \A t \in rows : t < now
  <2>1. \A a \in 1..n : saves[a].games \in SUBSET Times
    BY <1>1, <1>3, SavesTyped
  <2>2. \A i \in SavedLive : sessions[i].games \in SUBSET Times
    BY <1>1, TablesTyped DEF SavedLive
  <2>3. \A t \in rows : t <= now /\ t # now /\ t \in Nat
    BY <1>1, <1>4 DEF InTime, SessionTypeOK, Times
  <2>4. \A t \in rows : t < now
    BY <1>4, <2>3
  <2>5. Past(live) /\ (\A a \in 1..n : Past(saves[a].games)) /\ \A i \in SavedLive : Past(sessions[i].games)
    BY <1>1, <1>3 DEF InTime
  <2>6. QED
    BY <1>6, <1>10, <2>1, <2>2, <2>4, <2>5
<1> HIDE DEF PlayQueued
<1>12. SessionTypeOK'
  <2>1. saves' \in Seq(SaveEntry)
    BY <1>3 DEF PlayQueued
  <2>2. /\ recapValid' = (recapValid \/ Inactive)
        /\ exposed' = (exposed \/ (Inactive /\ backfill = "running"))
    BY DEF Play
  <2>3. recapValid' \in BOOLEAN /\ exposed' \in BOOLEAN
    BY <2>2
  <2>4. QED
    BY <1>1, <1>4, <1>6, <2>1, <2>3 DEF SessionTypeOK, SaveEntry, TableEntry
<1>13. LinksAreRows' /\ BackfillIsExact' /\ LiveSpans'
  BY <1>1, <1>4 DEF LinksAreRows, BackfillIsExact, LiveSpans, SavedLive, RowsOf
<1>14. SavesAreWhole'
  <2> SUFFICES ASSUME NEW a \in DOMAIN saves'
               PROVE  IF IsMatch(saves'[a]) THEN \E t \in Times : saves'[a] = MatchSave(t)
                      ELSE /\ saves'[a].games # {} /\ Together(saves'[a].games)
                           /\ \A t \in saves'[a].games : t <= saves'[a].to
    BY DEF SavesAreWhole, IsMatch
  <2>1. CASE a \in 1..n
    BY <1>1, <1>3, <2>1 DEF SavesAreWhole, PlayQueued
  <2>2. CASE Inactive /\ a = n + 1 /\ saves'[a] = SessionSave(live, Max(live))
    BY <1>1, <1>7, <1>8, <1>9, <2>2 DEF AllTogether
  <2>3. CASE saves'[a] = MatchSave(now)
    BY <1>4, <1>8, <2>3
  <2>4. QED
    BY <1>3, <2>1, <2>2, <2>3 DEF PlayQueued
<1>15. AllTogether'
  <2>1. Together(live')
    <3>1. CASE Inactive
      BY <1>4, <1>7, <3>1 DEF Together
    <3>2. CASE ~Inactive
      <4> SUFFICES ASSUME NEW s \in live', NEW t \in live', s < t
                   PROVE  \E u \in live' : u < t /\ ~Separates(u, t)
        BY DEF Together
      <4>1. CASE t = now
        <5>1. s \in live
          BY <1>4, <1>6, <4>1
        <5>2. Max(live) \in live /\ ~Separates(Max(live), now)
          BY <1>6, <3>2, <5>1, EndsOfSome DEF Inactive
        <5>3. QED
          BY <1>6, <1>11, <3>2, <4>1, <5>2
      <4>2. CASE t \in live
        <5>1. s \in live
          <6>1. CASE s = now
            BY <1>4, <1>6, <1>11, <4>2, <6>1 DEF Times
          <6>2. QED
            BY <1>6, <6>1
        <5>2. PICK u \in live : u < t /\ ~Separates(u, t)
          BY <1>1, <4>2, <5>1 DEF AllTogether, Together
        <5>3. QED
          BY <1>6, <3>2, <5>2
      <4>3. QED
        BY <1>6, <4>1, <4>2
    <3>3. QED
      BY <3>1, <3>2
  <2>2. QED
    BY <1>1, <1>4, <2>1 DEF AllTogether
<1>16. InTime'
  <2>1. \A t \in rows' : t <= now'
    BY <1>1, <1>4 DEF InTime
  <2>2. \A t \in live' : t <= now
    BY <1>4, <1>6, <1>11 DEF Times
  <2>3. \A i \in SavedLive' : \A t \in sessions'[i].games : t <= now
    <3>1. SavedLive' = SavedLive
      BY <1>4 DEF SavedLive
    <3>2. QED
      BY <1>1, <1>4, <3>1 DEF InTime, Past
  <2>4. \A a \in DOMAIN saves' : \A t \in saves'[a].games : t <= now
    <3> SUFFICES ASSUME NEW a \in DOMAIN saves', NEW t \in saves'[a].games PROVE t <= now
      OBVIOUS
    <3>1. CASE a \in 1..n
      BY <1>1, <1>3, <3>1 DEF InTime, Past, PlayQueued
    <3>2. CASE Inactive /\ a = n + 1 /\ saves'[a] = SessionSave(live, Max(live))
      BY <1>1, <1>8, <3>2 DEF InTime, Past
    <3>3. CASE saves'[a] = MatchSave(now)
      BY <1>4, <1>8, <3>3
    <3>4. QED
      BY <1>3, <3>1, <3>2, <3>3 DEF PlayQueued
  <2>5. QED
    BY <1>4, <2>1, <2>2, <2>3, <2>4 DEF InTime, Past

<1>17. InOrder'
  <2>1. SavedLive' = SavedLive /\ sessions' = sessions
    BY <1>4 DEF SavedLive
  <2>2. \A i, j \in SavedLive : i < j => Precede(sessions[i].games, sessions[j].games)
    BY <1>1 DEF InOrder
  <2>3. \A i \in SavedLive : Precede(sessions[i].games, live')
    BY <1>1, <1>6, <1>11 DEF InOrder, Precede
  <2>4. \A a \in SessionAt', i \in SavedLive : Precede(sessions[i].games, saves'[a].games)
    BY <1>1, <1>3, <1>8 DEF InOrder, PlayQueued
  <2>5. ASSUME NEW a \in SessionAt' PROVE Precede(saves'[a].games, live')
    <3>1. CASE a \in SessionAt /\ a \in 1..n /\ saves'[a] = saves[a]
      BY <1>1, <1>6, <1>11, <3>1 DEF InOrder, Precede
    <3>2. CASE Inactive /\ a = n + 1 /\ saves'[a] = SessionSave(live, Max(live))
      BY <1>7, <1>8, <1>11, <3>2 DEF Precede
    <3>3. QED
      BY <1>3, <3>1, <3>2 DEF PlayQueued
  <2>6. ASSUME NEW a \in DOMAIN saves', NEW b \in DOMAIN saves', a < b,
               IsMatch(saves'[a]) <=> IsMatch(saves'[b])
        PROVE  Precede(saves'[a].games, saves'[b].games)
    <3>1. CASE b \in 1..n
      <4>1. a \in 1..n
        BY <1>3, <2>6, <3>1 DEF PlayQueued
      <4>2. QED
        BY <1>1, <1>3, <2>6, <3>1, <4>1 DEF InOrder, PlayQueued
    <3>2. CASE Inactive /\ b = n + 1 /\ saves'[b] = SessionSave(live, Max(live))
      <4>1. ~IsMatch(saves'[a])
        BY <1>9, <2>6, <3>2
      <4>2. a \in SessionAt' /\ a # n + 1
        BY <1>3, <2>6, <3>2, <4>1 DEF SessionAt, IsMatch, PlayQueued
      <4>3. a \in SessionAt /\ saves'[a] = saves[a]
        BY <1>3, <4>2 DEF PlayQueued
      <4>4. QED
        BY <1>1, <1>8, <3>2, <4>3 DEF InOrder
    <3>3. CASE n < b /\ saves'[b] = MatchSave(now) /\ \A c \in DOMAIN saves' : c <= b
      <4>1. IsMatch(saves'[a])
        BY <1>8, <2>6, <3>3
      <4>2. CASE a \in 1..n
        BY <1>3, <1>8, <1>11, <3>3, <4>2 DEF Precede, PlayQueued
      <4>3. CASE Inactive /\ a = n + 1 /\ saves'[a] = SessionSave(live, Max(live))
        BY <1>9, <4>1, <4>3
      <4>4. CASE a \in Nat /\ \A c \in DOMAIN saves' : c <= a
        <5>1. b <= a /\ b \in Nat
          BY <1>3, <4>4 DEF PlayQueued
        <5>2. QED
          BY <2>6, <4>4, <5>1
      <4>5. QED
        BY <1>3, <4>2, <4>3, <4>4 DEF PlayQueued
    <3>4. QED
      BY <1>3, <3>1, <3>2, <3>3 DEF PlayQueued
  <2>7. QED
    BY <2>1, <2>2, <2>3, <2>4, <2>5, <2>6 DEF InOrder, IsMatch
<1>18. StillToSave'
  <2> SUFFICES ASSUME NEW a \in SessionAt'
               PROVE  /\ live' \subseteq MatchesAfter(a)'
                      /\ \A b \in SessionAt' : a < b => saves'[b].games \subseteq MatchesAfter(a)'
                      /\ saves'[a].games \cap MatchesAfter(a)' = {}
    BY DEF StillToSave
  <2>1. CASE a \in SessionAt /\ a \in 1..n /\ saves'[a] = saves[a]
    <3>1. /\ MatchesAfter(a) \in SUBSET MatchesAfter(a)' /\ now \in MatchesAfter(a)'
          /\ \A t \in MatchesAfter(a)' : t \in MatchesAfter(a) \/ t = now
      BY <1>3, <2>1 DEF PlayQueued
    <3>2. /\ live \in SUBSET MatchesAfter(a) /\ saves[a].games \cap MatchesAfter(a) = {}
          /\ \A b \in SessionAt : a < b => saves[b].games \in SUBSET MatchesAfter(a)
      BY <1>1, <2>1 DEF StillToSave
    <3>3. now \notin saves[a].games
      BY <1>4, <1>11, <2>1
    <3>4. live' \subseteq MatchesAfter(a)'
      BY <1>6, <3>1, <3>2
    <3>5. ASSUME NEW b \in SessionAt', a < b PROVE saves'[b].games \subseteq MatchesAfter(a)'
      <4>1. CASE b \in SessionAt /\ saves'[b] = saves[b]
        BY <3>1, <3>2, <3>5, <4>1
      <4>2. CASE saves'[b] = SessionSave(live, Max(live))
        BY <1>8, <3>1, <3>2, <4>2
      <4>3. QED
        BY <1>3, <4>1, <4>2 DEF PlayQueued
    <3>6. saves'[a].games \cap MatchesAfter(a)' = {}
      BY <2>1, <3>1, <3>2, <3>3
    <3>7. QED
      BY <3>4, <3>5, <3>6
  <2>2. CASE Inactive /\ a = n + 1 /\ saves'[a] = SessionSave(live, Max(live))
    <3>1. MatchesAfter(a)' = {now}
      BY <1>3, <2>2 DEF PlayQueued
    <3>2. now \notin live
      BY <1>4, <1>11
    <3>3. \A b \in SessionAt' : ~(a < b)
      BY <1>3, <2>2 DEF PlayQueued
    <3>4. QED
      BY <1>7, <1>8, <2>2, <3>1, <3>2, <3>3
  <2>3. QED
    BY <1>3, <2>1, <2>2 DEF PlayQueued
<1>19. /\ WaitingMatches \in SUBSET WaitingMatches' /\ now \in WaitingMatches'
       /\ \A t \in WaitingMatches' : t \in WaitingMatches \/ t = now
       /\ \A t \in WaitingMatches : t < now
  <2>1. 0 \in 0..n
    BY <1>3 DEF PlayQueued
  <2>2. \A t \in WaitingMatches : \E a \in 1..n : saves[a] = MatchSave(t)
    BY <1>3 DEF WaitingMatches, MatchesAfter, PlayQueued
  <2>3. \A t : MatchSave(t).games = {t}
    BY DEF MatchSave
  <2>4. \A t \in WaitingMatches : t < now
    BY <1>11, <2>2, <2>3
  <2>5. QED
    BY <1>3, <2>1, <2>4 DEF WaitingMatches, PlayQueued
<1>20. Apart'
  <2> SUFFICES ASSUME imported = {} PROVE ApartNow'
    BY <1>4 DEF Apart
  <2>1. ApartNow
    BY DEF SessionInv, Apart
  <2>2. SavedBack' = SavedBack /\ Unlinked' = Unlinked /\ sessions' = sessions /\ ~merging'
    BY <1>4, <2>1 DEF SavedBack, Unlinked, ApartNow
  <2>3. Precede(rows, WaitingMatches')
    BY <1>11, <1>19, <2>1 DEF ApartNow, Precede
  <2>4. Precede((rows \cup WaitingMatches') \ live', live')
    <3> SUFFICES ASSUME NEW s \in rows \cup WaitingMatches', s \notin live', NEW t \in live' PROVE s < t
      BY DEF Precede
    <3>1. s \in rows \cup WaitingMatches /\ s < now
      BY <1>6, <1>11, <1>19
    <3>2. CASE t = now
      BY <3>1, <3>2
    <3>3. CASE t \in live /\ ~Inactive
      BY <1>6, <2>1, <3>1, <3>3 DEF ApartNow, Precede
    <3>4. QED
      BY <1>6, <1>7, <3>2, <3>3
  <2>5. QED
    BY <1>4, <2>1, <2>2, <2>3, <2>4 DEF ApartNow, Separates
<1>21. Counted'
  <2> SUFFICES ASSUME ~exposed' PROVE CountedNow'
    BY DEF Counted
  <2>1. CountedNow /\ ~(Inactive /\ backfill = "running")
    BY DEF SessionInv, Counted, Play
  <2>2. link[now] = NoSession /\ link' = link /\ sessions' = sessions /\ rows' = rows
    BY <1>1, <1>4 DEF LinksAreRows
  <2>3. \A i \in DOMAIN sessions' : \A t \in sessions'[i].games \cap rows' : link'[t] \in {NoSession, i}
    BY <2>1, <2>2 DEF CountedNow
  <2>4. Free(live)' /\ \A a \in SessionAt' : \A t \in saves'[a].games : link'[t] = NoSession
    <3>1. Free(live) /\ \A a \in SessionAt : Free(saves[a].games)
      BY <2>1 DEF CountedNow
    <3>2. QED
      BY <1>3, <1>6, <1>8, <2>2, <3>1 DEF Free, PlayQueued
  <2>5. \A games : Remembered(games) => (SavedLive' # {} => games \cap (rows' \cup WaitingMatches') # {})
    BY <1>4, <1>19, <2>2 DEF Remembered, SavedLive
  <2>6. live' # {} => Remembered(live)'
    BY <1>6, <1>19 DEF Remembered
  <2>7. ASSUME NEW a \in SessionAt'
        PROVE  SavedLive' # {} => saves'[a].games \cap (rows' \cup WaitingMatches') # {}
    <3>1. CASE a \in SessionAt /\ saves'[a] = saves[a]
      BY <2>1, <2>5, <3>1 DEF CountedNow
    <3>2. CASE Inactive /\ saves'[a] = SessionSave(live, Max(live))
      BY <1>7, <1>8, <2>1, <2>5, <3>2 DEF CountedNow
    <3>3. QED
      BY <1>3, <3>1, <3>2 DEF PlayQueued
  <2>8. WaitingMatches' \cap rows' = {}
    BY <1>4, <1>19, <2>1, <2>2 DEF CountedNow
  <2>9. backfill' = "running" => SessionAt' = {}
    BY <1>3, <1>4, <2>1 DEF CountedNow, PlayQueued
  <2>10. SessionAt' # {} => recapValid'
    <3>1. recapValid' = (recapValid \/ Inactive)
      BY DEF Play
    <3>2. QED
      BY <1>3, <2>1, <3>1 DEF CountedNow, PlayQueued
  <2>11. merging' => live' \cap rows' = {} /\ \A a \in SessionAt' : saves'[a].games \cap rows' = {}
    <3> SUFFICES ASSUME merging
                 PROVE  live' \cap rows = {} /\ \A a \in SessionAt' : saves'[a].games \cap rows = {}
      BY <1>4
    <3>1. live \cap rows = {} /\ \A a \in SessionAt : saves[a].games \cap rows = {}
      BY <2>1 DEF CountedNow
    <3>2. live' \cap rows = {}
      BY <1>4, <1>6, <3>1
    <3>3. \A a \in SessionAt' : saves'[a].games \cap rows = {}
      BY <1>3, <1>8, <3>1 DEF PlayQueued
    <3>4. QED
      BY <3>2, <3>3
  <2>12. QED
    BY <2>3, <2>4, <2>6, <2>7, <2>8, <2>9, <2>10, <2>11 DEF CountedNow, Free, Remembered
<1>22. QED
  BY <1>12, <1>13, <1>14, <1>15, <1>16, <1>17, <1>18, <1>20, <1>21 DEF SessionInv

\* The connection to the game ends, and with it the session.
LEMMA EndKeeps ==
  ASSUME SessionInv, EndSession
  PROVE  SessionInv'
<1>1. /\ SessionTypeOK /\ LinksAreRows /\ BackfillIsExact /\ SavesAreWhole /\ AllTogether
      /\ LiveSpans /\ InTime /\ InOrder /\ StillToSave
  BY DEF SessionInv
<1>2. /\ UNCHANGED <<now, played, rows, link, sessions, merging, imported, backfill>>
      /\ live # {} /\ live' = {} /\ recapValid' = TRUE
      /\ exposed' = (exposed \/ backfill = "running")
  BY DEF EndSession, rowVars, mergeState, times
<1>3. now \in Nat /\ now \in Times /\ live \in SUBSET Times
  BY <1>1 DEF SessionTypeOK, Times
<1>4. /\ Max(live) \in Times /\ (\A t \in live : t <= Max(live)) /\ \A t \in live : t <= now
  BY <1>1, <1>2, <1>3, EndsOfSome DEF InTime, Past
<1>5. PICK to \in Times : (\A t \in live : t <= to) /\ saves' = Append(saves, SessionSave(live, to))
  BY <1>3, <1>4 DEF EndSession
<1> DEFINE session == SessionSave(live, to)
<1>6. /\ session \in SaveEntry /\ ~IsMatch(session) /\ session.games = live /\ session.to = to
      /\ \A t \in Times : session # MatchSave(t)
  BY <1>3, <1>5, SaveKinds
<1> HIDE DEF session
<1>70. Len(saves) \in Nat
  BY <1>1, SavesTyped
<1>7. PICK n \in Nat : n = Len(saves)
  BY <1>70
<1>8. saves \in Seq(SaveEntry) /\ saves' = Append(saves, session)
  BY <1>1, <1>5, SavesTyped DEF session
<1>9. /\ saves' \in Seq(SaveEntry)
      /\ DOMAIN saves = 1..n /\ DOMAIN saves' = (1..n) \cup {n + 1}
      /\ \A a \in 1..n : saves'[a] = saves[a]
      /\ saves'[n + 1] = session
      /\ SessionsIn(saves') = SessionsIn(saves) \cup {n + 1}
      /\ \A a \in 0..n :
           /\ MatchesIn(saves, a) \in SUBSET MatchesIn(saves', a)
           /\ \A t \in MatchesIn(saves', a) : t \in MatchesIn(saves, a) \/ session = MatchSave(t)
      /\ MatchesIn(saves', n + 1) = {}
  <2>1. LET longer == Append(saves, session)
            k == Len(saves)
        IN /\ longer \in Seq(SaveEntry) /\ k \in Nat
           /\ DOMAIN saves = 1..k /\ DOMAIN longer = (1..k) \cup {k + 1}
           /\ \A a \in 1..k : longer[a] = saves[a]
           /\ longer[k + 1] = session
           /\ SessionsIn(longer) = SessionsIn(saves) \cup (IF IsMatch(session) THEN {} ELSE {k + 1})
           /\ \A a \in 0..k :
                /\ MatchesIn(saves, a) \in SUBSET MatchesIn(longer, a)
                /\ \A t \in MatchesIn(longer, a) : t \in MatchesIn(saves, a) \/ session = MatchSave(t)
                /\ \A t \in Times : session = MatchSave(t) => t \in MatchesIn(longer, a)
           /\ MatchesIn(longer, k + 1) = {}
    BY <1>6, <1>8, QueueLonger, Zenon
  <2>2. (IF IsMatch(session) THEN {} ELSE {n + 1}) = {n + 1}
    BY <1>6
  <2>3. QED
    BY <1>7, <1>8, <2>1, <2>2, Zenon
<1>10. SessionAt' = SessionAt \cup {n + 1} /\ SessionAt \in SUBSET (1..n)
  BY <1>9, QueueOfSaves DEF SessionsIn
<1>11. /\ \A a \in 0..n : MatchesAfter(a)' = MatchesAfter(a)
       /\ MatchesAfter(n + 1)' = {} /\ WaitingMatches' = WaitingMatches
  <2>1. \A a \in 0..n : MatchesIn(saves', a) = MatchesIn(saves, a)
    <3> SUFFICES ASSUME NEW a \in 0..n PROVE MatchesIn(saves', a) = MatchesIn(saves, a)
      OBVIOUS
    <3>1. MatchesIn(saves', a) \in SUBSET Times
      BY DEF MatchesIn
    <3>2. \A t \in MatchesIn(saves', a) : t \in MatchesIn(saves, a)
      BY <1>6, <1>9, <3>1
    <3>3. MatchesIn(saves, a) \in SUBSET MatchesIn(saves', a)
      BY <1>9
    <3>4. QED
      BY <3>2, <3>3
  <2>2. QED
    BY <1>7, <1>9, <2>1, QueueOfSaves
<1>12. SessionTypeOK'
  <2>1. exposed' \in BOOLEAN
    BY <1>2
  <2>2. UNCHANGED <<now, played, rows, link, sessions, merging, imported, backfill>> /\ live' = {} /\ recapValid' = TRUE
    BY <1>2
  <2>3. QED
    BY <1>1, <1>9, <2>1, <2>2 DEF SessionTypeOK, SaveEntry
<1>13. LinksAreRows' /\ BackfillIsExact' /\ LiveSpans'
  BY <1>1, <1>2 DEF LinksAreRows, BackfillIsExact, LiveSpans, SavedLive, RowsOf
<1>14. SavesAreWhole'
  <2> SUFFICES ASSUME NEW a \in DOMAIN saves'
               PROVE  IF IsMatch(saves'[a]) THEN \E t \in Times : saves'[a] = MatchSave(t)
                      ELSE /\ saves'[a].games # {} /\ Together(saves'[a].games)
                           /\ \A t \in saves'[a].games : t <= saves'[a].to
    BY DEF SavesAreWhole, IsMatch
  <2>1. CASE a \in 1..n
    BY <1>1, <1>9, <2>1 DEF SavesAreWhole
  <2>2. CASE a = n + 1
    BY <1>1, <1>2, <1>5, <1>6, <1>9, <2>2 DEF AllTogether
  <2>3. QED
    BY <1>9, <2>1, <2>2
<1>15. AllTogether' /\ InTime'
  <2>1. SavedLive' = SavedLive
    BY <1>2 DEF SavedLive
  <2>2. \A a \in DOMAIN saves' : Past(saves'[a].games)
    <3>1. Past(live) /\ \A a \in DOMAIN saves : Past(saves[a].games)
      BY <1>1 DEF InTime
    <3>2. QED
      BY <1>6, <1>9, <3>1
  <2>3. \A i \in SavedLive : Past(sessions[i].games)
    BY <1>1 DEF InTime
  <2>4. \A t \in rows : t <= now
    BY <1>1 DEF InTime
  <2>5. InTime'
    BY <1>2, <2>1, <2>2, <2>3, <2>4 DEF InTime, Past
  <2>6. AllTogether'
    BY <1>1, <1>2 DEF AllTogether, Together
  <2>7. QED
    BY <2>5, <2>6
<1>16. InOrder'
  <2>1. SavedLive' = SavedLive
    BY <1>2 DEF SavedLive
  <2>2. /\ \A i \in SavedLive : Precede(sessions[i].games, live)
        /\ \A a \in SessionAt : Precede(saves[a].games, live)
    BY <1>1 DEF InOrder
  <2>3. \A a \in SessionAt', i \in SavedLive : Precede(sessions[i].games, saves'[a].games)
    BY <1>1, <1>6, <1>9, <1>10, <2>2 DEF InOrder
  <2>4. \A S : Precede(S, live')
    BY <1>2 DEF Precede
  <2>5. ASSUME NEW a \in DOMAIN saves', NEW b \in DOMAIN saves', a < b,
               IsMatch(saves'[a]) <=> IsMatch(saves'[b])
        PROVE  Precede(saves'[a].games, saves'[b].games)
    <3>1. CASE b \in 1..n
      <4>1. a \in 1..n
        BY <1>9, <2>5, <3>1
      <4>2. QED
        BY <1>1, <1>9, <2>5, <3>1, <4>1 DEF InOrder
    <3>2. CASE b = n + 1
      <4>1. a \in 1..n /\ ~IsMatch(saves'[a])
        BY <1>6, <1>9, <2>5, <3>2
      <4>2. a \in SessionAt /\ saves'[a] = saves[a]
        BY <1>9, <4>1 DEF SessionAt
      <4>3. QED
        BY <1>6, <1>9, <2>2, <3>2, <4>2
    <3>3. QED
      BY <1>9, <3>1, <3>2
  <2>6. QED
    BY <1>1, <1>2, <2>1, <2>3, <2>4, <2>5 DEF InOrder, IsMatch
<1>17. StillToSave'
  <2> SUFFICES ASSUME NEW a \in SessionAt'
               PROVE  /\ \A b \in SessionAt' : a < b => saves'[b].games \subseteq MatchesAfter(a)'
                      /\ saves'[a].games \cap MatchesAfter(a)' = {}
    BY <1>2 DEF StillToSave
  <2>1. CASE a \in SessionAt
    <3>1. a \in 0..n /\ a \in 1..n
      BY <1>10, <2>1
    <3>2. QED
      BY <1>1, <1>6, <1>9, <1>10, <1>11, <2>1, <3>1 DEF StillToSave
  <2>2. CASE a = n + 1
    <3>1. \A b \in SessionAt' : ~(a < b)
      BY <1>10, <2>2
    <3>2. QED
      BY <1>11, <2>2, <3>1
  <2>3. QED
    BY <1>10, <2>1, <2>2
<1>18. Apart'
  <2> SUFFICES ASSUME imported = {} PROVE ApartNow'
    BY <1>2 DEF Apart
  <2>1. ApartNow
    BY DEF SessionInv, Apart
  <2>2. SavedBack' = SavedBack /\ Unlinked' = Unlinked /\ \A S : Precede(S, live')
    BY <1>2 DEF SavedBack, Unlinked, Precede
  <2>3. QED
    BY <1>2, <1>11, <2>1, <2>2 DEF ApartNow, Separates, Precede
<1>19. Counted'
  <2> SUFFICES ASSUME ~exposed' PROVE CountedNow'
    BY DEF Counted
  <2>1. CountedNow /\ backfill # "running"
    BY <1>2 DEF SessionInv, Counted
  <2>2. \A a \in SessionAt' : saves'[a].games = live \/ (a \in SessionAt /\ saves'[a] = saves[a])
    BY <1>6, <1>9, <1>10
  <2>3. SavedLive' = SavedLive
    BY <1>2 DEF SavedLive
  <2>4. \A games : (Remembered(games) => Remembered(games)') /\ (Free(games) => Free(games)')
    BY <1>2, <1>11, <2>3 DEF Remembered, Free
  <2>5. \A a \in SessionAt' : /\ \A t \in saves'[a].games : link'[t] = NoSession
                              /\ SavedLive' # {} => saves'[a].games \cap (rows' \cup WaitingMatches') # {}
    <3>1. Free(live) /\ Remembered(live) /\ \A a \in SessionAt : Free(saves[a].games) /\ Remembered(saves[a].games)
      BY <1>2, <2>1 DEF CountedNow
    <3>2. QED
      BY <1>2, <1>11, <2>2, <2>3, <3>1 DEF Remembered, Free
  <2>6. merging' => live' \cap rows' = {} /\ \A a \in SessionAt' : saves'[a].games \cap rows' = {}
    BY <1>2, <2>1, <2>2 DEF CountedNow
  <2>7. \A i \in DOMAIN sessions' : \A t \in sessions'[i].games \cap rows' : link'[t] \in {NoSession, i}
    BY <1>2, <2>1 DEF CountedNow
  <2>8. WaitingMatches' \cap rows' = {}
    BY <1>2, <1>11, <2>1 DEF CountedNow
  <2>9. QED
    BY <1>2, <2>1, <2>5, <2>6, <2>7, <2>8 DEF CountedNow, Remembered, Free
<1>20. QED
  BY <1>12, <1>13, <1>14, <1>15, <1>16, <1>17, <1>18, <1>19 DEF SessionInv

-----------------------------------------------------------------------------
\* The worker saves what is first in the queue.

LEMMA RunShifts ==
  ASSUME SessionInv, RunSave, NEW n, n = Len(saves')
  PROVE  /\ saves' \in Seq(SaveEntry) /\ n \in Nat
         /\ DOMAIN saves' = 1..n /\ DOMAIN saves = 1..(n + 1) /\ Head(saves) = saves[1]
         /\ \A a \in 1..n : saves'[a] = saves[a + 1] /\ a + 1 \in DOMAIN saves /\ 1 < a + 1
         /\ \A a \in SessionAt' : a + 1 \in SessionAt /\ a \in 1..n
         /\ WaitingMatches' = MatchesAfter(1)
         /\ \A t \in WaitingMatches : t \in MatchesAfter(1) \/ saves[1] = MatchSave(t)
         /\ MatchesAfter(1) \in SUBSET WaitingMatches
         /\ \A t \in Times : saves[1] = MatchSave(t) => t \in WaitingMatches
         /\ UNCHANGED <<now, played, live, recapValid, backfill, merging, imported, exposed>>
         /\ ~merging /\ backfill # "running"
         /\ SavesAreWhole' /\ StillToSave'
         /\ \A a, b \in DOMAIN saves' :
              a < b /\ (IsMatch(saves'[a]) <=> IsMatch(saves'[b])) => Precede(saves'[a].games, saves'[b].games)
         /\ \A a \in DOMAIN saves' : \A t \in saves'[a].games : t <= now /\ (~played => t # now)
<1>1. SessionTypeOK /\ SavesAreWhole /\ InTime /\ InOrder /\ StillToSave
  BY DEF SessionInv
<1>2. saves \in Seq(SaveEntry) /\ saves # <<>> /\ saves' = Tail(saves)
  BY <1>1, SavesTyped DEF RunSave
<1>3. LET rest == Tail(saves)
          k == Len(rest)
      IN /\ rest \in Seq(SaveEntry) /\ k \in Nat /\ Head(saves) = saves[1]
         /\ DOMAIN saves = 1..(k + 1) /\ DOMAIN rest = 1..k
         /\ \A a \in 1..k : rest[a] = saves[a + 1]
         /\ \A a \in SessionsIn(rest) : a + 1 \in SessionsIn(saves) /\ a \in 1..k
         /\ \A a \in 0..k : MatchesIn(rest, a) = MatchesIn(saves, a + 1)
         /\ \A t \in MatchesIn(saves, 0) : t \in MatchesIn(saves, 1) \/ saves[1] = MatchSave(t)
         /\ MatchesIn(saves, 1) \in SUBSET MatchesIn(saves, 0)
         /\ \A t \in Times : saves[1] = MatchSave(t) => t \in MatchesIn(saves, 0)
  BY <1>2, QueueShorter, Zenon
<1>4. /\ saves' \in Seq(SaveEntry) /\ n \in Nat /\ Head(saves) = saves[1]
      /\ DOMAIN saves = 1..(n + 1) /\ DOMAIN saves' = 1..n
      /\ \A a \in 1..n : saves'[a] = saves[a + 1]
      /\ \A a \in SessionsIn(saves') : a + 1 \in SessionsIn(saves) /\ a \in 1..n
      /\ \A a \in 0..n : MatchesIn(saves', a) = MatchesIn(saves, a + 1)
      /\ \A t \in MatchesIn(saves, 0) : t \in MatchesIn(saves, 1) \/ saves[1] = MatchSave(t)
      /\ MatchesIn(saves, 1) \in SUBSET MatchesIn(saves, 0)
      /\ \A t \in Times : saves[1] = MatchSave(t) => t \in MatchesIn(saves, 0)
  BY <1>2, <1>3, Zenon
<1>5. /\ \A a \in 1..n : a + 1 \in DOMAIN saves /\ 1 < a + 1
      /\ \A a \in SessionAt' : a + 1 \in SessionAt /\ a \in 1..n
  BY <1>4, QueueOfSaves
<1>6. /\ WaitingMatches' = MatchesAfter(1) /\ WaitingMatches = MatchesIn(saves, 0)
      /\ \A a \in 1..n : MatchesAfter(a)' = MatchesAfter(a + 1)
      /\ MatchesAfter(1) = MatchesIn(saves, 1)
  <2>1. 0 \in 0..n /\ 0 + 1 = 1 /\ \A a \in 1..n : a \in 0..n
    BY <1>4
  <2>2. \A a \in 0..n : MatchesAfter(a)' = MatchesAfter(a + 1)
    <3> SUFFICES ASSUME NEW a \in 0..n PROVE MatchesAfter(a)' = MatchesAfter(a + 1)
      OBVIOUS
    <3>1. MatchesAfter(a)' = MatchesIn(saves', a) /\ MatchesAfter(a + 1) = MatchesIn(saves, a + 1)
      BY QueueOfSaves
    <3>2. QED
      BY <1>4, <3>1
  <2>3. WaitingMatches' = MatchesIn(saves', 0) /\ MatchesAfter(1) = MatchesIn(saves, 1)
    BY QueueOfSaves
  <2>4. MatchesIn(saves', 0) = MatchesIn(saves, 0 + 1)
    BY <1>4, <2>1
  <2>5. QED
    BY <2>1, <2>2, <2>3, <2>4, QueueOfSaves
<1>7. /\ UNCHANGED <<now, played, live, recapValid, backfill, merging, imported, exposed>>
      /\ ~merging /\ backfill # "running"
  BY DEF RunSave, WorkerFree, mergeState, times
<1>8. SavesAreWhole'
  BY <1>1, <1>4, <1>5 DEF SavesAreWhole, IsMatch
<1>9. StillToSave'
  <2> SUFFICES ASSUME NEW a \in SessionAt'
               PROVE  /\ live \subseteq MatchesAfter(a)'
                      /\ \A b \in SessionAt' : a < b => saves'[b].games \subseteq MatchesAfter(a)'
                      /\ saves'[a].games \cap MatchesAfter(a)' = {}
    BY <1>7 DEF StillToSave
  <2>1. /\ a + 1 \in SessionAt /\ a \in 1..n /\ MatchesAfter(a)' = MatchesAfter(a + 1)
        /\ saves'[a] = saves[a + 1]
    BY <1>4, <1>5, <1>6
  <2>2. ASSUME NEW b \in SessionAt', a < b PROVE saves'[b].games \subseteq MatchesAfter(a)'
    <3>1. b + 1 \in SessionAt /\ a + 1 < b + 1 /\ saves'[b] = saves[b + 1]
      BY <1>4, <1>5, <2>1, <2>2
    <3>2. QED
      BY <1>1, <2>1, <3>1 DEF StillToSave
  <2>3. QED
    BY <1>1, <2>1, <2>2 DEF StillToSave
<1>10. \A a, b \in DOMAIN saves' :
         a < b /\ (IsMatch(saves'[a]) <=> IsMatch(saves'[b])) => Precede(saves'[a].games, saves'[b].games)
  <2> SUFFICES ASSUME NEW a \in 1..n, NEW b \in 1..n, a < b, IsMatch(saves'[a]) <=> IsMatch(saves'[b])
               PROVE  Precede(saves'[a].games, saves'[b].games)
    BY <1>4
  <2>1. a + 1 < b + 1 /\ saves'[a] = saves[a + 1] /\ saves'[b] = saves[b + 1]
    BY <1>4
  <2>2. QED
    BY <1>1, <1>5, <2>1 DEF InOrder
<1>11. \A a \in DOMAIN saves' : \A t \in saves'[a].games : t <= now /\ (~played => t # now)
  BY <1>1, <1>4, <1>5 DEF InTime, Past
<1>12. QED
  BY <1>4, <1>5, <1>6, <1>7, <1>8, <1>9, <1>10, <1>11

\* A match.
LEMMA MatchSavedKeeps ==
  ASSUME SessionInv, RunSave, IsMatch(Head(saves))
  PROVE  SessionInv'
<1>1. /\ SessionTypeOK /\ LinksAreRows /\ BackfillIsExact /\ SavesAreWhole /\ AllTogether
      /\ LiveSpans /\ InTime /\ InOrder /\ StillToSave
  BY DEF SessionInv
<1>2. PICK n : n = Len(saves')
  OBVIOUS
<1>3. /\ saves' \in Seq(SaveEntry) /\ n \in Nat
      /\ DOMAIN saves' = 1..n /\ DOMAIN saves = 1..(n + 1) /\ Head(saves) = saves[1]
      /\ \A a \in 1..n : saves'[a] = saves[a + 1] /\ a + 1 \in DOMAIN saves /\ 1 < a + 1
      /\ \A a \in SessionAt' : a + 1 \in SessionAt /\ a \in 1..n
      /\ WaitingMatches' = MatchesAfter(1)
      /\ \A t \in WaitingMatches : t \in MatchesAfter(1) \/ saves[1] = MatchSave(t)
      /\ MatchesAfter(1) \in SUBSET WaitingMatches
      /\ \A t \in Times : saves[1] = MatchSave(t) => t \in WaitingMatches
  BY <1>2, RunShifts
<1>4. /\ UNCHANGED <<now, played, live, recapValid, backfill, merging, imported, exposed>>
      /\ ~merging /\ backfill # "running"
      /\ SavesAreWhole' /\ StillToSave'
  BY <1>2, RunShifts
<1>5. /\ \A a, b \in DOMAIN saves' :
           a < b /\ (IsMatch(saves'[a]) <=> IsMatch(saves'[b])) => Precede(saves'[a].games, saves'[b].games)
      /\ \A a \in DOMAIN saves' : \A t \in saves'[a].games : t <= now /\ (~played => t # now)
  BY <1>2, RunShifts
<1>6. 1 \in DOMAIN saves /\ IsMatch(saves[1])
  BY <1>3
<1>7. PICK t \in Times : saves[1] = MatchSave(t)
  BY <1>1, <1>6 DEF SavesAreWhole
<1>8. /\ saves[1].games = {t} /\ \A u : saves[1] = MatchSave(u) => u = t
  <2>1. \A u : MatchSave(u).games = {u}
    BY DEF MatchSave
  <2>2. QED
    BY <1>7, <2>1
<1>9. rows' = rows \cup {t} /\ link' = link /\ sessions' = sessions
  BY <1>3, <1>6, <1>8 DEF RunSave
<1>10. /\ SavedLive' = SavedLive /\ SavedBack' = SavedBack
       /\ t \in WaitingMatches /\ t \notin WaitingMatches'
       /\ \A u \in WaitingMatches : u \in WaitingMatches' \/ u = t
       /\ \A u \in WaitingMatches' : u \in WaitingMatches /\ t < u
  <2>1. \A u \in MatchesAfter(1) : \E d \in DOMAIN saves : 1 < d /\ saves[d] = MatchSave(u) /\ IsMatch(saves[d])
    BY SaveKinds DEF MatchesAfter
  <2>2. \A u \in MatchesAfter(1) : \E d \in DOMAIN saves : saves[d] = MatchSave(u) /\ Precede(saves[1].games, saves[d].games)
    BY <1>1, <1>6, <2>1 DEF InOrder
  <2>3. \A u : MatchSave(u).games = {u}
    BY DEF MatchSave
  <2>4. \A u \in MatchesAfter(1) : t < u
    BY <1>8, <2>2, <2>3 DEF Precede
  <2>5. ~(t < t)
    BY <1>7 DEF Times
  <2>6. QED
    BY <1>3, <1>7, <1>8, <1>9, <2>4, <2>5 DEF SavedLive, SavedBack
<1>11. SessionTypeOK'
  BY <1>1, <1>3, <1>4, <1>9 DEF SessionTypeOK, SaveEntry, TableEntry
<1>12. LinksAreRows' /\ LiveSpans' /\ AllTogether'
  <2>1. LinksAreRows'
    BY <1>1, <1>9 DEF LinksAreRows
  <2>2. LiveSpans' /\ AllTogether'
    BY <1>1, <1>4, <1>9, <1>10 DEF LiveSpans, AllTogether, Together
  <2>3. QED
    BY <2>1, <2>2
<1>13. t \notin rows => link[t] = NoSession
  BY <1>1 DEF LinksAreRows
<1>14. BackfillIsExact'
  <2>1. \A i \in DOMAIN sessions : i # NoSession
    BY <1>1, TablesTyped DEF NoSession
  <2>2. \A i \in DOMAIN sessions : RowsOf(i)' = RowsOf(i)
    BY <1>9, <1>13, <2>1 DEF RowsOf
  <2>3. QED
    BY <1>1, <1>9, <2>2 DEF BackfillIsExact
<1>15. InTime' /\ InOrder'
  <2>1. t <= now
    BY <1>1, <1>6, <1>8 DEF InTime, Past
  <2>2. InTime'
    BY <1>1, <1>4, <1>5, <1>9, <1>10, <2>1 DEF InTime, Past
  <2>3. \A a \in SessionAt' : saves'[a] = saves[a + 1] /\ a + 1 \in SessionAt
    BY <1>3
  <2>4. InOrder'
    BY <1>1, <1>4, <1>5, <1>9, <1>10, <2>3 DEF InOrder, IsMatch
  <2>5. QED
    BY <2>2, <2>4
<1>16. \A u : u \in rows \cup WaitingMatches <=> u \in rows' \cup WaitingMatches'
  BY <1>9, <1>10
<1>17. Apart'
  <2> SUFFICES ASSUME imported = {} PROVE ApartNow'
    BY <1>4 DEF Apart
  <2>1. ApartNow
    BY DEF SessionInv, Apart
  <2>2. ASSUME NEW i \in SavedBack, NEW u \in Unlinked' PROVE sessions[i].to < u
    <3>1. CASE u \in Unlinked
      BY <2>1, <3>1 DEF ApartNow
    <3>2. CASE u = t
      <4>1. sessions[i].to \in rows
        BY <1>1, BackfilledEnds
      <4>2. QED
        BY <1>10, <2>1, <3>2, <4>1 DEF ApartNow, Precede
    <3>3. QED
      BY <1>9, <2>2, <3>1, <3>2 DEF Unlinked
  <2>3. Precede(rows', WaitingMatches')
    BY <1>9, <1>10, <2>1 DEF ApartNow, Precede
  <2>4. Precede((rows' \cup WaitingMatches') \ live, live)
    BY <1>16, <2>1 DEF ApartNow, Precede
  <2>5. QED
    BY <1>4, <1>9, <1>10, <2>1, <2>2, <2>3, <2>4 DEF ApartNow, Precede, Separates
<1>18. Counted'
  <2> SUFFICES ASSUME ~exposed PROVE CountedNow'
    BY <1>4 DEF Counted
  <2>1. CountedNow
    BY DEF SessionInv, Counted
  <2>2. link[t] = NoSession
    BY <1>10, <1>13, <2>1 DEF CountedNow
  <2>3. \A i \in DOMAIN sessions' : \A u \in sessions'[i].games \cap rows' : link'[u] \in {NoSession, i}
    BY <1>9, <2>1, <2>2 DEF CountedNow
  <2>4. \A games : Remembered(games) => (SavedLive' # {} => games \cap (rows' \cup WaitingMatches') # {})
    BY <1>10, <1>16 DEF Remembered
  <2>5. \A a \in SessionAt' : Free(saves'[a].games) /\ Remembered(saves'[a].games)
    BY <1>3, <2>1 DEF CountedNow
  <2>6. Free(live) /\ (live # {} => Remembered(live)) /\ (SessionAt # {} => recapValid)
    BY <2>1 DEF CountedNow
  <2>7. SessionAt' # {} => recapValid'
    BY <1>3, <1>4, <2>6
  <2>8. WaitingMatches' \cap rows' = {}
    BY <1>9, <1>10, <2>1 DEF CountedNow
  <2>9. (live' # {} => Remembered(live)') /\ Free(live)'
    BY <1>4, <1>9, <2>4, <2>6 DEF Remembered, Free
  <2>10. \A a \in SessionAt' : /\ \A u \in saves'[a].games : link'[u] = NoSession
                               /\ SavedLive' # {} => saves'[a].games \cap (rows' \cup WaitingMatches') # {}
    BY <1>9, <2>4, <2>5 DEF Free
  <2>11. QED
    BY <1>4, <2>3, <2>7, <2>8, <2>9, <2>10 DEF CountedNow, Remembered, Free
<1>19. QED
  BY <1>4, <1>11, <1>12, <1>14, <1>15, <1>17, <1>18 DEF SessionInv

\* A session: it is linked to matches that have no session, and to none that an earlier one counted.
LEMMA SessionSavedKeeps ==
  ASSUME SessionInv, RunSave, ~IsMatch(Head(saves))
  PROVE  SessionInv'
<1>1. /\ SessionTypeOK /\ LinksAreRows /\ BackfillIsExact /\ SavesAreWhole /\ AllTogether
      /\ LiveSpans /\ InTime /\ InOrder /\ StillToSave
  BY DEF SessionInv
<1>2. PICK n : n = Len(saves')
  OBVIOUS
<1>3. /\ saves' \in Seq(SaveEntry) /\ n \in Nat
      /\ DOMAIN saves' = 1..n /\ DOMAIN saves = 1..(n + 1) /\ Head(saves) = saves[1]
      /\ \A a \in 1..n : saves'[a] = saves[a + 1] /\ a + 1 \in DOMAIN saves /\ 1 < a + 1
      /\ \A a \in SessionAt' : a + 1 \in SessionAt /\ a \in 1..n
      /\ WaitingMatches' = MatchesAfter(1)
      /\ \A t \in WaitingMatches : t \in MatchesAfter(1) \/ saves[1] = MatchSave(t)
      /\ MatchesAfter(1) \in SUBSET WaitingMatches
  BY <1>2, RunShifts
<1>4. /\ UNCHANGED <<now, played, live, recapValid, backfill, merging, imported, exposed>>
      /\ ~merging /\ backfill # "running"
      /\ SavesAreWhole' /\ StillToSave'
  BY <1>2, RunShifts
<1>5. /\ \A a, b \in DOMAIN saves' :
           a < b /\ (IsMatch(saves'[a]) <=> IsMatch(saves'[b])) => Precede(saves'[a].games, saves'[b].games)
      /\ \A a \in DOMAIN saves' : \A t \in saves'[a].games : t <= now /\ (~played => t # now)
  BY <1>2, RunShifts
<1> DEFINE games == saves[1].games
           to == saves[1].to
           from == Min(games)
           id == Len(sessions) + 1
           linked == LinkedBy(games, from, to)
           entry == [source |-> "live", from |-> from, to |-> to, games |-> games]
<1>6. /\ 1 \in DOMAIN saves /\ ~IsMatch(saves[1]) /\ 1 \in SessionAt
      /\ games \in SUBSET Times /\ games # {} /\ Together(games) /\ \A t \in games : t <= to
      /\ to \in Times
  <2>1. 1 \in DOMAIN saves /\ ~IsMatch(saves[1]) /\ 1 \in SessionAt
    BY <1>3 DEF SessionAt
  <2>2. games \in SUBSET Times /\ to \in Times
    BY <1>1, <2>1, SavesTyped DEF IsMatch
  <2>3. QED
    BY <1>1, <2>1, <2>2 DEF SavesAreWhole
<1>7. /\ from \in games /\ (\A t \in games : from <= t) /\ from \in Nat /\ from \in Times
      /\ \A t \in games : t \in from..to
  <2>1. from \in games /\ \A t \in games : from <= t
    BY <1>6, EndsOfSome
  <2>2. to \in Nat /\ (\A t \in games : t \in Nat) /\ from \in Nat /\ from \in Times
    BY <1>6, <2>1 DEF Times
  <2> HIDE DEF from, to, games
  <2>3. QED
    BY <1>6, <2>1, <2>2
<1>8. /\ sessions \in Seq(TableEntry) /\ Len(sessions) \in Nat /\ DOMAIN sessions = 1..Len(sessions)
      /\ \A i \in DOMAIN sessions : sessions[i].games \in SUBSET Times
  BY <1>1, TablesTyped
<1>9. /\ rows' = rows /\ sessions' = Append(sessions, entry)
      /\ link' = [t \in Times |-> IF t \in linked THEN id ELSE link[t]]
  BY <1>3, <1>6 DEF RunSave, SaveSession
<1>10. entry \in TableEntry /\ entry.source = "live" /\ entry.from = from /\ entry.to = to /\ entry.games = games
  BY <1>6, <1>7 DEF TableEntry
<1>11. linked \in SUBSET Unlinked
  <2>1. LastSlice(Latest(Unlinked, Cardinality(games))) \in SUBSET Unlinked
    BY DEF LastSlice, Latest
  <2>2. QED
    BY <2>1 DEF LinkedBy
<1>12. /\ \A t \in linked : t \in rows /\ t \in Times /\ link[t] = NoSession
       /\ Unlinked \in SUBSET Times /\ rows \in SUBSET Times
  BY <1>1, <1>11 DEF Unlinked, SessionTypeOK
<1>13. (\E t \in Unlinked : t \in games) => \A t \in linked : t \in games \/ t \in from..to
  BY DEF LinkedBy
<1> HIDE DEF games, to, from, linked, entry
<1>14. /\ sessions' \in Seq(TableEntry) /\ DOMAIN sessions' = DOMAIN sessions \cup {id}
       /\ id \notin DOMAIN sessions /\ id # NoSession /\ id \in Nat
       /\ \A i \in DOMAIN sessions : sessions'[i] = sessions[i] /\ i \in Nat /\ i < id /\ i # NoSession
       /\ sessions'[id] = entry
  BY <1>8, <1>9, <1>10 DEF NoSession
<1> HIDE DEF id
<1>15. /\ SavedLive' = SavedLive \cup {id} /\ SavedBack' = SavedBack
       /\ \A i \in SavedLive : sessions'[i] = sessions[i] /\ i \in DOMAIN sessions
       /\ \A i \in SavedBack : sessions'[i] = sessions[i] /\ i \in DOMAIN sessions
  <2>1. "live" # "backfill"
    OBVIOUS
  <2>2. QED
    BY <1>10, <1>14, <2>1 DEF SavedLive, SavedBack
<1>16. /\ \A t \in linked : link'[t] = id
       /\ \A t \in Times : t \notin linked => link'[t] = link[t]
       /\ link' \in [Times -> Nat]
  <2>1. link \in [Times -> Nat]
    BY <1>1 DEF SessionTypeOK
  <2>2. QED
    BY <1>9, <1>12, <1>14, <2>1
<1>17. SessionTypeOK'
  BY <1>1, <1>3, <1>4, <1>9, <1>14, <1>16 DEF SessionTypeOK, SaveEntry, TableEntry
<1>18. LinksAreRows'
  <2> SUFFICES ASSUME NEW t \in Times, link'[t] # NoSession
               PROVE  t \in rows /\ link'[t] \in DOMAIN sessions'
    BY <1>9 DEF LinksAreRows
  <2>1. CASE t \in linked
    BY <1>12, <1>14, <1>16, <2>1
  <2>2. CASE t \notin linked
    BY <1>1, <1>14, <1>16, <2>2 DEF LinksAreRows
  <2>3. QED
    BY <2>1, <2>2
<1>19. BackfillIsExact'
  <2>1. ASSUME NEW i \in DOMAIN sessions PROVE RowsOf(i)' = RowsOf(i)
    <3>1. ASSUME NEW t \in rows PROVE link'[t] = i <=> link[t] = i
      BY <1>12, <1>14, <1>16
    <3>2. QED
      BY <1>9, <3>1 DEF RowsOf
  <2>2. ASSUME NEW i \in DOMAIN sessions', sessions'[i].source = "backfill"
        PROVE  sessions'[i] = Backfilled(RowsOf(i)')
    <3>1. i \in SavedBack
      BY <1>15, <2>2 DEF SavedBack
    <3>2. QED
      BY <1>1, <1>15, <2>1, <3>1 DEF BackfillIsExact, SavedBack
  <2>3. QED
    BY <2>2 DEF BackfillIsExact, Backfilled
<1>20. AllTogether'
  <2>1. ASSUME NEW i \in DOMAIN sessions' PROVE sessions'[i].games # {} /\ Together(sessions'[i].games)
    <3>1. CASE i = id
      BY <1>6, <1>10, <1>14, <3>1
    <3>2. CASE i \in DOMAIN sessions
      BY <1>1, <1>14, <3>2 DEF AllTogether
    <3>3. QED
      BY <1>14, <3>1, <3>2
  <2>2. Together(live)'
    BY <1>1, <1>4 DEF AllTogether, Together
  <2>3. QED
    BY <2>1, <2>2 DEF AllTogether, Together
<1>21. LiveSpans'
  <2>1. ASSUME NEW i \in SavedLive'
        PROVE  /\ sessions'[i].from \in sessions'[i].games
               /\ \A t \in sessions'[i].games : t \in sessions'[i].from..sessions'[i].to
    <3>1. CASE i = id
      BY <1>7, <1>10, <1>14, <3>1
    <3>2. CASE i \in SavedLive
      BY <1>1, <1>15, <3>2 DEF LiveSpans
    <3>3. QED
      BY <1>15, <3>1, <3>2, <2>1
  <2>2. QED
    BY <2>1 DEF LiveSpans
<1>22. InTime'
  <2>1. Past(games)
    BY <1>1, <1>6 DEF InTime, games
  <2>2. \A i \in SavedLive' : Past(sessions'[i].games)
    BY <1>1, <1>10, <1>14, <1>15, <2>1 DEF InTime
  <2>3. QED
    BY <1>1, <1>4, <1>5, <1>9, <2>2 DEF InTime, Past
<1>23. /\ \A i \in SavedLive : Precede(sessions[i].games, games)
       /\ Precede(games, live)
       /\ \A a \in SessionAt' : /\ Precede(games, saves'[a].games)
                                /\ saves'[a] = saves[a + 1] /\ a + 1 \in SessionAt /\ 1 < a + 1
  <2>1. \A a \in SessionAt' : saves'[a] = saves[a + 1] /\ a + 1 \in SessionAt /\ 1 < a + 1 /\ a + 1 \in DOMAIN saves
    BY <1>3
  <2>2. \A a \in SessionAt' : Precede(games, saves'[a].games)
    BY <1>1, <1>6, <2>1 DEF InOrder, SessionAt, games
  <2>3. QED
    BY <1>1, <1>6, <2>1, <2>2 DEF InOrder, games
<1>24. InOrder'
  <2>1. ASSUME NEW i \in SavedLive', NEW j \in SavedLive', i < j
        PROVE  Precede(sessions'[i].games, sessions'[j].games)
    <3>1. CASE i \in SavedLive /\ j \in SavedLive
      BY <1>1, <1>15, <2>1, <3>1 DEF InOrder
    <3>2. CASE i \in SavedLive /\ j = id
      BY <1>10, <1>14, <1>15, <1>23, <3>2
    <3>3. i # id
      <4>1. CASE j \in SavedLive
        BY <1>14, <1>15, <2>1, <4>1
      <4>2. QED
        BY <1>14, <1>15, <2>1, <4>1
    <3>4. QED
      BY <1>15, <3>1, <3>2, <3>3
  <2>2. ASSUME NEW i \in SavedLive'
        PROVE  /\ Precede(sessions'[i].games, live)
               /\ \A a \in SessionAt' : Precede(sessions'[i].games, saves'[a].games)
    <3>1. CASE i = id
      BY <1>10, <1>14, <1>23, <3>1
    <3>2. CASE i \in SavedLive
      BY <1>1, <1>15, <1>23, <3>2 DEF InOrder
    <3>3. QED
      BY <1>15, <3>1, <3>2
  <2>3. \A a \in SessionAt' : Precede(saves'[a].games, live)
    BY <1>1, <1>23 DEF InOrder
  <2>4. QED
    BY <1>4, <1>5, <2>1, <2>2, <2>3 DEF InOrder, IsMatch
<1>25. WaitingMatches' = WaitingMatches /\ MatchesAfter(1) = WaitingMatches
  <2>1. \A t \in Times : saves[1] # MatchSave(t)
    BY <1>6, SaveKinds
  <2>2. WaitingMatches \in SUBSET Times /\ MatchesAfter(1) \in SUBSET Times
    BY DEF WaitingMatches, MatchesAfter
  <2>3. QED
    BY <1>3, <2>1, <2>2
<1>26. Apart'
  <2> SUFFICES ASSUME imported = {} PROVE ApartNow'
    BY <1>4 DEF Apart
  <2>1. ApartNow
    BY DEF SessionInv, Apart
  <2>2. \A t \in Unlinked' : t \in Unlinked
    BY <1>9, <1>12, <1>14, <1>16 DEF Unlinked
  <2>3. QED
    BY <1>4, <1>9, <1>15, <1>25, <2>1, <2>2 DEF ApartNow, Precede, Separates

<1>27. Counted'
  <2> SUFFICES ASSUME ~exposed PROVE CountedNow'
    BY <1>4 DEF Counted
  <2>1. CountedNow
    BY DEF SessionInv, Counted
  \* What is still to be saved is not linked.
  <2>2. /\ \A t \in live : t \in WaitingMatches /\ t \notin linked
        /\ \A a \in SessionAt' : \A t \in saves'[a].games : t \in WaitingMatches /\ t \notin linked
        /\ games \cap WaitingMatches = {}
    <3>1. \A t \in WaitingMatches : t \notin linked
      BY <1>12, <2>1 DEF CountedNow
    <3>2. \A t \in live : t \in WaitingMatches
      BY <1>1, <1>6, <1>25 DEF StillToSave
    <3>3. \A a \in SessionAt' : \A t \in saves'[a].games : t \in WaitingMatches
      BY <1>1, <1>6, <1>23, <1>25 DEF StillToSave
    <3>4. games \cap WaitingMatches = {}
      BY <1>1, <1>6, <1>25 DEF StillToSave, games
    <3>5. QED
      BY <3>1, <3>2, <3>3, <3>4
  <2>3. live \in SUBSET Times /\ \A a \in SessionAt' : saves'[a].games \in SUBSET Times
    BY <1>17, SavesTyped, <1>1, <1>23 DEF SessionTypeOK, SessionAt
  <2>4. /\ \A t \in live : link'[t] = NoSession
        /\ \A a \in SessionAt' : \A t \in saves'[a].games : link'[t] = NoSession
    <3>1. Free(live) /\ \A a \in SessionAt : Free(saves[a].games)
      BY <2>1 DEF CountedNow
    <3>2. \A t \in live : link'[t] = NoSession
      BY <1>16, <2>2, <2>3, <3>1 DEF Free
    <3>3. \A a \in SessionAt' : \A t \in saves'[a].games : link'[t] = NoSession
      BY <1>16, <1>23, <2>2, <2>3, <3>1 DEF Free
    <3>4. QED
      BY <3>2, <3>3
  <2>5. ASSUME NEW i \in DOMAIN sessions', NEW t \in sessions'[i].games \cap rows
        PROVE  link'[t] \in {NoSession, i}
    <3>1. CASE i = id
      <4>1. t \in games /\ t \in Times
        BY <1>6, <1>10, <1>14, <3>1
      <4>2. link[t] = NoSession
        BY <1>6, <2>1, <4>1 DEF CountedNow, Free, games
      <4>3. QED
        BY <1>16, <3>1, <4>1, <4>2
    <3>2. CASE i \in DOMAIN sessions
      <4>1. t \in sessions[i].games /\ t \in rows /\ t \in Times /\ link[t] \in {NoSession, i}
        BY <1>12, <1>14, <2>1, <3>2 DEF CountedNow
      <4>2. t \notin linked
        <5>1. CASE sessions[i].source = "backfill"
          <6>1. i \in SavedBack
            BY <3>2, <5>1 DEF SavedBack
          <6>2. t \in RowsOf(i)
            BY <1>1, <4>1, <6>1, BackfilledEnds
          <6>3. link[t] = i /\ i # NoSession
            BY <1>14, <3>2, <6>2 DEF RowsOf
          <6>4. QED
            BY <1>12, <6>3
        <5>2. CASE i \in SavedLive
          <6>1. t < from /\ t \in Nat
            BY <1>7, <1>23, <4>1, <5>2 DEF Precede, Times
          <6>2. t \notin games /\ t \notin from..to
            BY <1>6, <1>7, <6>1 DEF Times
          <6>3. \E u \in Unlinked : u \in games
            <7>1. Remembered(games) /\ Free(games)
              BY <1>6, <2>1 DEF CountedNow, games
            <7>2. PICK u \in games : u \in rows
              BY <2>2, <5>2, <7>1 DEF Remembered
            <7>3. QED
              BY <7>1, <7>2 DEF Free, Unlinked
          <6>4. QED
            BY <1>13, <6>2, <6>3
        <5>3. QED
          BY <1>1, <3>2, <5>1, <5>2, TablesTyped DEF SavedLive
      <4>3. QED
        BY <1>16, <4>1, <4>2
    <3>3. QED
      BY <1>14, <3>1, <3>2
  <2>6. /\ live # {} => live \cap WaitingMatches # {}
        /\ \A a \in SessionAt' : saves'[a].games \cap WaitingMatches # {}
    <3>1. \A a \in SessionAt' : saves'[a].games # {}
      BY <1>4 DEF SavesAreWhole, SessionAt, IsMatch
    <3>2. QED
      BY <2>2, <3>1
  <2>7. (SessionAt' # {} => recapValid') /\ WaitingMatches' \cap rows' = {}
    BY <1>3, <1>4, <1>9, <1>25, <2>1 DEF CountedNow
  <2>8. /\ live' # {} => live' \cap (rows' \cup WaitingMatches') # {}
        /\ \A a \in SessionAt' : saves'[a].games \cap (rows' \cup WaitingMatches') # {}
    BY <1>4, <1>25, <2>6
  <2>9. backfill' # "running" /\ ~merging'
    BY <1>4
  <2>10. Free(live)'
    BY <1>4, <2>4 DEF Free
  <2>11. QED
    BY <1>9, <2>4, <2>5, <2>7, <2>8, <2>9, <2>10 DEF CountedNow, Remembered, Free
<1>28. QED
  BY <1>4, <1>17, <1>18, <1>19, <1>20, <1>21, <1>22, <1>24, <1>26, <1>27 DEF SessionInv

-----------------------------------------------------------------------------
\* The other steps.

\* Chunks of a backfill.
LEMMA ChunkKeeps ==
  ASSUME SessionInv, Backfill \/ BackfillMerged
  PROVE  SessionInv'
<1>1. /\ SessionTypeOK /\ LinksAreRows /\ BackfillIsExact /\ SavesAreWhole /\ AllTogether
      /\ LiveSpans /\ InTime /\ InOrder /\ StillToSave
  BY DEF SessionInv
<1>2. PICK excluded : /\ BackfillSessionsChunk(excluded)
                    /\ \/ excluded = live /\ backfill = "running" /\ merging' = merging
                       \/ excluded = {} /\ merging /\ merging' \in BOOLEAN /\ backfill' = backfill
  <2>1. CASE Backfill
    BY <2>1 DEF Backfill, Active, mergeState
  <2>2. CASE BackfillMerged
    <3>1. merging' \in BOOLEAN
      BY <2>2 DEF BackfillMerged, MoreRemaining
    <3>2. QED
      BY <2>2, <3>1 DEF BackfillMerged
  <2>3. QED
    BY <2>1, <2>2
<1>3. /\ UNCHANGED <<now, played, rows, live, recapValid, saves, imported, exposed>>
      /\ backfill' \in {"none", "queued", "running"} /\ merging' \in BOOLEAN
      /\ backfill' = "running" => backfill = "running"
      /\ merging' => merging
  <2>1. CASE Backfill
    BY <1>1, <2>1 DEF Backfill, mergeState, times, SessionTypeOK
  <2>2. CASE BackfillMerged
    <3>1. merging' \in BOOLEAN /\ merging
      BY <2>2 DEF BackfillMerged, MoreRemaining
    <3>2. QED
      BY <1>1, <2>2, <3>1 DEF BackfillMerged, times, SessionTypeOK
  <2>3. QED
    BY <2>1, <2>2
<1> DEFINE chunk == ChunkOf(excluded)
<1>4. ChunkEffect(chunk, Alone(chunk))
  BY <1>1, <1>2, <1>3, ChunkHasEffect
<1>5. chunk \in SUBSET Unlinked /\ chunk \cap excluded = {}
  BY <1>1, ChunkIsOldest
<1>6. AllTogether'
  BY <1>1, <1>2, <1>3, ChunkTogether
<1> HIDE DEF chunk
<1>7. /\ SavedLive' = SavedLive /\ \A i \in SavedLive : sessions'[i] = sessions[i]
      /\ link' \in [Times -> Nat] /\ sessions' \in Seq(TableEntry)
      /\ LinksAreRows'
      /\ \A i \in SavedBack' : sessions'[i] = Backfilled(RowsOf(i)')
  BY <1>4 DEF ChunkEffect
<1>8. SessionTypeOK'
  BY <1>1, <1>3, <1>7 DEF SessionTypeOK, TableEntry
<1>9. BackfillIsExact'
  BY <1>7 DEF BackfillIsExact, SavedBack, Backfilled
<1>10. LiveSpans'
  BY <1>1, <1>7 DEF LiveSpans
<1>11. SavesAreWhole' /\ InTime'
  <2>1. SavesAreWhole'
    BY <1>1, <1>3 DEF SavesAreWhole, IsMatch
  <2>2. InTime'
    BY <1>1, <1>3, <1>7 DEF InTime, Past
  <2>3. QED
    BY <2>1, <2>2
<1>12. SessionAt' = SessionAt /\ WaitingMatches' = WaitingMatches /\ \A a : MatchesAfter(a)' = MatchesAfter(a)
  BY <1>3, QueueOfSaves
<1>13. InOrder' /\ StillToSave'
  <2>1. InOrder'
    BY <1>1, <1>3, <1>7, <1>12 DEF InOrder, IsMatch
  <2>2. StillToSave'
    BY <1>1, <1>3, <1>12 DEF StillToSave
  <2>3. QED
    BY <2>1, <2>2
<1>14. Apart'
  <2> SUFFICES ASSUME imported = {} PROVE ApartNow'
    BY <1>3 DEF Apart
  <2>1. ApartNow /\ ~merging
    BY DEF SessionInv, Apart, ApartNow
  <2>2. excluded = live /\ BackfillSessionsChunk(live) /\ merging' = merging
    BY <1>2, <2>1
  <2>3. QED
    BY <1>1, <1>3, <2>1, <2>2, ChunkApart
<1>15. Counted'
  <2> SUFFICES ASSUME ~exposed PROVE CountedNow'
    BY <1>3 DEF Counted
  <2>1. CountedNow
    BY DEF SessionInv, Counted
  <2>2. chunk \in SUBSET rows
    BY <1>5 DEF Unlinked
  <2>3. chunk \cap live = {} /\ \A a \in SessionAt : chunk \cap saves[a].games = {}
    <3>1. CASE excluded = live /\ backfill = "running"
      BY <1>5, <2>1, <3>1 DEF CountedNow
    <3>2. CASE merging
      BY <2>1, <2>2, <3>2 DEF CountedNow
    <3>3. QED
      BY <1>2, <3>1, <3>2
  <2>4. QED
    BY <1>1, <1>2, <1>3, <2>1, <2>3, ChunkCounted DEF chunk
<1>16. QED
  BY <1>6, <1>7, <1>8, <1>9, <1>10, <1>11, <1>13, <1>14, <1>15 DEF SessionInv

\* Matches of another database.
LEMMA MergeKeeps ==
  ASSUME SessionInv, NEW others \in SUBSET (1..now \ live), Merge(others)
  PROVE  SessionInv'
<1>1. /\ SessionTypeOK /\ LinksAreRows /\ BackfillIsExact /\ SavesAreWhole /\ AllTogether
      /\ LiveSpans /\ InTime /\ InOrder /\ StillToSave
  BY DEF SessionInv
<1>2. /\ UNCHANGED <<now, played, link, sessions, live, recapValid, saves, backfill>>
      /\ rows' = rows \cup others /\ others \cap rows = {} /\ others # {} /\ imported' = others
      /\ merging' = TRUE /\ exposed' = (exposed \/ live # {} \/ saves # <<>>)
  BY DEF Merge, times
<1>3. others \in SUBSET Times /\ \A t \in others : t <= now
  BY <1>1, SessionTablesAssumption DEF SessionTypeOK, Times
<1>4. /\ SavedLive' = SavedLive /\ SavedBack' = SavedBack
      /\ SessionAt' = SessionAt /\ WaitingMatches' = WaitingMatches
      /\ \A a : MatchesAfter(a)' = MatchesAfter(a)
  BY <1>2, QueueOfSaves DEF SavedLive, SavedBack
<1>5. \A t \in others : link[t] = NoSession
  BY <1>1, <1>2, <1>3 DEF LinksAreRows
<1>6. SessionTypeOK'
  <2>1. exposed' \in BOOLEAN
    BY <1>2
  <2>2. rows' \in SUBSET Times
    BY <1>1, <1>2, <1>3 DEF SessionTypeOK
  <2>3. QED
    BY <1>1, <1>2, <1>3, <2>1, <2>2 DEF SessionTypeOK
<1>7. LinksAreRows' /\ BackfillIsExact'
  <2>1. \A i \in DOMAIN sessions : i # NoSession
    BY <1>1, TablesTyped DEF NoSession
  <2>2. \A i \in DOMAIN sessions : RowsOf(i)' = RowsOf(i)
    BY <1>2, <1>5, <2>1 DEF RowsOf
  <2>3. BackfillIsExact'
    BY <1>1, <1>2, <2>2 DEF BackfillIsExact
  <2>4. LinksAreRows'
    BY <1>1, <1>2 DEF LinksAreRows
  <2>5. QED
    BY <2>3, <2>4
<1>8. SavesAreWhole' /\ AllTogether' /\ LiveSpans'
  BY <1>1, <1>2, <1>4 DEF SavesAreWhole, IsMatch, AllTogether, Together, LiveSpans
<1>9. InTime' /\ InOrder' /\ StillToSave'
  <2>1. InTime'
    BY <1>1, <1>2, <1>3, <1>4 DEF InTime, Past
  <2>2. InOrder' /\ StillToSave'
    BY <1>1, <1>2, <1>4 DEF InOrder, StillToSave, IsMatch
  <2>3. QED
    BY <2>1, <2>2
<1>10. Apart'
  BY <1>2 DEF Apart
<1>11. Counted'
  <2> SUFFICES ASSUME ~exposed' PROVE CountedNow'
    BY DEF Counted
  <2>1. CountedNow /\ live = {} /\ saves = <<>>
    BY <1>2 DEF SessionInv, Counted
  <2>2. SessionAt = {} /\ WaitingMatches = {}
    BY <2>1 DEF SessionAt, WaitingMatches, MatchesAfter
  <2>3. \A i \in DOMAIN sessions' : \A t \in sessions'[i].games \cap rows' : link'[t] \in {NoSession, i}
    BY <1>2, <1>5, <2>1 DEF CountedNow
  <2>4. QED
    BY <1>2, <1>4, <2>1, <2>2, <2>3 DEF CountedNow, Free
<1>12. QED
  BY <1>6, <1>7, <1>8, <1>9, <1>10, <1>11 DEF SessionInv

\* Time, a restart, a backfill that starts, a deletion, or nothing.
LEMMA OthersKeep ==
  ASSUME SessionInv,
         TimePasses \/ Restart \/ StartBackfill \/ ListSessions \/ DeleteLocalMatchHistory
           \/ UNCHANGED sessionVars
  PROVE  SessionInv'
<1>1. /\ SessionTypeOK /\ LinksAreRows /\ BackfillIsExact /\ SavesAreWhole /\ AllTogether
      /\ LiveSpans /\ InTime /\ InOrder /\ StillToSave /\ Apart /\ Counted
  BY DEF SessionInv
<1>2. CASE TimePasses
  <2>1. /\ UNCHANGED <<rows, link, sessions, live, recapValid, saves, backfill, merging, imported, exposed>>
        /\ now < LastTime /\ now' = now + 1 /\ played' = FALSE
    BY <1>2 DEF TimePasses, rowVars, mergeState
  <2>2. now \in Nat /\ now' \in Times /\ LastTime \in Nat
    BY <1>1, <2>1, SessionTablesAssumption DEF SessionTypeOK, Times
  <2>3. /\ SavedLive' = SavedLive /\ SavedBack' = SavedBack /\ Unlinked' = Unlinked
        /\ SessionAt' = SessionAt /\ WaitingMatches' = WaitingMatches
        /\ \A a : MatchesAfter(a)' = MatchesAfter(a)
    BY <2>1, QueueOfSaves DEF SavedLive, SavedBack, Unlinked
  <2>4. SessionTypeOK'
    BY <1>1, <2>1, <2>2 DEF SessionTypeOK
  <2>5. LinksAreRows' /\ BackfillIsExact' /\ SavesAreWhole' /\ AllTogether' /\ LiveSpans'
    BY <1>1, <2>1, <2>3 DEF LinksAreRows, BackfillIsExact, RowsOf, SavesAreWhole, IsMatch, AllTogether, Together, LiveSpans
  <2>6. InTime'
    <3>1. \A t \in Times : t <= now => t <= now' /\ t # now'
      BY <2>1, <2>2 DEF Times
    <3>2. /\ rows \in SUBSET Times /\ live \in SUBSET Times
          /\ \A a \in DOMAIN saves : saves[a].games \in SUBSET Times
          /\ \A i \in SavedLive : sessions[i].games \in SUBSET Times
      BY <1>1, SavesTyped, TablesTyped DEF SessionTypeOK, SavedLive
    <3>3. \A S \in SUBSET Times : Past(S) => \A t \in S : t <= now' /\ t # now'
      BY <3>1 DEF Past
    <3>4. /\ \A t \in rows : t <= now'
          /\ \A a \in DOMAIN saves : Past(saves[a].games)
          /\ \A i \in SavedLive : Past(sessions[i].games)
      BY <1>1, <3>1, <3>2 DEF InTime
    <3>5. Past(live)
      BY <1>1 DEF InTime
    <3>6. /\ \A t \in live : t <= now' /\ t # now'
          /\ \A a \in DOMAIN saves : \A t \in saves[a].games : t <= now' /\ t # now'
          /\ \A i \in SavedLive : \A t \in sessions[i].games : t <= now' /\ t # now'
      BY <3>2, <3>3, <3>4, <3>5
    <3>7. QED
      BY <2>1, <2>3, <3>4, <3>6 DEF InTime, Past
  <2>7. InOrder' /\ StillToSave'
    BY <1>1, <2>1, <2>3 DEF InOrder, StillToSave, IsMatch
  <2>8. Apart' /\ Counted'
    BY <1>1, <2>1, <2>3 DEF Apart, ApartNow, Separates, Counted, CountedNow, Free, Remembered
  <2>9. QED
    BY <2>4, <2>5, <2>6, <2>7, <2>8 DEF SessionInv
<1>3. CASE Restart
  <2>1. /\ UNCHANGED <<now, played, rows, link, sessions, imported, exposed>>
        /\ live' = {} /\ recapValid' = FALSE /\ saves' = <<>> /\ merging' = FALSE
        /\ backfill' \in {"queued", "none"}
    BY <1>3 DEF Restart, rowVars, times
  <2>2. /\ SavedLive' = SavedLive /\ SavedBack' = SavedBack /\ Unlinked' = Unlinked
        /\ SessionAt' = {} /\ WaitingMatches' = {} /\ DOMAIN saves' = {}
    BY <2>1 DEF SavedLive, SavedBack, Unlinked, SessionAt, WaitingMatches, MatchesAfter
  <2>3. SessionTypeOK'
    <3>1. saves' \in Seq(SaveEntry)
      BY <2>1
    <3>2. QED
      BY <1>1, <2>1, <3>1 DEF SessionTypeOK, SaveEntry
  <2>4. LinksAreRows' /\ BackfillIsExact' /\ SavesAreWhole' /\ AllTogether' /\ LiveSpans'
    BY <1>1, <2>1, <2>2 DEF LinksAreRows, BackfillIsExact, RowsOf, SavesAreWhole, AllTogether, Together, LiveSpans
  <2>5. InTime' /\ InOrder' /\ StillToSave'
    BY <1>1, <2>1, <2>2 DEF InTime, Past, InOrder, Precede, StillToSave
  <2>6. Apart'
    BY <1>1, <2>1, <2>2 DEF Apart, ApartNow, Separates, Precede
  <2>7. Counted'
    BY <1>1, <2>1, <2>2 DEF Counted, CountedNow, Free
  <2>8. QED
    BY <2>3, <2>4, <2>5, <2>6, <2>7 DEF SessionInv
<1>4. CASE StartBackfill \/ ListSessions
  <2>1. UNCHANGED <<now, played, rows, link, sessions, live, recapValid, saves, merging, imported, exposed>>
    BY <1>4 DEF StartBackfill, ListSessions, rowVars, mergeState, times
  <2>2. /\ SavedLive' = SavedLive /\ SavedBack' = SavedBack /\ Unlinked' = Unlinked
        /\ SessionAt' = SessionAt /\ WaitingMatches' = WaitingMatches
        /\ \A a : MatchesAfter(a)' = MatchesAfter(a)
    BY <2>1, QueueOfSaves DEF SavedLive, SavedBack, Unlinked
  <2>3. SessionTypeOK'
    BY <1>1, <1>4, <2>1 DEF SessionTypeOK, StartBackfill, ListSessions
  <2>4. LinksAreRows' /\ BackfillIsExact' /\ SavesAreWhole' /\ AllTogether' /\ LiveSpans'
    BY <1>1, <2>1, <2>2 DEF LinksAreRows, BackfillIsExact, RowsOf, SavesAreWhole, IsMatch, AllTogether, Together, LiveSpans
  <2>5. InTime' /\ InOrder' /\ StillToSave'
    BY <1>1, <2>1, <2>2 DEF InTime, Past, InOrder, StillToSave, IsMatch
  <2>6. Apart'
    BY <1>1, <2>1, <2>2 DEF Apart, ApartNow, Separates
  <2>7. Counted'
    <3>1. CountedNow => SessionAt = {}
      <4>1. CASE StartBackfill
        BY <4>1 DEF StartBackfill, SessionAt
      <4>2. CASE ListSessions
        BY <4>2 DEF ListSessions, NothingInMemory, CountedNow
      <4>3. QED
        BY <1>4, <4>1, <4>2
    <3>2. QED
      BY <1>1, <2>1, <2>2, <3>1 DEF Counted, CountedNow, Free, Remembered
  <2>8. QED
    BY <2>3, <2>4, <2>5, <2>6, <2>7 DEF SessionInv
<1>5. CASE DeleteLocalMatchHistory
  <2>1. /\ UNCHANGED <<now, played, live, recapValid, saves, backfill, merging, imported, exposed>>
        /\ ~merging /\ rows' = {} /\ link' = NoLinks /\ sessions' = <<>>
    BY <1>5 DEF DeleteLocalMatchHistory, mergeState, times
  <2>2. /\ SavedLive' = {} /\ SavedBack' = {} /\ Unlinked' = {} /\ DOMAIN sessions' = {}
        /\ SessionAt' = SessionAt /\ WaitingMatches' = WaitingMatches
        /\ \A a : MatchesAfter(a)' = MatchesAfter(a)
        /\ \A t \in Times : link'[t] = NoSession
    BY <2>1, QueueOfSaves DEF SavedLive, SavedBack, Unlinked, NoLinks
  <2>3. SessionTypeOK'
    <3>1. link' \in [Times -> Nat]
      BY <2>1 DEF NoLinks, NoSession
    <3>2. QED
      BY <1>1, <2>1, <3>1 DEF SessionTypeOK
  <2>4. LinksAreRows' /\ BackfillIsExact' /\ SavesAreWhole' /\ AllTogether' /\ LiveSpans'
    BY <1>1, <2>1, <2>2 DEF LinksAreRows, BackfillIsExact, SavesAreWhole, IsMatch, AllTogether, Together, LiveSpans
  <2>5. InTime' /\ InOrder' /\ StillToSave'
    BY <1>1, <2>1, <2>2 DEF InTime, Past, InOrder, StillToSave, IsMatch
  <2>6. Apart'
    BY <1>1, <2>1, <2>2 DEF Apart, ApartNow, Separates, Precede
  <2>7. Counted'
    <3> SUFFICES ASSUME ~exposed PROVE CountedNow'
      BY <2>1 DEF Counted
    <3>1. CountedNow
      BY <1>1 DEF Counted
    <3>2. Free(live)' /\ \A a \in SessionAt' : \A t \in saves'[a].games : link'[t] = NoSession
      <4>1. live \in SUBSET Times /\ \A a \in SessionAt : saves[a].games \in SUBSET Times
        BY <1>1, SavesTyped DEF SessionTypeOK, SessionAt
      <4>2. QED
        BY <2>1, <2>2, <4>1 DEF Free
    <3>3. QED
      BY <2>1, <2>2, <3>1, <3>2 DEF CountedNow, Free, Remembered
  <2>8. QED
    BY <2>3, <2>4, <2>5, <2>6, <2>7 DEF SessionInv
<1>6. CASE UNCHANGED sessionVars
  <2>1. UNCHANGED <<now, played, rows, link, sessions, live, recapValid, saves, backfill, merging, imported, exposed>>
    BY <1>6 DEF sessionVars, rowVars, mergeState, times
  <2>2. /\ SavedLive' = SavedLive /\ SavedBack' = SavedBack /\ Unlinked' = Unlinked
        /\ SessionAt' = SessionAt /\ WaitingMatches' = WaitingMatches
        /\ \A a : MatchesAfter(a)' = MatchesAfter(a)
    BY <2>1, QueueOfSaves DEF SavedLive, SavedBack, Unlinked
  <2>3. SessionTypeOK'
    BY <1>1, <2>1 DEF SessionTypeOK
  <2>4. LinksAreRows' /\ BackfillIsExact' /\ SavesAreWhole' /\ AllTogether' /\ LiveSpans'
    BY <1>1, <2>1, <2>2 DEF LinksAreRows, BackfillIsExact, RowsOf, SavesAreWhole, IsMatch, AllTogether, Together, LiveSpans
  <2>5. InTime' /\ InOrder' /\ StillToSave'
    BY <1>1, <2>1, <2>2 DEF InTime, Past, InOrder, StillToSave, IsMatch
  <2>6. Apart' /\ Counted'
    BY <1>1, <2>1, <2>2 DEF Apart, ApartNow, Separates, Counted, CountedNow, Free, Remembered
  <2>7. QED
    BY <2>3, <2>4, <2>5, <2>6 DEF SessionInv
<1>7. QED
  BY <1>2, <1>3, <1>4, <1>5, <1>6

LEMMA SessionsBegin ==
  ASSUME SessionInit
  PROVE  SessionInv
<1> USE DEF SessionInit
<1>1. SavedLive = {} /\ SavedBack = {} /\ SessionAt = {} /\ WaitingMatches = {} /\ DOMAIN saves = {}
      /\ DOMAIN sessions = {} /\ Unlinked = {}
  BY DEF SavedLive, SavedBack, SessionAt, WaitingMatches, MatchesAfter, Unlinked
<1>2. SessionTypeOK
  <2>1. now \in Times
    BY SessionTablesAssumption DEF Times
  <2>2. link \in [Times -> Nat]
    BY DEF NoLinks, NoSession
  <2>3. sessions \in Seq(TableEntry) /\ saves \in Seq(SaveEntry)
    OBVIOUS
  <2>4. QED
    BY <2>1, <2>2, <2>3 DEF SessionTypeOK, TableEntry, SaveEntry
<1>3. LinksAreRows /\ BackfillIsExact /\ SavesAreWhole /\ AllTogether /\ LiveSpans
  BY <1>1 DEF LinksAreRows, BackfillIsExact, SavesAreWhole, AllTogether, Together, LiveSpans, NoLinks
<1>4. InTime /\ InOrder /\ StillToSave
  BY <1>1 DEF InTime, Past, InOrder, StillToSave
<1>5. Apart /\ Counted
  BY <1>1 DEF Apart, ApartNow, Precede, Counted, CountedNow, Free
<1>6. QED
  BY <1>2, <1>3, <1>4, <1>5 DEF SessionInv

LEMMA SessionsStep ==
  ASSUME SessionInv, [SessionNext]_sessionVars
  PROVE  SessionInv'
<1>1. CASE Play
  BY <1>1, PlayKeeps
<1>2. CASE EndSession
  BY <1>2, EndKeeps
<1>3. CASE TimePasses \/ Restart \/ StartBackfill \/ ListSessions \/ DeleteLocalMatchHistory
             \/ UNCHANGED sessionVars
  BY <1>3, OthersKeep
<1>4. CASE RunSave
  BY <1>4, MatchSavedKeeps, SessionSavedKeeps
<1>5. CASE Backfill \/ BackfillMerged
  BY <1>5, ChunkKeeps
<1>6. CASE \E others \in SUBSET (1..now \ live) : Merge(others)
  BY <1>6, MergeKeeps
<1>7. QED
  BY <1>1, <1>2, <1>3, <1>4, <1>5, <1>6 DEF SessionNext

LEMMA SessionInvariant == SessionInit /\ [][SessionNext]_sessionVars => []SessionInv
BY SessionsBegin, SessionsStep, PTL

\* What the invariant says of the sessions in the table.
LEMMA SessionInvSays ==
  ASSUME SessionInv
  PROVE  /\ SessionTypeOK /\ BackfillIsExact /\ BackfillDoesNotSplit /\ SessionsAreSittings
         /\ GamesCountedOnce /\ LinkedWhereCounted
<1>1. /\ SessionTypeOK /\ BackfillIsExact /\ AllTogether /\ InOrder /\ Apart /\ Counted
  BY DEF SessionInv
<1>2. BackfillDoesNotSplit
  BY <1>1 DEF BackfillDoesNotSplit, Apart, ApartNow, SavedBack
<1>3. SessionsAreSittings
  BY <1>1, TablesTyped, TogetherBeginsOnce DEF SessionsAreSittings, AllTogether
<1>4. LinkedWhereCounted
  BY <1>1 DEF LinkedWhereCounted, Counted, CountedNow
<1>5. GamesCountedOnce
  <2> SUFFICES ASSUME ~exposed, NEW i \in DOMAIN sessions, NEW j \in DOMAIN sessions, i # j,
                      NEW t \in sessions[i].games, t \in sessions[j].games
               PROVE  FALSE
    BY DEF GamesCountedOnce
  <2>1. /\ i \in Nat /\ j \in Nat /\ i # NoSession /\ j # NoSession /\ t \in Nat
        /\ i \in SavedLive \/ i \in SavedBack
        /\ j \in SavedLive \/ j \in SavedBack
    BY <1>1, TablesTyped DEF SavedLive, SavedBack, NoSession, Times
  <2>2. \A k \in SavedBack : t \in sessions[k].games => t \in rows /\ link[t] = k
    BY <1>1, BackfilledEnds DEF RowsOf
  <2>3. \A k \in DOMAIN sessions : t \in sessions[k].games /\ t \in rows => link[t] \in {NoSession, k}
    BY <1>4 DEF LinkedWhereCounted
  <2>4. CASE i \in SavedLive /\ j \in SavedLive
    <3>1. Precede(sessions[i].games, sessions[j].games) \/ Precede(sessions[j].games, sessions[i].games)
      BY <1>1, <2>1, <2>4 DEF InOrder
    <3>2. ~(t < t)
      BY <2>1
    <3>3. QED
      BY <3>1, <3>2 DEF Precede
  <2>5. CASE i \in SavedBack
    BY <2>1, <2>2, <2>3, <2>5
  <2>6. CASE j \in SavedBack
    BY <2>1, <2>2, <2>3, <2>6
  <2>7. QED
    BY <2>1, <2>4, <2>5, <2>6
<1>6. QED
  BY <1>1, <1>2, <1>3, <1>4, <1>5

\* Whatever is played, saved, linked by chunks, merged, deleted or cut short by a restart: a session
\* made by backfill shows the matches linked to it and is one whole sitting, and as long as every
\* backfill knows of every session no match is counted in two and none is linked to a session
\* other than the one that counted it (SaveSession, BackfillSessionsChunk).
THEOREM SessionSafety ==
  SessionSpec => [](/\ SessionTypeOK /\ BackfillIsExact /\ BackfillDoesNotSplit
                    /\ SessionsAreSittings /\ GamesCountedOnce /\ LinkedWhereCounted)
<1>1. SessionInv => /\ SessionTypeOK /\ BackfillIsExact /\ BackfillDoesNotSplit
                    /\ SessionsAreSittings /\ GamesCountedOnce /\ LinkedWhereCounted
  BY SessionInvSays
<1>2. QED
  BY <1>1, SessionInvariant, PTL DEF SessionSpec

-----------------------------------------------------------------------------
\* The components beside each other: a step of any of them is a step of the one looked at, or
\* leaves its variables alone.

LEMMA PartHasWorkQueue == PartSpec => WorkInit /\ [][WorkNext]_workVars
<1>1. PartInit => WorkInit
  BY DEF PartInit
<1>2. [PartNext]_allVars => [WorkNext]_workVars
  BY DEF PartNext, allVars, firstVars, InWorkQueue, InReaders, InDatabase, InSessions, InMatches,
         InMigrations, InPaging, InReplays, InAccount, InUpdateCheck, InUpdate, InHotkeys,
         InOverlay, InConfig, InTelemetry, InRemote, InTournaments
<1>3. QED
  BY <1>1, <1>2, PTL DEF PartSpec

LEMMA PartHasReaders == PartSpec => PoolInit /\ [][PoolNext]_poolVars
<1>1. PartInit => PoolInit
  BY DEF PartInit
<1>2. [PartNext]_allVars => [PoolNext]_poolVars
  BY DEF PartNext, allVars, firstVars, InWorkQueue, InReaders, InDatabase, InSessions, InMatches,
         InMigrations, InPaging, InReplays, InAccount, InUpdateCheck, InUpdate, InHotkeys,
         InOverlay, InConfig, InTelemetry, InRemote, InTournaments
<1>3. QED
  BY <1>1, <1>2, PTL DEF PartSpec

LEMMA PartHasUpdateCheck ==
  PartSpec => UpdateCheckInit /\ [][UpdateCheckNext]_updateCheckVars
<1>1. PartInit => UpdateCheckInit
  BY DEF PartInit
<1>2. [PartNext]_allVars => [UpdateCheckNext]_updateCheckVars
  BY DEF PartNext, allVars, thirdVars, InWorkQueue, InReaders, InDatabase, InSessions, InMatches,
         InMigrations, InPaging, InReplays, InAccount, InUpdateCheck, InUpdate, InHotkeys,
         InOverlay, InConfig, InTelemetry, InRemote, InTournaments
<1>3. QED
  BY <1>1, <1>2, PTL DEF PartSpec

LEMMA PartHasSessions == PartSpec => SessionInit /\ [][SessionNext]_sessionVars
<1>1. PartInit => SessionInit
  BY DEF PartInit
<1>2. [PartNext]_allVars => [SessionNext]_sessionVars
  BY DEF PartNext, allVars, firstVars, InWorkQueue, InReaders, InDatabase, InSessions, InMatches,
         InMigrations, InPaging, InReplays, InAccount, InUpdateCheck, InUpdate, InHotkeys,
         InOverlay, InConfig, InTelemetry, InRemote, InTournaments
<1>3. QED
  BY <1>1, <1>2, PTL DEF PartSpec

\* Beside all the others too the queue, the pool and the update check keep what they promise,
\* for any number of jobs, threads, connections and checks.
THEOREM WorkersAreSound == PartSpec => []WorkersSound
<1>1. WorkInv /\ PoolInv /\ UpdateCheckInv => WorkersSound
  BY DEF WorkInv, PoolInv, UpdateCheckInv, WorkersSound
<1>2. QED
  BY <1>1, PartHasWorkQueue, PartHasReaders, PartHasUpdateCheck, WorkInvariant, PoolInvariant,
     UpdateCheckInvariant, PTL

\* And so do the saved sessions, for any length of time, gap and size of a chunk and any number of
\* restarts and deletions.
THEOREM SessionsAreRight == PartSpec => []SessionsRight
<1>1. SessionInv => SessionsRight
  BY SessionInvSays DEF SessionsRight
<1>2. QED
  BY <1>1, PartHasSessions, SessionInvariant, PTL
=============================================================================
