------------------------------ MODULE ReaderPool ------------------------------
(***************************************************************************)
(* The read-only connections of DatabaseManager and the connection it      *)
(* writes with.  A reader leases a connection, opens a read transaction on *)
(* it and gives it back; without a valid lease it reads with the writer's  *)
(* connection, under the write mutex.  The destructor stops the database   *)
(* worker, shuts the pool down and closes the writer's connection.         *)
(* Waiting is modelled as in WorkQueue: a test, a sleep, a notification.   *)
(***************************************************************************)
EXTENDS Naturals, Sequences, FiniteSets, SequencesExt, FiniteSetsExt

CONSTANTS
  Readers,   \* the threads that read or write
  PoolSize,  \* how many connections Initialize tries to open (3)
  MaxCalls,  \* bound: how many reads and writes each thread asks for
  NoThread

ASSUME ReaderPoolAssumption ==
  PoolSize \in Nat \ {0} /\ MaxCalls \in Nat /\ NoThread \notin Readers

Connections == 1..PoolSize
NoLease == 0

VARIABLES
  connections,  \* m_state->connections: the ones that are open
  available,    \* m_state->available, a stack
  stopping,     \* m_state->stopping
  owner,        \* the thread that initializes and destroys the manager
  reader,       \* what each thread is doing
  lease,        \* the connection each thread holds
  reads,        \* how many reads and writes each thread has asked for
  mutex,        \* who holds m_writeMutex
  writerOpen    \* m_db.IsOpen()

poolVars == <<connections, available, stopping, owner, reader, lease, reads, mutex, writerOpen>>

PoolInit ==
  /\ connections = {} /\ available = <<>> /\ stopping = FALSE
  /\ owner = "new"
  /\ reader = [t \in Readers |-> "idle"]
  /\ lease = [t \in Readers |-> NoLease]
  /\ reads = [t \in Readers |-> 0]
  /\ mutex = NoThread /\ writerOpen = FALSE

\* Initialize: nobody reads yet, so the Shutdown it starts with returns at once.
\* Some of the connections may fail to open, and :memory: has no pool at all.
Initialize ==
  /\ owner = "new"
  /\ \E opened \in SUBSET Connections :
       connections' = opened /\ available' = SetToSeq(opened)
  /\ owner' = "running" /\ writerOpen' = TRUE
  /\ UNCHANGED <<stopping, reader, lease, reads, mutex>>

Call(t) ==
  /\ owner = "running" /\ reader[t] = "idle" /\ reads[t] < MaxCalls
  /\ reads' = [reads EXCEPT ![t] = @ + 1]
  /\ UNCHANGED <<connections, available, stopping, owner, lease, mutex, writerOpen>>

\* A thread asks for something to be read; HasPool decides how.
BeginRead(t) ==
  /\ Call(t)
  /\ reader' = [reader EXCEPT ![t] = IF connections # {} THEN "acquiring" ELSE "locking"]

\* SaveMatch, UpdateMatchPlayerMmr, MergeDatabase...: straight to the writer.
BeginWrite(t) ==
  /\ Call(t)
  /\ reader' = [reader EXCEPT ![t] = "locking"]

PopAvailable == available' = Front(available)

Acquire(t) ==
  /\ reader[t] = "acquiring"
  /\ \/ /\ stopping
        /\ reader' = [reader EXCEPT ![t] = "locking"]
        /\ UNCHANGED <<available, lease>>
     \/ /\ ~stopping /\ available # <<>>
        /\ lease' = [lease EXCEPT ![t] = Last(available)] /\ PopAvailable
        /\ reader' = [reader EXCEPT ![t] = "beginning"]
     \/ /\ ~stopping /\ available = <<>>
        /\ reader' = [reader EXCEPT ![t] = "asleep"]
        /\ UNCHANGED <<available, lease>>
  /\ UNCHANGED <<connections, stopping, owner, reads, mutex, writerOpen>>

\* notify_all on the pool's condition variable.
WokenReaders(now) == [t \in Readers |-> IF now[t] = "asleep" THEN "acquiring" ELSE now[t]]
WokenOwner == IF owner = "asleep" THEN "closing" ELSE owner

GiveBack(t, next) ==
  /\ available' = Append(available, lease[t])
  /\ lease' = [lease EXCEPT ![t] = NoLease]
  /\ reader' = WokenReaders([reader EXCEPT ![t] = next])
  /\ owner' = WokenOwner

\* BEGIN on the leased connection; a failure gives it back and the lease is invalid.
Begin(t) ==
  /\ reader[t] = "beginning"
  /\ \/ reader' = [reader EXCEPT ![t] = "reading"] /\ UNCHANGED <<available, lease, owner>>
     \/ GiveBack(t, "locking")
  /\ UNCHANGED <<connections, stopping, reads, mutex, writerOpen>>

\* The lease goes out of scope: ROLLBACK, then the connection is given back.
Release(t) ==
  /\ reader[t] = "reading"
  /\ GiveBack(t, "idle")
  /\ UNCHANGED <<connections, stopping, reads, mutex, writerOpen>>

Lock(t) ==
  /\ reader[t] = "locking" /\ mutex = NoThread
  /\ mutex' = t
  /\ reader' = [reader EXCEPT ![t] = "writing"]
  /\ UNCHANGED <<connections, available, stopping, owner, lease, reads, writerOpen>>

Unlock(t) ==
  /\ reader[t] = "writing"
  /\ mutex' = NoThread
  /\ reader' = [reader EXCEPT ![t] = "idle"]
  /\ UNCHANGED <<connections, available, stopping, owner, lease, reads, writerOpen>>

\* Shutdown: stopping, notify_all, then wait until every connection is back.
BeginShutdown ==
  /\ owner = "running"
  /\ stopping' = TRUE
  /\ reader' = WokenReaders(reader)
  /\ owner' = "closing"
  /\ UNCHANGED <<connections, available, lease, reads, mutex, writerOpen>>

\* Mutant: Shutdown does not wait for the leased connections.
AllBackSoon == TRUE

AllBack == Len(available) = Cardinality(connections)

FinishShutdown ==
  /\ owner = "closing"
  /\ IF AllBack
     THEN connections' = {} /\ available' = <<>> /\ owner' = "shut"
     ELSE owner' = "asleep" /\ UNCHANGED <<connections, available>>
  /\ UNCHANGED <<stopping, reader, lease, reads, mutex, writerOpen>>

\* ~DatabaseManager: m_db.Close() under the write mutex.
CloseWriter ==
  /\ owner = "shut" /\ mutex = NoThread
  /\ writerOpen' = FALSE /\ owner' = "closed"
  /\ UNCHANGED <<connections, available, stopping, reader, lease, reads, mutex>>

ReaderStep(t) == Acquire(t) \/ Begin(t) \/ Release(t) \/ Lock(t) \/ Unlock(t)
OwnerStep == FinishShutdown \/ CloseWriter

PoolNext ==
  \/ Initialize \/ BeginShutdown \/ OwnerStep
  \/ \E t \in Readers : BeginRead(t) \/ BeginWrite(t) \/ ReaderStep(t)

\* A thread inside a call goes on when it can, and every query and statement ends.
PoolFairness == (\A t \in Readers : WF_poolVars(ReaderStep(t))) /\ WF_poolVars(OwnerStep)

PoolSpec == PoolInit /\ [][PoolNext]_poolVars /\ PoolFairness

-----------------------------------------------------------------------------
PoolTypeOK ==
  /\ connections \in SUBSET Connections
  /\ available \in Seq(Connections) /\ stopping \in BOOLEAN
  /\ owner \in {"new", "running", "closing", "asleep", "shut", "closed"}
  /\ reader \in [Readers -> {"idle", "acquiring", "asleep", "beginning", "reading",
                             "locking", "writing"}]
  /\ lease \in [Readers -> Connections \cup {NoLease}]
  /\ reads \in [Readers -> 0..MaxCalls]
  /\ mutex \in Readers \cup {NoThread} /\ writerOpen \in BOOLEAN

\* A connection is leased to one thread at most, and never while another thread can still
\* take it from the stack (Acquire, the return function of a Lease).
LeaseExclusive ==
  /\ IsInjective(available)
  /\ \A t \in Readers : lease[t] # NoLease =>
       /\ \A u \in Readers \ {t} : lease[u] # lease[t]
       /\ lease[t] \notin ToSet(available)

\* No connection is destroyed under a thread that holds it (Shutdown waits for it).
LeaseOpen == \A t \in Readers : lease[t] # NoLease => lease[t] \in connections

\* Every read or write ends: no thread sleeps for ever in Acquire, also when Shutdown begins
\* between its HasPool and its Acquire.
EveryReadEnds == \A t \in Readers : reader[t] # "idle" ~> reader[t] = "idle"

\* The destructor returns, whoever holds or waits for a connection when it starts.
ShutdownEnds == stopping ~> owner = "closed"
=============================================================================
