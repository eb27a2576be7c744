------------------------ MODULE AccountManager_proofs ------------------------
(***************************************************************************)
(* Proofs about the account manager.  Every step of it is a step of the     *)
(* rank service or leaves the service alone, so the service's invariant     *)
(* (MmrService_proofs) holds here too.  ManagerInv adds what the account    *)
(* list says of the service's dedupe table, what the jobs that still wait   *)
(* will have done to the tables when they have run (Settled), and that a    *)
(* rank shown is younger than its account.                                  *)
(***************************************************************************)
EXTENDS AccountManager, MmrService_proofs, SequenceTheorems

-----------------------------------------------------------------------------
\* The inductive invariant.

Registers(j, a) == j.op = "Register" /\ a \in j.ids
Deletes(j, a) == j.op = "Delete" /\ j.id = a
Saves(j, a) == j.op = "SaveRanks" /\ j.id = a

\* A job that does nothing to a's row and ranks.
Spares(j, a) == ~Registers(j, a) /\ ~Deletes(j, a) /\ ~Saves(j, a)

\* Whether a has a row when the first n jobs of q have run, if inRows says whether it has one now.
RowAfter(inRows, q, a, n) ==
    \/ inRows /\ \A k \in 1..n : ~Deletes(q[k], a)
    \/ \E i \in 1..n : Registers(q[i], a) /\ \A k \in (i + 1)..n : ~Deletes(q[k], a)

\* The generation of a's saved ranks is g when q has run, if it is v now.
RankAfter(v, q, a, g) ==
    \/ v = g /\ \A k \in 1..Len(q) : ~Deletes(q[k], a) /\ ~Saves(q[k], a)
    \/ \E i \in 1..Len(q) :
         /\ (Deletes(q[i], a) /\ g = 0) \/ (Saves(q[i], a) /\ g = q[i].generation)
         /\ \A k \in (i + 1)..Len(q) : ~Deletes(q[k], a) /\ ~Saves(q[k], a)

\* When the jobs of q have run, a has a row exactly if kept, and its ranks are of g; a job that
\* saves ranks finds the row.
Settled(inRows, v, q, a, kept, g) ==
    /\ RowAfter(inRows, q, a, Len(q)) <=> kept
    /\ RankAfter(v, q, a, g)
    /\ \A i \in 1..Len(q) : Saves(q[i], a) => RowAfter(inRows, q, a, i - 1)
    /\ ~inRows => v = 0

\* The accounts whose rows are to stay: those the user tracks, once they are known.
Kept == IF loaded THEN accounts ELSE rows

AllSettled ==
    \A a \in Accounts : Settled(a \in rows, savedRanks[a], jobs, a, a \in Kept, ranks[a])

\* Nothing happens before the tables are loaded, and they are loaded once.
LoadsOnce ==
    /\ ~loaded => /\ jobs = <<[op |-> "Load"], [op |-> "StartupRefresh"]>>
                  /\ accounts = {} /\ pending = {}
                  /\ ranks = Nothing /\ savedRanks = Nothing
    /\ loaded => \A i \in 1..Len(jobs) : jobs[i].op # "Load"

\* Requests and ranks of an account were made after it was last added.
RanksNew ==
    \A a \in Accounts :
        /\ since[a] <= nextTrackedGeneration
        /\ trackedQueuedOrInFlight[a] # 0 => trackedQueuedOrInFlight[a] > since[a]
        /\ ranks[a] # 0 => a \in accounts /\ ranks[a] > since[a]

ManagerInv ==
    /\ AccountTypeOK /\ RefreshHasOwner /\ BusyExactlyWhenPending
    /\ LoadsOnce /\ AllSettled /\ RanksNew

-----------------------------------------------------------------------------
\* The service's steps.

LEMMA ManagerUsesService == AccountSpec => ServiceSpec
<1>1. AccountInit => ServiceInit
  BY DEF AccountInit
<1>2. [AccountNext]_allVars => [ServiceNext]_vars
  <2> SUFFICES ASSUME AccountNext PROVE ServiceNext \/ UNCHANGED vars
    BY DEF allVars
  <2>1. ASSUME NEW a \in Accounts, NEW manual \in BOOLEAN, RefreshLocked(a, manual),
               UNCHANGED serviceOthers
        PROVE  ServiceNext \/ UNCHANGED vars
    BY <2>1 DEF RefreshLocked, serviceOthers, others, vars, ServiceNext, AccountTraffic,
                EnqueueTrackedAccount
  <2>2. CASE UserCall
    <3>1. ASSUME NEW a \in Accounts, Refresh(a) PROVE ServiceNext \/ UNCHANGED vars
      BY <2>1, <3>1 DEF Refresh
    <3>2. ASSUME NEW a \in Accounts, Remove(a) PROVE ServiceNext
      BY <3>2 DEF Remove, serviceOthers, others, ServiceNext, AccountTraffic, CancelTrackedAccount
    <3>3. ASSUME NEW a \in Accounts, Observe(a) PROVE UNCHANGED vars
      BY <3>3 DEF Observe, serviceOthers, others, vars
    <3>4. ASSUME NEW S \in SUBSET Accounts, Add(S) PROVE UNCHANGED vars
      BY <3>4 DEF Add, serviceOthers, others, vars
    <3>5. QED
      BY <2>2, <3>1, <3>2, <3>3, <3>4 DEF UserCall
  <2>3. CASE JobStep
    <3>1. ASSUME NEW a \in Accounts, RefreshNext(a) PROVE ServiceNext \/ UNCHANGED vars
      BY <2>1, <3>1 DEF RefreshNext, serviceOthers, others, vars
    <3>2. QED
      BY <2>3, <3>1
      DEF JobStep, Load, StartupRefresh, RegisterRows, DeleteRow, SaveRanks, SaveRewards
  <2>4. QED
    BY <2>2, <2>3
    DEF AccountNext, CooldownEnds, SinkCall, ServiceAlone, ServiceNext, SinkStep
<1>3. QED
  BY <1>1, <1>2, PTL DEF AccountSpec, ServiceSpec

-----------------------------------------------------------------------------
\* Jobs.

LEMMA JobFields ==
    ASSUME NEW j \in Job
    PROVE  /\ j.op = "Register" => j.ids \subseteq Accounts
           /\ j.op = "Resolve" => j.ids \subseteq Accounts
           /\ j.op = "Delete" => j.id \in Accounts
           /\ j.op \in {"SaveRanks", "SaveRewards"} => j.id \in Accounts /\ j.generation \in Generations
BY DEF Job

LEMMA JobsMade ==
    /\ [op |-> "Load"] \in Job /\ [op |-> "StartupRefresh"] \in Job
    /\ \A S \in SUBSET Accounts : /\ [op |-> "Register", ids |-> S] \in Job
                                  /\ [op |-> "Resolve", ids |-> S] \in Job
    /\ \A a \in Accounts : [op |-> "Delete", id |-> a] \in Job
    /\ \A a \in Accounts, n \in Generations :
         /\ [op |-> "SaveRanks", id |-> a, generation |-> n] \in Job
         /\ [op |-> "SaveRewards", id |-> a, generation |-> n] \in Job
BY DEF Job

\* A queue grows at its end ...
LEMMA Longer ==
    ASSUME NEW q \in Seq(Job), NEW j \in Job
    PROVE  /\ Append(q, j) \in Seq(Job) /\ Len(Append(q, j)) = Len(q) + 1 /\ Len(q) \in Nat
           /\ Append(q, j)[Len(q) + 1] = j
           /\ \A i \in 1..Len(q) : Append(q, j)[i] = q[i]
BY AppendProperties, LenProperties

LEMMA RowLonger ==
    ASSUME NEW q \in Seq(Job), NEW j \in Job, NEW inRows, NEW a
    PROVE  /\ \A n \in 0..Len(q) : RowAfter(inRows, Append(q, j), a, n) <=> RowAfter(inRows, q, a, n)
           /\ RowAfter(inRows, Append(q, j), a, Len(q) + 1) <=>
                Registers(j, a) \/ (~Deletes(j, a) /\ RowAfter(inRows, q, a, Len(q)))
<1> DEFINE w == Append(q, j)
<1>1. /\ Len(q) \in Nat /\ w[Len(q) + 1] = j /\ \A i \in 1..Len(q) : w[i] = q[i]
  BY Longer
<1> HIDE DEF w
<1>2. ASSUME NEW n \in 0..Len(q)
      PROVE  RowAfter(inRows, w, a, n) <=> RowAfter(inRows, q, a, n)
  <2>1. \A i \in 1..n : w[i] = q[i] /\ \A k \in (i + 1)..n : w[k] = q[k]
    BY <1>1
  <2>2. QED
    BY <2>1 DEF RowAfter, Registers, Deletes
<1>3. ASSUME RowAfter(inRows, w, a, Len(q) + 1)
      PROVE  Registers(j, a) \/ (~Deletes(j, a) /\ RowAfter(inRows, q, a, Len(q)))
  <2>1. CASE inRows /\ \A k \in 1..(Len(q) + 1) : ~Deletes(w[k], a)
    <3>1. ~Deletes(w[Len(q) + 1], a) /\ \A k \in 1..Len(q) : ~Deletes(w[k], a)
      BY <1>1, <2>1
    <3>2. QED
      BY <1>1, <2>1, <3>1 DEF RowAfter
  <2>2. ASSUME NEW i \in 1..(Len(q) + 1), Registers(w[i], a),
               \A k \in (i + 1)..(Len(q) + 1) : ~Deletes(w[k], a)
        PROVE  Registers(j, a) \/ (~Deletes(j, a) /\ RowAfter(inRows, q, a, Len(q)))
    <3>1. CASE i = Len(q) + 1
      BY <1>1, <2>2, <3>1
    <3>2. CASE i \in 1..Len(q)
      <4>1. ~Deletes(w[Len(q) + 1], a) /\ \A k \in (i + 1)..Len(q) : k \in 1..Len(q) /\ ~Deletes(w[k], a)
        BY <1>1, <2>2, <3>2
      <4>2. QED
        BY <1>1, <2>2, <3>2, <4>1 DEF RowAfter
    <3>3. QED
      BY <1>1, <3>1, <3>2
  <2>3. QED
    BY <1>3, <2>1, <2>2 DEF RowAfter
<1>4. ASSUME Registers(j, a) \/ (~Deletes(j, a) /\ RowAfter(inRows, q, a, Len(q)))
      PROVE  RowAfter(inRows, w, a, Len(q) + 1)
  <2>1. CASE Registers(j, a)
    <3>1. Len(q) + 1 \in 1..(Len(q) + 1) /\ (Len(q) + 2)..(Len(q) + 1) = {}
      BY <1>1
    <3>2. QED
      BY <1>1, <2>1, <3>1 DEF RowAfter
  <2>2. CASE ~Deletes(j, a) /\ inRows /\ \A k \in 1..Len(q) : ~Deletes(q[k], a)
    <3>1. \A k \in 1..(Len(q) + 1) : ~Deletes(w[k], a)
      BY <1>1, <2>2
    <3>2. QED
      BY <2>2, <3>1 DEF RowAfter
  <2>3. ASSUME ~Deletes(j, a), NEW i \in 1..Len(q), Registers(q[i], a),
               \A k \in (i + 1)..Len(q) : ~Deletes(q[k], a)
        PROVE  RowAfter(inRows, w, a, Len(q) + 1)
    <3>1. \A k \in (i + 1)..(Len(q) + 1) : ~Deletes(w[k], a)
      BY <1>1, <2>3
    <3>2. i \in 1..(Len(q) + 1) /\ Registers(w[i], a)
      BY <1>1, <2>3
    <3>3. QED
      BY <3>1, <3>2 DEF RowAfter
  <2>4. QED
    BY <1>4, <2>1, <2>2, <2>3 DEF RowAfter
<1>5. QED
  BY <1>2, <1>3, <1>4 DEF w

LEMMA RankLonger ==
    ASSUME NEW q \in Seq(Job), NEW j \in Job, NEW v, NEW a
    PROVE  /\ \A g : ~Deletes(j, a) /\ ~Saves(j, a) /\ RankAfter(v, q, a, g)
                       => RankAfter(v, Append(q, j), a, g)
           /\ Deletes(j, a) => RankAfter(v, Append(q, j), a, 0)
           /\ Saves(j, a) => RankAfter(v, Append(q, j), a, j.generation)
<1> DEFINE w == Append(q, j)
<1>1. /\ Len(q) \in Nat /\ w[Len(q) + 1] = j /\ Len(w) = Len(q) + 1
      /\ \A i \in 1..Len(q) : w[i] = q[i]
  BY Longer
<1> HIDE DEF w
<1>2. ASSUME NEW g, ~Deletes(j, a), ~Saves(j, a), RankAfter(v, q, a, g)
      PROVE  RankAfter(v, w, a, g)
  <2>1. CASE v = g /\ \A k \in 1..Len(q) : ~Deletes(q[k], a) /\ ~Saves(q[k], a)
    <3>1. \A k \in 1..Len(w) : ~Deletes(w[k], a) /\ ~Saves(w[k], a)
      BY <1>1, <1>2, <2>1
    <3>2. QED
      BY <2>1, <3>1 DEF RankAfter
  <2>2. ASSUME NEW i \in 1..Len(q),
               (Deletes(q[i], a) /\ g = 0) \/ (Saves(q[i], a) /\ g = q[i].generation),
               \A k \in (i + 1)..Len(q) : ~Deletes(q[k], a) /\ ~Saves(q[k], a)
        PROVE  RankAfter(v, w, a, g)
    <3>1. \A k \in (i + 1)..Len(w) : ~Deletes(w[k], a) /\ ~Saves(w[k], a)
      BY <1>1, <1>2, <2>2
    <3>2. i \in 1..Len(w) /\ w[i] = q[i]
      BY <1>1
    <3>3. QED
      BY <2>2, <3>1, <3>2 DEF RankAfter
  <2>3. QED
    BY <1>2, <2>1, <2>2 DEF RankAfter
<1>3. ASSUME NEW g, (Deletes(j, a) /\ g = 0) \/ (Saves(j, a) /\ g = j.generation)
      PROVE  RankAfter(v, w, a, g)
  <2>1. Len(w) \in 1..Len(w) /\ (Len(w) + 1)..Len(w) = {} /\ w[Len(w)] = j
    BY <1>1
  <2>2. QED
    BY <1>3, <2>1 DEF RankAfter
<1>4. QED
  BY <1>2, <1>3 DEF w

\* ... and shrinks at its head.
LEMMA Shorter ==
    ASSUME NEW q \in Seq(Job), q # <<>>
    PROVE  /\ Tail(q) \in Seq(Job) /\ Len(Tail(q)) = Len(q) - 1 /\ Len(q) \in Nat \ {0}
           /\ Head(q) \in Job /\ Head(q) = q[1]
           /\ \A i \in 1..(Len(q) - 1) : Tail(q)[i] = q[i + 1]
BY HeadTailProperties, EmptySeq, LenProperties, ElementOfSeq

\* What the head did to a's row.
LEMMA RowShorter ==
    ASSUME NEW q \in Seq(Job), q # <<>>, NEW inRows, NEW a, NEW n \in 1..Len(q),
           NEW nowInRows, nowInRows <=> Registers(Head(q), a) \/ (~Deletes(Head(q), a) /\ inRows)
    PROVE  RowAfter(nowInRows, Tail(q), a, n - 1) <=> RowAfter(inRows, q, a, n)
<1> DEFINE w == Tail(q)
<1>1. /\ Len(q) \in Nat \ {0} /\ Head(q) = q[1] /\ \A i \in 1..(Len(q) - 1) : w[i] = q[i + 1]
  BY Shorter
<1> HIDE DEF w
<1>2. \A k \in 2..n : k - 1 \in 1..(n - 1) /\ w[k - 1] = q[k]
  BY <1>1
<1>3. \A k \in 1..(n - 1) : k + 1 \in 2..n /\ w[k] = q[k + 1]
  BY <1>1
<1>4. ASSUME RowAfter(nowInRows, w, a, n - 1)
      PROVE  RowAfter(inRows, q, a, n)
  <2>1. CASE nowInRows /\ \A k \in 1..(n - 1) : ~Deletes(w[k], a)
    <3>1. \A k \in 2..n : ~Deletes(q[k], a)
      BY <1>2, <2>1
    <3>2. CASE Registers(Head(q), a)
      BY <1>1, <3>1, <3>2 DEF RowAfter
    <3>3. CASE ~Deletes(Head(q), a) /\ inRows
      <4>1. \A k \in 1..n : ~Deletes(q[k], a)
        BY <1>1, <3>1, <3>3
      <4>2. QED
        BY <3>3, <4>1 DEF RowAfter
    <3>4. QED
      BY <2>1, <3>2, <3>3
  <2>2. ASSUME NEW i \in 1..(n - 1), Registers(w[i], a),
               \A k \in (i + 1)..(n - 1) : ~Deletes(w[k], a)
        PROVE  RowAfter(inRows, q, a, n)
    <3>1. i + 1 \in 1..n /\ Registers(q[i + 1], a)
      BY <1>3, <2>2
    <3>2. \A k \in ((i + 1) + 1)..n : ~Deletes(q[k], a)
      <4> SUFFICES ASSUME NEW k \in ((i + 1) + 1)..n PROVE ~Deletes(q[k], a)
        OBVIOUS
      <4>1. k \in 2..n /\ k - 1 \in (i + 1)..(n - 1)
        OBVIOUS
      <4>2. QED
        BY <1>2, <2>2, <4>1
    <3>3. QED
      BY <3>1, <3>2 DEF RowAfter
  <2>3. QED
    BY <1>4, <2>1, <2>2 DEF RowAfter
<1>5. ASSUME RowAfter(inRows, q, a, n)
      PROVE  RowAfter(nowInRows, w, a, n - 1)
  <2>1. CASE inRows /\ \A k \in 1..n : ~Deletes(q[k], a)
    <3>1. 1 \in 1..n /\ nowInRows
      BY <1>1, <2>1
    <3>2. \A k \in 1..(n - 1) : ~Deletes(w[k], a)
      BY <1>3, <2>1
    <3>3. QED
      BY <3>1, <3>2 DEF RowAfter
  <2>2. ASSUME NEW i \in 1..n, Registers(q[i], a), \A k \in (i + 1)..n : ~Deletes(q[k], a)
        PROVE  RowAfter(nowInRows, w, a, n - 1)
    <3>1. \A k \in i..(n - 1) : ~Deletes(w[k], a)
      <4> SUFFICES ASSUME NEW k \in i..(n - 1) PROVE ~Deletes(w[k], a)
        OBVIOUS
      <4>1. k \in 1..(n - 1) /\ k + 1 \in (i + 1)..n
        OBVIOUS
      <4>2. QED
        BY <1>3, <2>2, <4>1
    <3>2. CASE i = 1
      BY <1>1, <2>2, <3>1, <3>2 DEF RowAfter
    <3>3. CASE i # 1
      <4>1. i \in 2..n /\ i - 1 \in 1..(n - 1) /\ Registers(w[i - 1], a)
        BY <1>2, <2>2, <3>3
      <4>2. \A k \in ((i - 1) + 1)..(n - 1) : ~Deletes(w[k], a)
        BY <3>1
      <4>3. QED
        BY <4>1, <4>2 DEF RowAfter
    <3>4. QED
      BY <3>2, <3>3
  <2>3. QED
    BY <1>5, <2>1, <2>2 DEF RowAfter
<1>6. QED
  BY <1>4, <1>5 DEF w

\* What the head did to a's saved ranks.
LEMMA RankShorter ==
    ASSUME NEW q \in Seq(Job), q # <<>>, NEW v, NEW a, NEW g, NEW nowV,
           Deletes(Head(q), a) => nowV = 0,
           Saves(Head(q), a) => nowV = Head(q).generation,
           ~Deletes(Head(q), a) /\ ~Saves(Head(q), a) => nowV = v
    PROVE  RankAfter(nowV, Tail(q), a, g) <=> RankAfter(v, q, a, g)
<1> DEFINE w == Tail(q)
<1>1. /\ Len(q) \in Nat \ {0} /\ Head(q) = q[1] /\ Len(w) = Len(q) - 1
      /\ \A i \in 1..(Len(q) - 1) : w[i] = q[i + 1]
  BY Shorter
<1> HIDE DEF w
<1>2. \A k \in 2..Len(q) : k - 1 \in 1..Len(w) /\ w[k - 1] = q[k]
  BY <1>1
<1>3. \A k \in 1..Len(w) : k + 1 \in 2..Len(q) /\ w[k] = q[k + 1]
  BY <1>1
<1>4. ~(Deletes(Head(q), a) /\ Saves(Head(q), a))
  BY DEF Deletes, Saves
<1>5. ASSUME RankAfter(nowV, w, a, g)
      PROVE  RankAfter(v, q, a, g)
  <2>1. CASE nowV = g /\ \A k \in 1..Len(w) : ~Deletes(w[k], a) /\ ~Saves(w[k], a)
    <3>1. \A k \in 2..Len(q) : ~Deletes(q[k], a) /\ ~Saves(q[k], a)
      BY <1>2, <2>1
    <3>2. CASE Deletes(Head(q), a) \/ Saves(Head(q), a)
      <4>1. /\ 1 \in 1..Len(q)
            /\ (Deletes(q[1], a) /\ g = 0) \/ (Saves(q[1], a) /\ g = q[1].generation)
            /\ \A k \in (1 + 1)..Len(q) : ~Deletes(q[k], a) /\ ~Saves(q[k], a)
        BY <1>1, <2>1, <3>1, <3>2
      <4>2. QED
        BY <4>1 DEF RankAfter
    <3>3. CASE ~Deletes(Head(q), a) /\ ~Saves(Head(q), a)
      <4>1. v = g /\ \A k \in 1..Len(q) : ~Deletes(q[k], a) /\ ~Saves(q[k], a)
        BY <1>1, <2>1, <3>1, <3>3
      <4>2. QED
        BY <4>1 DEF RankAfter
    <3>4. QED
      BY <3>2, <3>3
  <2>2. ASSUME NEW i \in 1..Len(w),
               (Deletes(w[i], a) /\ g = 0) \/ (Saves(w[i], a) /\ g = w[i].generation),
               \A k \in (i + 1)..Len(w) : ~Deletes(w[k], a) /\ ~Saves(w[k], a)
        PROVE  RankAfter(v, q, a, g)
    <3>1. i + 1 \in 1..Len(q) /\ q[i + 1] = w[i]
      BY <1>1, <1>3
    <3>2. \A k \in ((i + 1) + 1)..Len(q) : ~Deletes(q[k], a) /\ ~Saves(q[k], a)
      <4> SUFFICES ASSUME NEW k \in ((i + 1) + 1)..Len(q)
                   PROVE  ~Deletes(q[k], a) /\ ~Saves(q[k], a)
        OBVIOUS
      <4>1. k \in 2..Len(q) /\ k - 1 \in (i + 1)..Len(w)
        BY <1>1
      <4>2. QED
        BY <1>2, <2>2, <4>1
    <3>3. QED
      BY <2>2, <3>1, <3>2 DEF RankAfter
  <2>3. QED
    BY <1>5, <2>1, <2>2 DEF RankAfter
<1>6. ASSUME RankAfter(v, q, a, g)
      PROVE  RankAfter(nowV, w, a, g)
  <2>1. CASE v = g /\ \A k \in 1..Len(q) : ~Deletes(q[k], a) /\ ~Saves(q[k], a)
    <3>1. ~Deletes(Head(q), a) /\ ~Saves(Head(q), a)
      BY <1>1, <2>1
    <3>2. \A k \in 1..Len(w) : ~Deletes(w[k], a) /\ ~Saves(w[k], a)
      BY <1>1, <1>3, <2>1
    <3>3. QED
      BY <2>1, <3>1, <3>2 DEF RankAfter
  <2>2. ASSUME NEW i \in 1..Len(q),
               (Deletes(q[i], a) /\ g = 0) \/ (Saves(q[i], a) /\ g = q[i].generation),
               \A k \in (i + 1)..Len(q) : ~Deletes(q[k], a) /\ ~Saves(q[k], a)
        PROVE  RankAfter(nowV, w, a, g)
    <3>1. \A k \in i..Len(w) : ~Deletes(w[k], a) /\ ~Saves(w[k], a)
      <4> SUFFICES ASSUME NEW k \in i..Len(w) PROVE ~Deletes(w[k], a) /\ ~Saves(w[k], a)
        OBVIOUS
      <4>1. k \in 1..Len(w) /\ k + 1 \in (i + 1)..Len(q)
        BY <1>1
      <4>2. QED
        BY <1>3, <2>2, <4>1
    <3>2. CASE i = 1
      <4>1. nowV = g
        BY <1>1, <2>2, <3>2
      <4>2. QED
        BY <3>1, <3>2, <4>1 DEF RankAfter
    <3>3. CASE i # 1
      <4>1. i \in 2..Len(q) /\ i - 1 \in 1..Len(w) /\ w[i - 1] = q[i]
        BY <1>1, <1>2, <3>3
      <4>2. \A k \in ((i - 1) + 1)..Len(w) : ~Deletes(w[k], a) /\ ~Saves(w[k], a)
        BY <3>1
      <4>3. QED
        BY <2>2, <4>1, <4>2 DEF RankAfter
    <3>4. QED
      BY <3>2, <3>3
  <2>3. QED
    BY <1>6, <2>1, <2>2 DEF RankAfter
<1>7. QED
  BY <1>5, <1>6 DEF w

-----------------------------------------------------------------------------
\* What jobs added and run make of Settled.

LEMMA OneEffect ==
    ASSUME NEW j, NEW a
    PROVE  /\ Registers(j, a) => ~Deletes(j, a) /\ ~Saves(j, a)
           /\ Deletes(j, a) => ~Registers(j, a) /\ ~Saves(j, a)
           /\ Saves(j, a) => ~Registers(j, a) /\ ~Deletes(j, a)
BY DEF Registers, Deletes, Saves

LEMMA SettledGrows ==
    ASSUME NEW q \in Seq(Job), NEW j \in Job, NEW inRows, NEW v, NEW a, NEW kept, NEW g,
           Settled(inRows, v, q, a, kept, g)
    PROVE  /\ Spares(j, a) => Settled(inRows, v, Append(q, j), a, kept, g)
           /\ Registers(j, a) => Settled(inRows, v, Append(q, j), a, TRUE, g)
           /\ Deletes(j, a) => Settled(inRows, v, Append(q, j), a, FALSE, 0)
           /\ Saves(j, a) /\ kept => Settled(inRows, v, Append(q, j), a, kept, j.generation)
<1> DEFINE w == Append(q, j)
<1>1. /\ Len(q) \in Nat /\ w[Len(q) + 1] = j /\ Len(w) = Len(q) + 1
      /\ \A i \in 1..Len(q) : w[i] = q[i]
  BY Longer
<1>2. /\ \A n \in 0..Len(q) : RowAfter(inRows, w, a, n) <=> RowAfter(inRows, q, a, n)
      /\ RowAfter(inRows, w, a, Len(w)) <=>
           Registers(j, a) \/ (~Deletes(j, a) /\ RowAfter(inRows, q, a, Len(q)))
  BY <1>1, RowLonger
<1>3. /\ ~Deletes(j, a) /\ ~Saves(j, a) => RankAfter(v, w, a, g)
      /\ Deletes(j, a) => RankAfter(v, w, a, 0)
      /\ Saves(j, a) => RankAfter(v, w, a, j.generation)
  BY RankLonger DEF Settled
<1> HIDE DEF w
<1>4. ASSUME Saves(j, a) => kept
      PROVE  \A i \in 1..Len(w) : Saves(w[i], a) => RowAfter(inRows, w, a, i - 1)
  <2> SUFFICES ASSUME NEW i \in 1..Len(w), Saves(w[i], a) PROVE RowAfter(inRows, w, a, i - 1)
    OBVIOUS
  <2>1. CASE i \in 1..Len(q)
    <3>1. i - 1 \in 0..Len(q) /\ RowAfter(inRows, q, a, i - 1)
      BY <1>1, <2>1 DEF Settled
    <3>2. QED
      BY <1>2, <3>1
  <2>2. CASE i = Len(q) + 1
    <3>1. RowAfter(inRows, q, a, Len(q)) /\ Len(q) \in 0..Len(q) /\ i - 1 = Len(q)
      BY <1>1, <1>4, <2>2 DEF Settled
    <3>2. QED
      BY <1>2, <3>1
  <2>3. QED
    BY <1>1, <2>1, <2>2
<1>5. RowAfter(inRows, q, a, Len(q)) <=> kept
  BY DEF Settled
<1>6. ~inRows => v = 0
  BY DEF Settled
<1>7. QED
  BY <1>2, <1>3, <1>4, <1>5, <1>6, OneEffect DEF Settled, Spares, w

LEMMA SettledShrinks ==
    ASSUME NEW q \in Seq(Job), q # <<>>, NEW inRows, NEW v, NEW a, NEW kept, NEW g,
           NEW nowInRows, NEW nowV,
           nowInRows <=> Registers(Head(q), a) \/ (~Deletes(Head(q), a) /\ inRows),
           Deletes(Head(q), a) => nowV = 0,
           Saves(Head(q), a) => nowV = Head(q).generation,
           ~Deletes(Head(q), a) /\ ~Saves(Head(q), a) => nowV = v,
           Settled(inRows, v, q, a, kept, g)
    PROVE  Settled(nowInRows, nowV, Tail(q), a, kept, g)
<1> DEFINE w == Tail(q)
<1>1. /\ Len(q) \in Nat \ {0} /\ Head(q) = q[1] /\ Len(w) = Len(q) - 1
      /\ \A i \in 1..Len(w) : w[i] = q[i + 1]
  BY Shorter
<1>2. \A n \in 1..Len(q) : RowAfter(nowInRows, w, a, n - 1) <=> RowAfter(inRows, q, a, n)
  BY RowShorter
<1>3. RankAfter(nowV, w, a, g)
  BY RankShorter DEF Settled
<1> HIDE DEF w
<1>4. RowAfter(nowInRows, w, a, Len(w)) <=> kept
  <2>1. Len(q) \in 1..Len(q) /\ Len(w) = Len(q) - 1
    BY <1>1
  <2>2. QED
    BY <1>2, <2>1 DEF Settled
<1>5. \A i \in 1..Len(w) : Saves(w[i], a) => RowAfter(nowInRows, w, a, i - 1)
  <2> SUFFICES ASSUME NEW i \in 1..Len(w), Saves(w[i], a) PROVE RowAfter(nowInRows, w, a, i - 1)
    OBVIOUS
  <2>1. i \in 1..Len(q) /\ i + 1 \in 1..Len(q) /\ (i + 1) - 1 = i /\ Saves(q[i + 1], a)
    BY <1>1
  <2>2. RowAfter(inRows, q, a, i)
    BY <2>1 DEF Settled
  <2>3. QED
    BY <1>2, <2>1, <2>2
<1>6. ~nowInRows => nowV = 0
  <2>1. CASE Saves(Head(q), a)
    <3>1. 1 \in 1..Len(q) /\ 1 - 1 = 0 /\ Saves(q[1], a)
      BY <1>1, <2>1
    <3>2. RowAfter(inRows, q, a, 0)
      BY <3>1 DEF Settled
    <3>3. inRows
      BY <3>2 DEF RowAfter
    <3>4. QED
      BY <2>1, <3>3, OneEffect
  <2>2. QED
    BY <2>1 DEF Settled
<1>7. QED
  BY <1>3, <1>4, <1>5, <1>6 DEF Settled, w

LEMMA HeadReplaced ==
    ASSUME NEW q \in Seq(Job), q # <<>>, NEW j \in Job
    PROVE  /\ <<j>> \o Tail(q) \in Seq(Job) /\ Len(<<j>> \o Tail(q)) = Len(q)
           /\ (<<j>> \o Tail(q))[1] = j
           /\ \A i \in 2..Len(q) : (<<j>> \o Tail(q))[i] = q[i]
<1>1. /\ Tail(q) \in Seq(Job) /\ <<j>> \in Seq(Job) /\ Len(q) \in Nat \ {0}
      /\ Len(Tail(q)) = Len(q) - 1
      /\ \A i \in 1..(Len(q) - 1) : Tail(q)[i] = q[i + 1]
  BY Shorter
<1>2. QED
  BY <1>1, ConcatProperties

\* The job that is running has one more step to do.
LEMMA SettledHeads ==
    ASSUME NEW q \in Seq(Job), q # <<>>, NEW j \in Job, NEW inRows, NEW v, NEW a, NEW kept, NEW g,
           Spares(Head(q), a), Spares(j, a), Settled(inRows, v, q, a, kept, g)
    PROVE  Settled(inRows, v, <<j>> \o Tail(q), a, kept, g)
<1> DEFINE w == <<j>> \o Tail(q)
<1>1. /\ Tail(q) \in Seq(Job) /\ <<j>> \in Seq(Job) /\ Len(q) \in Nat \ {0}
      /\ Head(q) = q[1] /\ Len(Tail(q)) = Len(q) - 1
      /\ \A i \in 1..(Len(q) - 1) : Tail(q)[i] = q[i + 1]
  BY Shorter
<1>2. /\ Len(w) = Len(q) /\ w[1] = j /\ \A i \in 2..Len(q) : w[i] = q[i]
  BY HeadReplaced
<1> HIDE DEF w
<1>3. /\ \A i \in 1..Len(q) : /\ Registers(w[i], a) <=> Registers(q[i], a)
                              /\ Deletes(w[i], a) <=> Deletes(q[i], a)
                              /\ Saves(w[i], a) <=> Saves(q[i], a)
                              /\ Saves(q[i], a) => w[i] = q[i]
  BY <1>1, <1>2 DEF Spares
<1>4. \A n \in 0..Len(q) : RowAfter(inRows, w, a, n) <=> RowAfter(inRows, q, a, n)
  <2> SUFFICES ASSUME NEW n \in 0..Len(q)
               PROVE  RowAfter(inRows, w, a, n) <=> RowAfter(inRows, q, a, n)
    OBVIOUS
  <2>1. \A i \in 1..n : i \in 1..Len(q) /\ \A k \in (i + 1)..n : k \in 1..Len(q)
    BY <1>1
  <2>2. QED
    BY <1>3, <2>1 DEF RowAfter
<1>5. RankAfter(v, w, a, g)
  <2>1. \A i \in 1..Len(q) : \A k \in (i + 1)..Len(q) : k \in 1..Len(q)
    BY <1>1
  <2>2. QED
    BY <1>2, <1>3, <2>1 DEF RankAfter, Settled
<1>6. \A i \in 1..Len(q) : i - 1 \in 0..Len(q) /\ Len(q) \in 0..Len(q)
  BY <1>1
<1>7. QED
  BY <1>1, <1>2, <1>3, <1>4, <1>5, <1>6 DEF Settled, w

LEMMA TwoMore ==
    ASSUME NEW q \in Seq(Job), NEW i \in Job, NEW j \in Job
    PROVE  q \o <<i, j>> = Append(Append(q, i), j)
<1>1. /\ <<i, j>> \in Seq(Job) /\ Len(<<i, j>>) = 2 /\ <<i, j>>[1] = i /\ <<i, j>>[2] = j
      /\ Len(q) \in Nat
  BY LenProperties
<1>2. /\ Append(q, i) \in Seq(Job) /\ Append(Append(q, i), j) \in Seq(Job)
      /\ q \o <<i, j>> \in Seq(Job)
      /\ Len(q \o <<i, j>>) = Len(Append(Append(q, i), j))
  BY <1>1, AppendProperties, ConcatProperties
<1>3. ASSUME NEW k \in 1..(Len(q) + 2) PROVE (q \o <<i, j>>)[k] = Append(Append(q, i), j)[k]
  <2>1. Append(q, i) \in Seq(Job) /\ Len(Append(q, i)) = Len(q) + 1
    BY AppendProperties
  <2>2. CASE k \in 1..Len(q)
    BY <1>1, <2>1, <2>2, AppendProperties, ConcatProperties
  <2>3. CASE k = Len(q) + 1
    BY <1>1, <2>1, <2>3, AppendProperties, ConcatProperties
  <2>4. CASE k = Len(q) + 2
    BY <1>1, <2>1, <2>4, AppendProperties, ConcatProperties
  <2>5. QED
    BY <1>1, <2>2, <2>3, <2>4
<1>4. Len(q \o <<i, j>>) = Len(q) + 2
  BY <1>1, ConcatProperties
<1>5. QED
  BY <1>2, <1>3, <1>4, SeqEqual

-----------------------------------------------------------------------------
\* The steps of the manager.

LEMMA ManagerTypes ==
    ASSUME ManagerInv
    PROVE  /\ ServiceTypeOK /\ QueueTypeOK
           /\ accounts \subseteq Accounts /\ loaded \in BOOLEAN /\ observed \subseteq Accounts
           /\ pending \subseteq Accounts /\ busy \subseteq Accounts /\ cooling \subseteq Accounts
           /\ ranks \in [Accounts -> Generations] /\ rewards \in [Accounts -> Generations]
           /\ since \in [Accounts -> Generations] /\ savedRanks \in [Accounts -> Generations]
           /\ savedRewards \in [Accounts -> Generations]
           /\ jobs \in Seq(Job) /\ rows \subseteq Accounts
           /\ nextTrackedGeneration \in Generations
           /\ trackedQueuedOrInFlight \in [Accounts -> Generations]
           /\ 0 \in Generations /\ Generations \subseteq Nat
BY GenerationAssumption DEF ManagerInv, AccountTypeOK, ServiceTypeOK, QueueTypeOK, Generations

LEMMA ManagerInitially == AccountInit => ManagerInv
<1> SUFFICES ASSUME AccountInit PROVE ManagerInv
  OBVIOUS
<1> DEFINE first == [op |-> "Load"]
           second == [op |-> "StartupRefresh"]
<1>1. ServiceInit /\ ServiceTypeOK
  BY InitInductive DEF AccountInit, Inductive
<1>2. /\ jobs = <<first, second>> /\ first \in Job /\ second \in Job
      /\ first.op = "Load" /\ second.op = "StartupRefresh"
  BY JobsMade DEF AccountInit
<1> HIDE DEF first, second
<1>3. jobs \in Seq(Job) /\ Len(jobs) = 2 /\ jobs[1] = first /\ jobs[2] = second
  BY <1>2
<1>4. 0 \in Generations /\ Nothing \in [Accounts -> Generations] /\ \A a \in Accounts : Nothing[a] = 0
  BY GenerationAssumption DEF Nothing, Generations
<1>5. AccountTypeOK
  BY <1>1, <1>3, <1>4 DEF AccountInit, AccountTypeOK
<1>6. \A a \in Accounts : trackedQueuedOrInFlight[a] = 0
  BY <1>1 DEF ServiceInit, QueueInit
<1>7. RefreshHasOwner /\ BusyExactlyWhenPending
  BY <1>6 DEF AccountInit, RefreshHasOwner, BusyExactlyWhenPending
<1>8. LoadsOnce
  BY DEF AccountInit, LoadsOnce
<1>9. AllSettled
  <2> SUFFICES ASSUME NEW a \in Accounts
               PROVE  Settled(a \in rows, savedRanks[a], jobs, a, a \in Kept, ranks[a])
    BY DEF AllSettled
  <2>1. \A i \in 1..Len(jobs) : Spares(jobs[i], a)
    BY <1>2, <1>3 DEF Spares, Registers, Deletes, Saves
  <2>2. savedRanks[a] = 0 /\ ranks[a] = 0 /\ Kept = rows
    BY <1>4 DEF AccountInit, Kept
  <2>3. QED
    BY <1>3, <2>1, <2>2 DEF Spares, Settled, RowAfter, RankAfter
<1>10. RanksNew
  BY <1>1, <1>4, <1>6 DEF AccountInit, RanksNew, ServiceInit, QueueInit
<1>11. QED
  BY <1>5, <1>7, <1>8, <1>9, <1>10 DEF ManagerInv

\* Whose request a step of the service answers or ends: steps that leave the entries and what the
\* worker is at alone answer and end none.
LEMMA OwnersKept ==
    ASSUME ManagerInv, accounts \subseteq accounts', pending \subseteq pending',
           UNCHANGED trackedQueuedOrInFlight, UNCHANGED workerVars \/ pc # "finish"
    PROVE  RefreshHasOwner'
BY DEF ManagerInv, RefreshHasOwner, Answered, IsCurrent, IsTracked, workerVars

LEMMA RefreshKeeps ==
    ASSUME ManagerInv, NEW a \in accounts, NEW manual \in BOOLEAN, RefreshLocked(a, manual),
           UNCHANGED serviceOthers
    PROVE  /\ UNCHANGED <<accounts, loaded, observed, ranks, rewards, since>>
           /\ pending' \subseteq Accounts /\ busy' \subseteq Accounts /\ cooling' \subseteq Accounts
           /\ RefreshHasOwner' /\ BusyExactlyWhenPending' /\ RanksNew'
<1>0. a \in Accounts /\ a \notin pending
  BY ManagerTypes DEF RefreshLocked
<1>1. UNCHANGED <<accounts, loaded, observed, ranks, rewards, since, workerVars>>
  BY DEF RefreshLocked, serviceOthers
<1>2. CASE ~ProviderAvailable
  <2>1. busy' = busy \ {a} /\ UNCHANGED <<trackedQueuedOrInFlight, nextTrackedGeneration, pending, cooling>>
    BY <1>2 DEF RefreshLocked, queueVars, dedupeVars
  <2>2. RefreshHasOwner'
    BY <1>1, <2>1, OwnersKept
  <2>3. QED
    BY <1>0, <1>1, <2>1, <2>2, ManagerTypes DEF ManagerInv, BusyExactlyWhenPending, RanksNew
<1>3. CASE ProviderAvailable
  <2>1. /\ pending' = pending \cup {a} /\ busy' = busy \cup {a} /\ cooling' \subseteq cooling \cup {a}
    BY <1>3 DEF RefreshLocked
  <2>2. BusyExactlyWhenPending'
    BY <1>1, <2>1 DEF ManagerInv, BusyExactlyWhenPending
  <2>3. CASE EnqueueTrackedRequest(a)
    <3>1. /\ nextTrackedGeneration' = nextTrackedGeneration + 1
          /\ trackedQueuedOrInFlight' = [trackedQueuedOrInFlight EXCEPT ![a] = nextTrackedGeneration + 1]
      BY <2>3 DEF EnqueueTrackedRequest
    <3>2. RefreshHasOwner'
      BY <1>0, <1>1, <2>1, <3>1, ManagerTypes
      DEF ManagerInv, RefreshHasOwner, Answered, IsCurrent, IsTracked, workerVars
    <3>3. RanksNew'
      <4> SUFFICES ASSUME NEW b \in Accounts
                   PROVE  /\ since[b] <= nextTrackedGeneration'
                          /\ trackedQueuedOrInFlight'[b] # 0 => trackedQueuedOrInFlight'[b] > since[b]
                          /\ ranks[b] # 0 => b \in accounts /\ ranks[b] > since[b]
        BY <1>1 DEF RanksNew
      <4>1. /\ since[b] \in Nat /\ nextTrackedGeneration \in Nat
            /\ trackedQueuedOrInFlight[b] \in Nat
            /\ trackedQueuedOrInFlight'[b] =
                 IF b = a THEN nextTrackedGeneration + 1 ELSE trackedQueuedOrInFlight[b]
        BY <3>1, ManagerTypes
      <4>2. QED
        BY <3>1, <4>1 DEF ManagerInv, RanksNew
    <3>4. QED
      BY <1>0, <1>1, <2>1, <2>2, <3>2, <3>3, ManagerTypes
  <2>4. CASE UNCHANGED queueVars
    <3>1. RefreshHasOwner'
      BY <1>1, <2>1, <2>4, OwnersKept DEF queueVars, dedupeVars
    <3>2. RanksNew'
      BY <1>1, <2>4 DEF ManagerInv, RanksNew, queueVars, dedupeVars
    <3>3. QED
      BY <1>0, <1>1, <2>1, <2>2, <3>1, <3>2, ManagerTypes
  <2>5. QED
    BY <1>3, <2>3, <2>4 DEF RefreshLocked
<1>4. QED
  BY <1>2, <1>3

\* What a call that leaves the service alone, or takes an account out of it, makes of the jobs.
LEMMA JobsOf ==
    ASSUME ManagerInv, NEW a \in Accounts
    PROVE  /\ Settled(a \in rows, savedRanks[a], jobs, a, a \in Kept, ranks[a])
           /\ loaded => Kept = accounts
BY DEF ManagerInv, AllSettled, Kept

LEMMA LoadedWhenTracked ==
    ASSUME ManagerInv, accounts # {}
    PROVE  loaded /\ \A i \in 1..Len(jobs) : jobs[i].op # "Load"
BY DEF ManagerInv, LoadsOnce

LEMMA LoadsOnceGrows ==
    ASSUME ManagerInv, loaded, loaded', NEW j \in Job, j.op # "Load", jobs' = Append(jobs, j)
    PROVE  LoadsOnce'
<1>1. \A i \in 1..Len(jobs) : jobs[i].op # "Load"
  BY DEF ManagerInv, LoadsOnce
<1>2. /\ Len(jobs') = Len(jobs) + 1 /\ Len(jobs) \in Nat /\ jobs'[Len(jobs) + 1] = j
      /\ \A i \in 1..Len(jobs) : jobs'[i] = jobs[i]
  BY ManagerTypes, Longer
<1>3. \A i \in 1..Len(jobs') : i \in 1..Len(jobs) \/ i = Len(jobs) + 1
  BY <1>2
<1>4. QED
  BY <1>1, <1>2, <1>3 DEF LoadsOnce

LEMMA LoadsOnceShrinks ==
    ASSUME ManagerInv, loaded, loaded', jobs # <<>>, jobs' = Tail(jobs)
    PROVE  LoadsOnce'
<1>1. \A i \in 1..Len(jobs) : jobs[i].op # "Load"
  BY DEF ManagerInv, LoadsOnce
<1>2. /\ Len(jobs') = Len(jobs) - 1 /\ Len(jobs) \in Nat
      /\ \A i \in 1..Len(jobs') : jobs'[i] = jobs[i + 1] /\ i + 1 \in 1..Len(jobs)
  BY ManagerTypes, Shorter
<1>3. QED
  BY <1>1, <1>2 DEF LoadsOnce

\* Registering accounts that are not tracked.
LEMMA RegisterKeeps ==
    ASSUME ManagerInv, ServiceTypeOK', loaded, NEW S \in SUBSET Accounts, S \cap accounts = {},
           RegisterLocked(S), UNCHANGED <<vars, observed, tableVars>>
    PROVE  /\ RefreshHasOwner' /\ BusyExactlyWhenPending' /\ RanksNew'
           /\ jobs' \in Seq(Job) => AccountTypeOK'
           /\ loaded' /\ accounts' = accounts \cup S /\ UNCHANGED <<ranks, savedRanks, rows>>
<1>1. /\ accounts' = accounts \cup S
      /\ since' = [a \in Accounts |-> IF a \in S THEN nextTrackedGeneration ELSE since[a]]
      /\ UNCHANGED <<loaded, observed, pending, busy, cooling, ranks, rewards, rows, savedRanks,
                     savedRewards, trackedQueuedOrInFlight, nextTrackedGeneration, workerVars>>
  BY DEF RegisterLocked, vars, queueVars, dedupeVars, tableVars
<1>2. RefreshHasOwner' /\ BusyExactlyWhenPending'
  BY <1>1, OwnersKept DEF ManagerInv, BusyExactlyWhenPending
<1>3. since' \in [Accounts -> Generations]
  BY <1>1, ManagerTypes
<1>4. jobs' \in Seq(Job) => AccountTypeOK'
  BY <1>1, <1>3, ManagerTypes DEF AccountTypeOK
<1>5. RanksNew'
  <2> SUFFICES ASSUME NEW a \in Accounts
               PROVE  /\ since'[a] <= nextTrackedGeneration
                      /\ trackedQueuedOrInFlight[a] # 0 => trackedQueuedOrInFlight[a] > since'[a]
                      /\ ranks[a] # 0 => a \in accounts' /\ ranks[a] > since'[a]
    BY <1>1 DEF RanksNew
  <2>1. since'[a] = IF a \in S THEN nextTrackedGeneration ELSE since[a]
    BY <1>1
  <2>2. nextTrackedGeneration \in Nat
    BY ManagerTypes
  <2>3. a \in S => trackedQueuedOrInFlight[a] = 0 /\ ranks[a] = 0
    BY DEF ManagerInv, RefreshHasOwner, RanksNew
  <2>4. QED
    BY <1>1, <2>1, <2>2, <2>3 DEF ManagerInv, RanksNew
<1>6. QED
  BY <1>1, <1>2, <1>4, <1>5

LEMMA CallsPreserve ==
    ASSUME ManagerInv, ServiceTypeOK', UserCall \/ \E a \in Accounts : CooldownEnds(a)
    PROVE  ManagerInv'
<1>1. ASSUME NEW a \in Accounts, Refresh(a)
      PROVE  ManagerInv'
  <2>1. /\ a \in accounts /\ RefreshLocked(a, TRUE) /\ UNCHANGED serviceOthers
        /\ UNCHANGED <<jobs, rows, savedRanks, savedRewards>>
    BY <1>1 DEF Refresh, tableVars
  <2>2. /\ UNCHANGED <<accounts, loaded, observed, ranks, rewards, since>>
        /\ pending' \subseteq Accounts /\ busy' \subseteq Accounts /\ cooling' \subseteq Accounts
        /\ RefreshHasOwner' /\ BusyExactlyWhenPending' /\ RanksNew'
    BY <2>1, RefreshKeeps
  <2>3. AccountTypeOK'
    BY <2>1, <2>2, ManagerTypes DEF AccountTypeOK
  <2>4. LoadsOnce'
    BY <2>1, <2>2, LoadedWhenTracked DEF LoadsOnce
  <2>5. AllSettled'
    BY <2>1, <2>2, JobsOf DEF AllSettled, Kept
  <2>6. QED
    BY <2>2, <2>3, <2>4, <2>5 DEF ManagerInv
<1>2. ASSUME NEW S \in SUBSET Accounts, Add(S)
      PROVE  ManagerInv'
  <2> DEFINE register == [op |-> "Register", ids |-> S]
             resolve == [op |-> "Resolve", ids |-> S]
             between == Append(jobs, register)
  <2>1. /\ register \in Job /\ register.op = "Register" /\ register.ids = S
        /\ resolve \in Job /\ resolve.op = "Resolve"
    BY JobsMade
  <2>2. /\ loaded /\ S \cap accounts = {} /\ RegisterLocked(S)
        /\ jobs' = jobs \o <<register, resolve>>
        /\ UNCHANGED <<vars, observed, tableVars>>
    BY <1>2 DEF Add, vars, serviceOthers, others
  <2> HIDE DEF register, resolve
  <2>3. jobs' = Append(between, resolve) /\ between \in Seq(Job) /\ jobs' \in Seq(Job)
    BY <2>1, <2>2, ManagerTypes, TwoMore, Longer
  <2>4. /\ RefreshHasOwner' /\ BusyExactlyWhenPending' /\ RanksNew' /\ AccountTypeOK'
        /\ loaded' /\ accounts' = accounts \cup S /\ UNCHANGED <<ranks, savedRanks, rows>>
    BY <2>2, <2>3, RegisterKeeps
  <2>5. LoadsOnce'
    <3>1. \A i \in 1..Len(jobs) : jobs[i].op # "Load"
      BY <2>2 DEF ManagerInv, LoadsOnce
    <3>2. /\ Len(jobs) \in Nat /\ Len(jobs') = Len(jobs) + 2
          /\ \A i \in 1..Len(jobs) : jobs'[i] = jobs[i]
          /\ jobs'[Len(jobs) + 1] = register /\ jobs'[Len(jobs) + 2] = resolve
      BY <2>1, <2>3, ManagerTypes, Longer
    <3>3. \A i \in 1..Len(jobs') : i \in 1..Len(jobs) \/ i = Len(jobs) + 1 \/ i = Len(jobs) + 2
      BY <3>2
    <3>4. QED
      BY <2>1, <2>4, <3>1, <3>2, <3>3 DEF LoadsOnce
  <2>6. AllSettled'
    <3> SUFFICES ASSUME NEW a \in Accounts
                 PROVE  Settled(a \in rows, savedRanks[a], jobs', a, a \in accounts', ranks[a])
      BY <2>4 DEF AllSettled, Kept
    <3>1. Settled(a \in rows, savedRanks[a], jobs, a, a \in accounts, ranks[a])
      BY <2>2, JobsOf
    <3>2. Settled(a \in rows, savedRanks[a], between, a, a \in accounts', ranks[a])
      <4>1. CASE a \in S
        <5>1. Registers(register, a) /\ a \in accounts'
          BY <2>1, <2>4, <4>1 DEF Registers
        <5>2. Settled(a \in rows, savedRanks[a], between, a, TRUE, ranks[a])
          BY <2>1, <3>1, <5>1, ManagerTypes, SettledGrows
        <5>3. QED
          BY <5>1, <5>2 DEF Settled
      <4>2. CASE a \notin S
        <5>1. Spares(register, a) /\ (a \in accounts' <=> a \in accounts)
          BY <2>1, <2>4, <4>2 DEF Spares, Registers, Deletes, Saves
        <5>2. Settled(a \in rows, savedRanks[a], between, a, a \in accounts, ranks[a])
          BY <2>1, <3>1, <5>1, ManagerTypes, SettledGrows
        <5>3. QED
          BY <5>1, <5>2 DEF Settled
      <4>3. QED
        BY <4>1, <4>2
    <3>3. Spares(resolve, a)
      BY <2>1 DEF Spares, Registers, Deletes, Saves
    <3>4. QED
      BY <2>1, <2>3, <3>2, <3>3, SettledGrows
  <2>7. QED
    BY <2>4, <2>5, <2>6 DEF ManagerInv
<1>3. ASSUME NEW a \in Accounts, Remove(a)
      PROVE  ManagerInv'
  <2> DEFINE delete == [op |-> "Delete", id |-> a]
  <2>1. delete \in Job /\ delete.op = "Delete" /\ delete.id = a
    BY JobsMade
  <2>2. /\ a \in accounts /\ accounts' = accounts \ {a}
        /\ pending' = pending \ {a} /\ busy' = busy \ {a} /\ cooling' = cooling \ {a}
        /\ ranks' = [ranks EXCEPT ![a] = 0] /\ rewards' = [rewards EXCEPT ![a] = 0]
        /\ since' = [since EXCEPT ![a] = 0]
        /\ trackedQueuedOrInFlight' = [trackedQueuedOrInFlight EXCEPT ![a] = 0]
        /\ jobs' = Append(jobs, delete)
        /\ UNCHANGED <<nextTrackedGeneration, workerVars, loaded, observed, rows, savedRanks,
                       savedRewards>>
    BY <1>3 DEF Remove, CancelTrackedRequest, serviceOthers, tableVars
  <2> HIDE DEF delete
  <2>3. loaded /\ jobs' \in Seq(Job)
    BY <2>1, <2>2, ManagerTypes, LoadedWhenTracked, Longer
  <2>4. AccountTypeOK'
    BY <2>2, <2>3, ManagerTypes DEF AccountTypeOK
  <2>5. RefreshHasOwner'
    BY <2>2, ManagerTypes
    DEF ManagerInv, RefreshHasOwner, Answered, IsCurrent, IsTracked, workerVars
  <2>6. BusyExactlyWhenPending'
    BY <2>2 DEF ManagerInv, BusyExactlyWhenPending
  <2>7. LoadsOnce'
    BY <2>1, <2>2, <2>3, LoadsOnceGrows
  <2>8. RanksNew'
    <3> SUFFICES ASSUME NEW b \in Accounts
                 PROVE  /\ since'[b] <= nextTrackedGeneration
                        /\ trackedQueuedOrInFlight'[b] # 0 => trackedQueuedOrInFlight'[b] > since'[b]
                        /\ ranks'[b] # 0 => b \in accounts' /\ ranks'[b] > since'[b]
      BY <2>2 DEF RanksNew
    <3>1. CASE b = a
      <4>1. since'[b] = 0 /\ trackedQueuedOrInFlight'[b] = 0 /\ ranks'[b] = 0
        BY <2>2, <3>1, ManagerTypes
      <4>2. nextTrackedGeneration \in Nat
        BY ManagerTypes
      <4>3. QED
        BY <4>1, <4>2
    <3>2. CASE b # a
      <4>1. /\ since'[b] = since[b] /\ ranks'[b] = ranks[b]
            /\ trackedQueuedOrInFlight'[b] = trackedQueuedOrInFlight[b]
        BY <2>2, <3>2, ManagerTypes
      <4>2. QED
        BY <2>2, <3>2, <4>1 DEF ManagerInv, RanksNew
    <3>3. QED
      BY <3>1, <3>2
  <2>9. AllSettled'
    <3> SUFFICES ASSUME NEW b \in Accounts
                 PROVE  Settled(b \in rows, savedRanks[b], jobs', b, b \in accounts', ranks'[b])
      BY <2>2, <2>3 DEF AllSettled, Kept
    <3>1. Settled(b \in rows, savedRanks[b], jobs, b, b \in accounts, ranks[b])
      BY <2>3, JobsOf
    <3>2. CASE b = a
      <4>1. Deletes(delete, b) /\ ranks'[b] = 0 /\ b \notin accounts'
        BY <2>1, <2>2, <3>2, ManagerTypes DEF Deletes
      <4>2. Settled(b \in rows, savedRanks[b], jobs', b, FALSE, 0)
        BY <2>1, <2>2, <3>1, <4>1, ManagerTypes, SettledGrows
      <4>3. QED
        BY <4>1, <4>2 DEF Settled
    <3>3. CASE b # a
      <4>1. Spares(delete, b) /\ ranks'[b] = ranks[b] /\ (b \in accounts' <=> b \in accounts)
        BY <2>1, <2>2, <3>3, ManagerTypes DEF Spares, Registers, Deletes, Saves
      <4>2. Settled(b \in rows, savedRanks[b], jobs', b, b \in accounts, ranks[b])
        BY <2>1, <2>2, <3>1, <4>1, ManagerTypes, SettledGrows
      <4>3. QED
        BY <4>1, <4>2 DEF Settled
    <3>4. QED
      BY <3>2, <3>3
  <2>10. QED
    BY <2>4, <2>5, <2>6, <2>7, <2>8, <2>9 DEF ManagerInv
<1>4. ASSUME NEW a \in Accounts, Observe(a), loaded
      PROVE  ManagerInv'
  <2> DEFINE register == [op |-> "Register", ids |-> {a}]
  <2>1. register \in Job /\ register.op = "Register" /\ register.ids = {a}
    BY JobsMade
  <2>2. /\ a \notin accounts /\ RegisterLocked({a})
        /\ jobs' = Append(jobs, register)
        /\ UNCHANGED <<vars, observed, tableVars>>
    BY <1>4 DEF Observe, vars, serviceOthers, others
  <2> HIDE DEF register
  <2>3. jobs' \in Seq(Job)
    BY <2>1, <2>2, ManagerTypes, Longer
  <2>4. /\ RefreshHasOwner' /\ BusyExactlyWhenPending' /\ RanksNew' /\ AccountTypeOK'
        /\ loaded' /\ accounts' = accounts \cup {a} /\ UNCHANGED <<ranks, savedRanks, rows>>
    BY <1>4, <2>2, <2>3, RegisterKeeps
  <2>5. LoadsOnce'
    BY <1>4, <2>1, <2>2, <2>4, LoadsOnceGrows
  <2>6. AllSettled'
    <3> SUFFICES ASSUME NEW b \in Accounts
                 PROVE  Settled(b \in rows, savedRanks[b], jobs', b, b \in accounts', ranks[b])
      BY <2>4 DEF AllSettled, Kept
    <3>1. Settled(b \in rows, savedRanks[b], jobs, b, b \in accounts, ranks[b])
      BY <1>4, JobsOf
    <3>2. CASE b = a
      <4>1. Registers(register, b) /\ b \in accounts'
        BY <2>1, <2>4, <3>2 DEF Registers
      <4>2. Settled(b \in rows, savedRanks[b], jobs', b, TRUE, ranks[b])
        BY <2>1, <2>2, <3>1, <4>1, ManagerTypes, SettledGrows
      <4>3. QED
        BY <4>1, <4>2 DEF Settled
    <3>3. CASE b # a
      <4>1. Spares(register, b) /\ (b \in accounts' <=> b \in accounts)
        BY <2>1, <2>4, <3>3 DEF Spares, Registers, Deletes, Saves
      <4>2. Settled(b \in rows, savedRanks[b], jobs', b, b \in accounts, ranks[b])
        BY <2>1, <2>2, <3>1, <4>1, ManagerTypes, SettledGrows
      <4>3. QED
        BY <4>1, <4>2 DEF Settled
    <3>4. QED
      BY <3>2, <3>3
  <2>7. QED
    BY <2>4, <2>5, <2>6 DEF ManagerInv
<1>5. ASSUME NEW a \in Accounts, (Observe(a) /\ ~loaded) \/ CooldownEnds(a)
      PROVE  ManagerInv'
  <2>1. /\ observed' \subseteq Accounts /\ cooling' \subseteq Accounts
        /\ UNCHANGED <<trackedQueuedOrInFlight, nextTrackedGeneration, workerVars, accounts,
                       loaded, pending, busy, ranks, rewards, since, jobs, rows, savedRanks,
                       savedRewards>>
    BY <1>5, ManagerTypes
    DEF Observe, CooldownEnds, vars, queueVars, dedupeVars, serviceOthers, tableVars
  <2>2. AccountTypeOK'
    BY <2>1, ManagerTypes DEF AccountTypeOK
  <2>3. RefreshHasOwner' /\ BusyExactlyWhenPending'
    BY <2>1, OwnersKept DEF ManagerInv, BusyExactlyWhenPending
  <2>4. LoadsOnce' /\ RanksNew'
    BY <2>1 DEF ManagerInv, LoadsOnce, RanksNew
  <2>5. AllSettled'
    BY <2>1, JobsOf DEF AllSettled, Kept
  <2>6. QED
    BY <2>2, <2>3, <2>4, <2>5 DEF ManagerInv
<1>6. QED
  BY <1>1, <1>2, <1>3, <1>4, <1>5 DEF UserCall

LEMMA NotLoading ==
    ASSUME ManagerInv, jobs # <<>>, Head(jobs).op # "Load"
    PROVE  loaded
<1>1. Head(jobs) = jobs[1]
  BY ManagerTypes, Shorter
<1>2. ~loaded => jobs[1] = [op |-> "Load"]
  BY DEF ManagerInv, LoadsOnce
<1>3. QED
  BY <1>1, <1>2, ManagerTypes

\* A job that changes only the tables.
LEMMA TableJob ==
    ASSUME ManagerInv, ServiceTypeOK', loaded, jobs # <<>>, jobs' = Tail(jobs),
           UNCHANGED <<vars, accounts, loaded, observed, pending, busy, cooling, ranks, since>>,
           rewards' \in [Accounts -> Generations], savedRewards' \in [Accounts -> Generations],
           savedRanks' \in [Accounts -> Generations], rows' \subseteq Accounts,
           \A a \in Accounts :
             /\ a \in rows' <=> Registers(Head(jobs), a) \/ (~Deletes(Head(jobs), a) /\ a \in rows)
             /\ Deletes(Head(jobs), a) => savedRanks'[a] = 0
             /\ Saves(Head(jobs), a) => savedRanks'[a] = Head(jobs).generation
             /\ ~Deletes(Head(jobs), a) /\ ~Saves(Head(jobs), a) => savedRanks'[a] = savedRanks[a]
    PROVE  ManagerInv'
<1>1. UNCHANGED <<trackedQueuedOrInFlight, nextTrackedGeneration, workerVars>>
  BY DEF vars, queueVars, dedupeVars
<1>2. AccountTypeOK'
  BY ManagerTypes, Shorter DEF AccountTypeOK
<1>3. RefreshHasOwner' /\ BusyExactlyWhenPending' /\ RanksNew'
  BY <1>1, OwnersKept DEF ManagerInv, BusyExactlyWhenPending, RanksNew
<1>4. LoadsOnce'
  BY LoadsOnceShrinks
<1>5. AllSettled'
  <2> SUFFICES ASSUME NEW a \in Accounts
               PROVE  Settled(a \in rows', savedRanks'[a], Tail(jobs), a, a \in accounts, ranks[a])
    BY DEF AllSettled, Kept
  <2>1. Settled(a \in rows, savedRanks[a], jobs, a, a \in accounts, ranks[a])
    BY JobsOf
  <2>2. QED
    BY <2>1, ManagerTypes, SettledShrinks
<1>6. QED
  BY <1>2, <1>3, <1>4, <1>5 DEF ManagerInv

\* A job that goes on with what it has left to do, or is done.
LEMMA Resolving ==
    ASSUME ManagerInv, loaded, loaded', jobs # <<>>, \A a \in Accounts : Spares(Head(jobs), a),
           NEW S \in SUBSET Accounts,
           jobs' = Tail(jobs) \/ jobs' = <<[op |-> "Resolve", ids |-> S]>> \o Tail(jobs),
           UNCHANGED <<accounts, ranks, rows, savedRanks>>
    PROVE  jobs' \in Seq(Job) /\ LoadsOnce' /\ AllSettled'
<1> DEFINE resolve == [op |-> "Resolve", ids |-> S]
<1>1. resolve \in Job /\ resolve.op = "Resolve"
  BY JobsMade
<1>2. \A a \in Accounts :
        Settled(a \in rows, savedRanks[a], jobs, a, a \in accounts, ranks[a])
  BY JobsOf
<1>3. CASE jobs' = Tail(jobs)
  <2>1. jobs' \in Seq(Job) /\ LoadsOnce'
    BY <1>3, ManagerTypes, Shorter, LoadsOnceShrinks
  <2>2. ASSUME NEW a \in Accounts
        PROVE  Settled(a \in rows, savedRanks[a], Tail(jobs), a, a \in accounts, ranks[a])
    <3>1. Spares(Head(jobs), a)
      OBVIOUS
    <3>2. /\ a \in rows <=> Registers(Head(jobs), a) \/ (~Deletes(Head(jobs), a) /\ a \in rows)
          /\ ~Deletes(Head(jobs), a) /\ ~Saves(Head(jobs), a)
      BY <3>1 DEF Spares
    <3>3. QED
      BY <1>2, <3>2, ManagerTypes, SettledShrinks
  <2>3. QED
    BY <1>3, <2>1, <2>2 DEF AllSettled, Kept
<1>4. CASE jobs' = <<resolve>> \o Tail(jobs)
  <2>1. Len(jobs) \in Nat \ {0}
    BY ManagerTypes, Shorter
  <2> HIDE DEF resolve
  <2>2. jobs' \in Seq(Job)
    BY <1>1, <1>4, ManagerTypes, HeadReplaced
  <2>3. LoadsOnce'
    <3>1. \A i \in 1..Len(jobs) : jobs[i].op # "Load"
      BY DEF ManagerInv, LoadsOnce
    <3>2. Len(jobs') = Len(jobs) /\ jobs'[1] = resolve /\ \A i \in 2..Len(jobs) : jobs'[i] = jobs[i]
      BY <1>1, <1>4, ManagerTypes, HeadReplaced
    <3>3. \A i \in 1..Len(jobs) : i = 1 \/ i \in 2..Len(jobs)
      BY <2>1
    <3>4. QED
      BY <1>1, <3>1, <3>2, <3>3 DEF LoadsOnce
  <2>4. ASSUME NEW a \in Accounts
        PROVE  Settled(a \in rows, savedRanks[a], <<resolve>> \o Tail(jobs), a, a \in accounts, ranks[a])
    <3>1. Spares(Head(jobs), a) /\ Spares(resolve, a)
      BY <1>1 DEF Spares, Registers, Deletes, Saves
    <3>2. QED
      BY <1>1, <1>2, <3>1, ManagerTypes, SettledHeads
  <2>5. QED
    BY <1>4, <2>2, <2>3, <2>4 DEF AllSettled, Kept
<1>5. QED
  BY <1>3, <1>4

LEMMA JobsPreserve ==
    ASSUME ManagerInv, ServiceTypeOK', JobStep
    PROVE  ManagerInv'
<1>0. jobs # <<>> /\ Head(jobs) \in Job
  <2>1. jobs # <<>>
    BY DEF JobStep, Load, StartupRefresh, RefreshNext, RegisterRows, DeleteRow, SaveRanks,
           SaveRewards, Running
  <2>2. QED
    BY <2>1, ManagerTypes, Shorter
<1>1. CASE Load
  <2> DEFINE added == observed \ rows
             register == [op |-> "Register", ids |-> added]
  <2>1. added \in SUBSET Accounts
    BY ManagerTypes
  <2>2. register \in Job /\ register.op = "Register" /\ register.ids = added
    BY <2>1, JobsMade
  <2>3. /\ Head(jobs).op = "Load" /\ accounts' = rows \cup observed
        /\ jobs' = IF added = {} THEN Tail(jobs) ELSE Append(Tail(jobs), register)
        /\ ranks' = savedRanks /\ rewards' = savedRewards /\ loaded' = TRUE /\ observed' = {}
        /\ UNCHANGED <<trackedQueuedOrInFlight, nextTrackedGeneration, workerVars, pending, busy,
                       cooling, since, rows, savedRanks, savedRewards>>
    BY <1>1 DEF Load, Running, vars, queueVars, dedupeVars, tableVars
  <2> HIDE DEF added, register
  <2>4. /\ ~loaded /\ Len(jobs) = 2 /\ Head(jobs) = jobs[1] /\ jobs[2] = [op |-> "StartupRefresh"]
        /\ accounts = {} /\ pending = {} /\ ranks = Nothing /\ savedRanks = Nothing
    <3>1. Head(jobs) = jobs[1] /\ Len(jobs) \in Nat \ {0}
      BY <1>0, ManagerTypes, Shorter
    <3>2. ~loaded
      BY <2>3, <3>1 DEF ManagerInv, LoadsOnce
    <3>3. QED
      BY <3>1, <3>2 DEF ManagerInv, LoadsOnce
  <2>5. /\ Tail(jobs) \in Seq(Job) /\ Len(Tail(jobs)) = 1
        /\ Tail(jobs)[1].op = "StartupRefresh"
    <3>1. /\ Tail(jobs) \in Seq(Job) /\ Len(Tail(jobs)) = Len(jobs) - 1
          /\ \A i \in 1..(Len(jobs) - 1) : Tail(jobs)[i] = jobs[i + 1]
      BY <1>0, ManagerTypes, Shorter
    <3>2. 1 \in 1..(Len(jobs) - 1) /\ 1 + 1 = 2 /\ Len(jobs) - 1 = 1
      BY <2>4
    <3>3. Tail(jobs)[1] = jobs[2]
      BY <3>1, <3>2
    <3>4. QED
      BY <2>4, <3>1, <3>2, <3>3, SMTT(30)
  <2>6. jobs' \in Seq(Job) /\ LoadsOnce'
    <3>1. CASE added = {}
      BY <2>3, <2>5, <3>1 DEF LoadsOnce
    <3>2. CASE added # {}
      <4>1. /\ jobs' \in Seq(Job) /\ Len(jobs') = 2 /\ jobs'[1] = Tail(jobs)[1]
            /\ jobs'[2] = register
        <5> DEFINE q == Tail(jobs)
        <5>1. jobs' = Append(q, register) /\ q \in Seq(Job) /\ Len(q) = 1
          BY <2>3, <2>5, <3>2
        <5> HIDE DEF q
        <5>2. /\ Append(q, register) \in Seq(Job) /\ Len(Append(q, register)) = Len(q) + 1
              /\ Append(q, register)[Len(q) + 1] = register
              /\ \A i \in 1..Len(q) : Append(q, register)[i] = q[i]
          BY <2>2, <5>1, Longer
        <5>3. 1 \in 1..Len(q) /\ Len(q) + 1 = 2
          BY <5>1
        <5>4. QED
          BY <5>1, <5>2, <5>3 DEF q
      <4>2. QED
        BY <2>2, <2>3, <2>5, <4>1, SMTT(30) DEF LoadsOnce
    <3>3. QED
      BY <3>1, <3>2
  <2>7. AccountTypeOK'
    BY <2>3, <2>6, ManagerTypes DEF AccountTypeOK
  <2>8. RefreshHasOwner' /\ BusyExactlyWhenPending'
    BY <2>3, <2>4, OwnersKept DEF ManagerInv, BusyExactlyWhenPending
  <2>9. RanksNew'
    BY <2>3, <2>4 DEF ManagerInv, RanksNew, Nothing
  <2>10. AllSettled'
    <3> SUFFICES ASSUME NEW a \in Accounts
                 PROVE  Settled(a \in rows, savedRanks[a], jobs', a, a \in accounts', ranks'[a])
      BY <2>3 DEF AllSettled, Kept
    <3>1. Spares(Head(jobs), a) /\ ranks[a] = savedRanks[a] /\ ranks'[a] = ranks[a]
      BY <2>3, <2>4 DEF Spares, Registers, Deletes, Saves
    <3>2. Settled(a \in rows, savedRanks[a], jobs, a, a \in rows, ranks[a])
      BY <2>4, JobsOf DEF Kept
    <3>3. Settled(a \in rows, savedRanks[a], Tail(jobs), a, a \in rows, ranks[a])
      <4>1. /\ a \in rows <=> Registers(Head(jobs), a) \/ (~Deletes(Head(jobs), a) /\ a \in rows)
            /\ ~Deletes(Head(jobs), a) /\ ~Saves(Head(jobs), a)
        BY <3>1 DEF Spares
      <4>2. QED
        BY <1>0, <3>2, <4>1, ManagerTypes, SettledShrinks
    <3>4. CASE a \in added
      <4>1. Registers(register, a) /\ a \in accounts' /\ jobs' = Append(Tail(jobs), register)
        BY <2>2, <2>3, <3>4 DEF Registers, added
      <4>2. Settled(a \in rows, savedRanks[a], jobs', a, TRUE, ranks[a])
        BY <2>2, <2>5, <3>3, <4>1, SettledGrows
      <4>3. QED
        BY <3>1, <4>1, <4>2 DEF Settled
    <3>5. CASE a \notin added
      <4>1. Spares(register, a) /\ (a \in accounts' <=> a \in rows)
        BY <2>2, <2>3, <3>5 DEF Spares, Registers, Deletes, Saves, added
      <4>2. Settled(a \in rows, savedRanks[a], jobs', a, a \in rows, ranks[a])
        BY <2>2, <2>3, <2>5, <3>3, <4>1, SettledGrows
      <4>3. QED
        BY <3>1, <4>1, <4>2 DEF Settled
    <3>6. QED
      BY <3>4, <3>5
  <2>11. QED
    BY <2>6, <2>7, <2>8, <2>9, <2>10 DEF ManagerInv
<1>2. ASSUME NEW stale \in SUBSET Accounts, StartupRefresh(stale)
      PROVE  ManagerInv'
  <2>1. /\ Head(jobs).op = "StartupRefresh"
        /\ jobs' = Tail(jobs) \/ jobs' = <<[op |-> "Resolve", ids |-> stale]>> \o Tail(jobs)
        /\ UNCHANGED <<trackedQueuedOrInFlight, nextTrackedGeneration, workerVars, accounts, loaded,
                       observed, pending, busy, cooling, ranks, rewards, since, rows, savedRanks,
                       savedRewards>>
    BY <1>2 DEF StartupRefresh, Running, vars, queueVars, dedupeVars, memoryVars, tableVars
  <2>2. loaded /\ \A a \in Accounts : Spares(Head(jobs), a)
    BY <1>0, <2>1, NotLoading DEF Spares, Registers, Deletes, Saves
  <2>3. jobs' \in Seq(Job) /\ LoadsOnce' /\ AllSettled'
    BY <1>0, <2>1, <2>2, Resolving
  <2>4. AccountTypeOK'
    BY <2>1, <2>3, ManagerTypes DEF AccountTypeOK
  <2>5. RefreshHasOwner' /\ BusyExactlyWhenPending' /\ RanksNew'
    BY <2>1, OwnersKept DEF ManagerInv, BusyExactlyWhenPending, RanksNew
  <2>6. QED
    BY <2>3, <2>4, <2>5 DEF ManagerInv
<1>3. ASSUME NEW a \in Accounts, RefreshNext(a)
      PROVE  ManagerInv'
  <2> DEFINE left == Head(jobs).ids \ {a}
  <2>1. /\ Head(jobs).op = "Resolve"
        /\ jobs' = Tail(jobs) \/ jobs' = <<[op |-> "Resolve", ids |-> left]>> \o Tail(jobs)
        /\ UNCHANGED <<serviceOthers, rows, savedRanks, savedRewards>>
    BY <1>3 DEF RefreshNext, Running, tableVars
  <2>2. loaded /\ left \in SUBSET Accounts /\ \A b \in Accounts : Spares(Head(jobs), b)
    BY <1>0, <2>1, NotLoading, JobFields DEF Spares, Registers, Deletes, Saves
  <2>3. /\ UNCHANGED <<accounts, loaded, observed, ranks, rewards, since>>
        /\ pending' \subseteq Accounts /\ busy' \subseteq Accounts /\ cooling' \subseteq Accounts
        /\ RefreshHasOwner' /\ BusyExactlyWhenPending' /\ RanksNew'
    <3>1. CASE a \in accounts \ pending
      <4>1. RefreshLocked(a, FALSE)
        BY <1>3, <3>1 DEF RefreshNext
      <4>2. QED
        BY <2>1, <3>1, <4>1, RefreshKeeps
    <3>2. CASE ~(a \in accounts \ pending)
      <4>1. UNCHANGED <<trackedQueuedOrInFlight, nextTrackedGeneration, workerVars, accounts, loaded,
                        observed, pending, busy, cooling, ranks, rewards, since>>
        BY <1>3, <2>1, <3>2
        DEF RefreshNext, queueVars, dedupeVars, memoryVars, serviceOthers
      <4>2. QED
        BY <4>1, OwnersKept, ManagerTypes DEF ManagerInv, BusyExactlyWhenPending, RanksNew
    <3>3. QED
      BY <3>1, <3>2
  <2>4. jobs' \in Seq(Job) /\ LoadsOnce' /\ AllSettled'
    BY <1>0, <2>1, <2>2, <2>3, Resolving
  <2>5. AccountTypeOK'
    BY <2>1, <2>3, <2>4, ManagerTypes DEF AccountTypeOK
  <2>6. QED
    BY <2>3, <2>4, <2>5 DEF ManagerInv
<1>4. CASE RegisterRows
  <2>1. /\ Head(jobs).op = "Register" /\ rows' = rows \cup Head(jobs).ids /\ jobs' = Tail(jobs)
        /\ UNCHANGED <<vars, accounts, loaded, observed, pending, busy, cooling, ranks, rewards,
                       since, savedRanks, savedRewards>>
    BY <1>4 DEF RegisterRows, Running, Done, memoryVars
  <2>2. loaded /\ rows' \subseteq Accounts
    BY <1>0, <2>1, NotLoading, JobFields, ManagerTypes
  <2>3. \A a \in Accounts :
          /\ Registers(Head(jobs), a) <=> a \in Head(jobs).ids
          /\ ~Deletes(Head(jobs), a) /\ ~Saves(Head(jobs), a)
    BY <2>1 DEF Registers, Deletes, Saves
  <2>4. QED
    BY <1>0, <2>1, <2>2, <2>3, ManagerTypes, TableJob
<1>5. CASE DeleteRow
  <2>1. /\ Head(jobs).op = "Delete" /\ rows' = rows \ {Head(jobs).id} /\ jobs' = Tail(jobs)
        /\ savedRanks' = [savedRanks EXCEPT ![Head(jobs).id] = 0]
        /\ savedRewards' = [savedRewards EXCEPT ![Head(jobs).id] = 0]
        /\ UNCHANGED <<vars, accounts, loaded, observed, pending, busy, cooling, ranks, rewards,
                       since>>
    BY <1>5 DEF DeleteRow, Running, Done, memoryVars
  <2>2. /\ loaded /\ rows' \subseteq Accounts
        /\ savedRanks' \in [Accounts -> Generations] /\ savedRewards' \in [Accounts -> Generations]
    BY <1>0, <2>1, NotLoading, ManagerTypes
  <2>3. \A a \in Accounts :
          /\ Deletes(Head(jobs), a) <=> a = Head(jobs).id
          /\ ~Registers(Head(jobs), a) /\ ~Saves(Head(jobs), a)
          /\ savedRanks'[a] = IF a = Head(jobs).id THEN 0 ELSE savedRanks[a]
    BY <2>1, ManagerTypes DEF Registers, Deletes, Saves
  <2>4. QED
    BY <1>0, <2>1, <2>2, <2>3, ManagerTypes, TableJob
<1>6. CASE SaveRanks
  <2> DEFINE id == Head(jobs).id
  <2>1. /\ Head(jobs).op = "SaveRanks" /\ jobs' = Tail(jobs)
        /\ savedRanks' = IF id \in rows THEN [savedRanks EXCEPT ![id] = Head(jobs).generation]
                         ELSE savedRanks
        /\ UNCHANGED <<vars, accounts, loaded, observed, pending, busy, cooling, ranks, rewards,
                       since, rows, savedRewards>>
    BY <1>6 DEF SaveRanks, Running, Done, memoryVars
  <2>2. loaded /\ id \in Accounts /\ Head(jobs).generation \in Generations
    BY <1>0, <2>1, NotLoading, JobFields
  <2>3. id \in rows
    <3>1. Settled(id \in rows, savedRanks[id], jobs, id, id \in Kept, ranks[id])
      BY <2>2, JobsOf
    <3>2. Head(jobs) = jobs[1] /\ 1 \in 1..Len(jobs) /\ Saves(jobs[1], id)
      BY <1>0, <2>1, ManagerTypes, Shorter DEF Saves
    <3>3. RowAfter(id \in rows, jobs, id, 0)
      BY <3>1, <3>2 DEF Settled
    <3>4. QED
      BY <3>3 DEF RowAfter
  <2>4. savedRanks' \in [Accounts -> Generations]
    BY <2>1, <2>2, ManagerTypes
  <2>5. \A a \in Accounts :
          /\ Saves(Head(jobs), a) <=> a = id
          /\ ~Registers(Head(jobs), a) /\ ~Deletes(Head(jobs), a)
          /\ savedRanks'[a] = IF a = id THEN Head(jobs).generation ELSE savedRanks[a]
    BY <2>1, <2>3, ManagerTypes DEF Registers, Deletes, Saves
  <2> HIDE DEF id
  <2>6. QED
    BY <1>0, <2>1, <2>2, <2>4, <2>5, ManagerTypes, TableJob
<1>7. CASE SaveRewards
  <2> DEFINE id == Head(jobs).id
  <2>1. /\ Head(jobs).op = "SaveRewards" /\ jobs' = Tail(jobs)
        /\ savedRewards' = IF id \in rows THEN [savedRewards EXCEPT ![id] = Head(jobs).generation]
                           ELSE savedRewards
        /\ rewards' = IF id \in rows \cap accounts
                      THEN [rewards EXCEPT ![id] = Head(jobs).generation] ELSE rewards
        /\ UNCHANGED <<vars, accounts, loaded, observed, pending, busy, cooling, ranks, since, rows,
                       savedRanks>>
    BY <1>7 DEF SaveRewards, Running, Done
  <2>2. loaded /\ id \in Accounts /\ Head(jobs).generation \in Generations
    BY <1>0, <2>1, NotLoading, JobFields
  <2>3. rewards' \in [Accounts -> Generations] /\ savedRewards' \in [Accounts -> Generations]
    BY <2>1, <2>2, ManagerTypes
  <2>4. \A a \in Accounts :
          ~Registers(Head(jobs), a) /\ ~Deletes(Head(jobs), a) /\ ~Saves(Head(jobs), a)
    BY <2>1 DEF Registers, Deletes, Saves
  <2> HIDE DEF id
  <2>5. QED
    BY <1>0, <2>1, <2>2, <2>3, <2>4, ManagerTypes, TableJob
<1>8. QED
  BY <1>1, <1>2, <1>3, <1>4, <1>5, <1>6, <1>7 DEF JobStep

\* An event of the account's current request.
LEMMA EventKeeps ==
    ASSUME ManagerInv, ServiceTypeOK', NEW r \in Request, IsTracked(r), NEW status \in Notices,
           ApplyFetchEvent(r, status),
           UNCHANGED <<trackedQueuedOrInFlight, nextTrackedGeneration>>, pc # "finish",
           status \in Terminal => pc' = "finish" /\ notice' = status /\ current' = r
    PROVE  ManagerInv'
<1> DEFINE a == r.key
<1>0. a \in Accounts /\ r.generation \in 1..MaxGeneration /\ r.generation \in Generations
  BY RequestFields, GenerationAssumption DEF IsTracked, Generations
<1>1. CASE ~IsCurrent(r) \/ a \notin accounts
  <2>1. UNCHANGED <<accounts, loaded, observed, pending, busy, cooling, ranks, rewards, since, jobs,
                    rows, savedRanks, savedRewards>>
    BY <1>1 DEF ApplyFetchEvent, accountVars, memoryVars, tableVars
  <2>2. AccountTypeOK'
    BY <2>1, ManagerTypes DEF AccountTypeOK
  <2>3. RefreshHasOwner' /\ BusyExactlyWhenPending' /\ LoadsOnce' /\ RanksNew'
    BY <2>1, OwnersKept DEF ManagerInv, BusyExactlyWhenPending, LoadsOnce, RanksNew
  <2>4. AllSettled'
    BY <2>1, JobsOf DEF AllSettled, Kept
  <2>5. QED
    BY <2>2, <2>3, <2>4 DEF ManagerInv
<1>2. CASE IsCurrent(r) /\ a \in accounts
  <2>1. trackedQueuedOrInFlight[a] = r.generation /\ trackedQueuedOrInFlight[a] # 0
    BY <1>0, <1>2, GenerationAssumption DEF IsCurrent
  <2>2. a \in pending /\ loaded /\ r.generation > since[a]
    BY <1>0, <1>2, <2>1, LoadedWhenTracked
    DEF ManagerInv, RefreshHasOwner, Answered, RanksNew
  <2> DEFINE saveRewards == [op |-> "SaveRewards", id |-> a, generation |-> r.generation]
             saveRanks == [op |-> "SaveRanks", id |-> a, generation |-> r.generation]
  <2>3. /\ saveRewards \in Job /\ saveRewards.op = "SaveRewards"
        /\ saveRanks \in Job /\ saveRanks.op = "SaveRanks" /\ saveRanks.id = a
        /\ saveRanks.generation = r.generation
    BY <1>0, JobsMade
  <2>4. PICK ranked \in BOOLEAN, rewarded \in BOOLEAN :
          /\ ranks' = IF ranked THEN [ranks EXCEPT ![a] = r.generation] ELSE ranks
          /\ jobs' = (jobs \o IF rewarded THEN <<saveRewards>> ELSE <<>>)
                       \o IF ranked THEN <<saveRanks>> ELSE <<>>
    BY <1>2 DEF ApplyFetchEvent
  <2>5. /\ IF status \in Terminal THEN busy' = busy \ {a} /\ pending' = pending \ {a}
           ELSE busy' = busy \cup {a} /\ UNCHANGED pending
        /\ UNCHANGED <<accounts, loaded, observed, cooling, rewards, since, rows, savedRanks,
                       savedRewards>>
    BY <1>2 DEF ApplyFetchEvent, tableVars
  <2> DEFINE between == IF rewarded THEN Append(jobs, saveRewards) ELSE jobs
  <2> HIDE DEF saveRewards, saveRanks
  <2>6. between \in Seq(Job) /\ jobs' = IF ranked THEN Append(between, saveRanks) ELSE between
    <3>1. jobs \o (IF rewarded THEN <<saveRewards>> ELSE <<>>) = between /\ between \in Seq(Job)
      BY <2>3, ManagerTypes, AppendIsConcat, ConcatEmptySeq, Longer
    <3>2. between \o (IF ranked THEN <<saveRanks>> ELSE <<>>) =
            IF ranked THEN Append(between, saveRanks) ELSE between
      BY <2>3, <3>1, AppendIsConcat, ConcatEmptySeq
    <3>3. QED
      BY <2>4, <3>1, <3>2
  <2>7. \A i \in 1..Len(between) : between[i].op # "Load"
    <3>1. \A i \in 1..Len(jobs) : jobs[i].op # "Load"
      BY <2>2 DEF ManagerInv, LoadsOnce
    <3>2. CASE rewarded
      <4>1. /\ Len(between) = Len(jobs) + 1 /\ Len(jobs) \in Nat
            /\ between[Len(jobs) + 1] = saveRewards
            /\ \A i \in 1..Len(jobs) : between[i] = jobs[i]
        BY <2>3, <3>2, ManagerTypes, Longer
      <4>2. \A i \in 1..Len(between) : i \in 1..Len(jobs) \/ i = Len(jobs) + 1
        BY <4>1
      <4>3. QED
        BY <2>3, <3>1, <4>1, <4>2
    <3>3. QED
      BY <3>1, <3>2
  <2>8. \A b \in Accounts : Settled(b \in rows, savedRanks[b], between, b, b \in accounts, ranks[b])
    <3> SUFFICES ASSUME NEW b \in Accounts
                 PROVE  Settled(b \in rows, savedRanks[b], between, b, b \in accounts, ranks[b])
      OBVIOUS
    <3>1. Settled(b \in rows, savedRanks[b], jobs, b, b \in accounts, ranks[b])
      BY <2>2, JobsOf
    <3>2. Spares(saveRewards, b)
      BY <2>3 DEF Spares, Registers, Deletes, Saves
    <3>3. QED
      BY <2>3, <3>1, <3>2, ManagerTypes, SettledGrows
  <2> HIDE DEF between
  <2>9. jobs' \in Seq(Job) /\ LoadsOnce'
    <3>1. CASE ranked
      <4>1. /\ jobs' \in Seq(Job) /\ Len(jobs') = Len(between) + 1 /\ Len(between) \in Nat
            /\ jobs'[Len(between) + 1] = saveRanks
            /\ \A i \in 1..Len(between) : jobs'[i] = between[i]
        BY <2>3, <2>6, <3>1, Longer
      <4>2. \A i \in 1..Len(jobs') : i \in 1..Len(between) \/ i = Len(between) + 1
        BY <4>1
      <4>3. QED
        BY <2>2, <2>3, <2>5, <2>7, <4>1, <4>2 DEF LoadsOnce
    <3>2. CASE ~ranked
      BY <2>2, <2>5, <2>6, <2>7, <3>2 DEF LoadsOnce
    <3>3. QED
      BY <3>1, <3>2
  <2>10. AllSettled'
    <3> SUFFICES ASSUME NEW b \in Accounts
                 PROVE  Settled(b \in rows, savedRanks[b], jobs', b, b \in accounts, ranks'[b])
      BY <2>2, <2>5 DEF AllSettled, Kept
    <3>1. CASE ranked /\ b = a
      <4>1. Saves(saveRanks, b) /\ ranks'[b] = saveRanks.generation /\ b \in accounts
        BY <1>2, <2>3, <2>4, <3>1, ManagerTypes DEF Saves
      <4>2. Settled(b \in rows, savedRanks[b], jobs', b, b \in accounts, saveRanks.generation)
        BY <2>3, <2>6, <2>8, <3>1, <4>1, SettledGrows
      <4>3. QED
        BY <4>1, <4>2
    <3>2. CASE ranked /\ b # a
      <4>1. Spares(saveRanks, b) /\ ranks'[b] = ranks[b]
        BY <2>3, <2>4, <3>2, ManagerTypes DEF Spares, Registers, Deletes, Saves
      <4>2. Settled(b \in rows, savedRanks[b], jobs', b, b \in accounts, ranks[b])
        BY <2>3, <2>6, <2>8, <3>2, <4>1, SettledGrows
      <4>3. QED
        BY <4>1, <4>2
    <3>3. CASE ~ranked
      BY <2>4, <2>6, <2>8, <3>3
    <3>4. QED
      BY <3>1, <3>2, <3>3
  <2>11. ranks' \in [Accounts -> Generations] /\ busy' \subseteq Accounts /\ pending' \subseteq Accounts
    BY <1>0, <2>4, <2>5, ManagerTypes
  <2>12. AccountTypeOK'
    BY <2>5, <2>9, <2>11, ManagerTypes DEF AccountTypeOK
  <2>13. BusyExactlyWhenPending'
    BY <2>2, <2>5 DEF ManagerInv, BusyExactlyWhenPending
  <2>14. RefreshHasOwner'
    <3>1. CASE status \in Terminal
      <4>1. Answered(a)'
        BY <1>2, <2>1, <3>1 DEF Answered, IsCurrent, IsTracked
      <4>2. \A b \in Accounts \ {a} : b \in pending => b \in pending'
        BY <2>5, <3>1
      <4>3. QED
        BY <1>2, <2>5, <4>1, <4>2 DEF ManagerInv, RefreshHasOwner, Answered
    <3>2. CASE status \notin Terminal
      BY <2>5, <3>2, OwnersKept
    <3>3. QED
      BY <3>1, <3>2
  <2>15. RanksNew'
    <3> SUFFICES ASSUME NEW b \in Accounts
                 PROVE  ranks'[b] # 0 => b \in accounts /\ ranks'[b] > since[b]
      BY <2>5 DEF ManagerInv, RanksNew
    <3>1. ranks'[b] = ranks[b] \/ (b = a /\ ranks'[b] = r.generation)
      BY <2>4, ManagerTypes
    <3>2. QED
      BY <1>2, <2>2, <3>1 DEF ManagerInv, RanksNew
  <2>16. QED
    BY <2>9, <2>10, <2>12, <2>13, <2>14, <2>15 DEF ManagerInv
<1>3. QED
  BY <1>1, <1>2

LEMMA EventsPreserve ==
    ASSUME Inductive, ManagerInv, ServiceTypeOK', SinkCall
    PROVE  ManagerInv'
<1>1. ASSUME NEW r \in unannounced, Announce(r), ApplyFetchEvent(r, "Fetching")
      PROVE  ManagerInv'
  <2>1. r \in Request /\ IsTracked(r)
    BY ManagerTypes DEF ServiceTypeOK, WorkerTypeOK, Inductive, WorkerShape
  <2>2. pc # "finish" /\ UNCHANGED <<trackedQueuedOrInFlight, nextTrackedGeneration>>
    BY <1>1 DEF Announce, queueVars, dedupeVars
  <2>3. QED
    BY <1>1, <2>1, <2>2, EventKeeps DEF Notices, Terminal
<1>2. ASSUME Notify, ApplyFetchEvent(current, notice)
      PROVE  ManagerInv'
  <2>1. /\ current \in Request /\ IsTracked(current) /\ notice \in Notices /\ notice # "none"
        /\ pc = "notify"
    BY <1>2, ManagerTypes DEF Notify, Inductive, WorkerShape, ServiceTypeOK, WorkerTypeOK,
                              WithoutCurrent
  <2>2. /\ UNCHANGED <<trackedQueuedOrInFlight, nextTrackedGeneration>>
        /\ notice \in Terminal => pc' = "finish" /\ notice' = notice /\ current' = current
    BY <1>2 DEF Notify, Terminal, queueVars, dedupeVars
  <2>3. QED
    BY <1>2, <2>1, <2>2, EventKeeps
<1>3. QED
  BY <1>1, <1>2 DEF SinkCall

LEMMA AlonePreserves ==
    ASSUME ManagerInv, ServiceTypeOK', ServiceAlone
    PROVE  ManagerInv'
<1>1. UNCHANGED <<accounts, loaded, observed, pending, busy, cooling, ranks, rewards, since, jobs,
                  rows, savedRanks, savedRewards>>
  BY DEF ServiceAlone, accountVars, memoryVars, tableVars
<1>2. AccountTypeOK'
  BY <1>1, ManagerTypes DEF AccountTypeOK
<1>3. BusyExactlyWhenPending' /\ LoadsOnce'
  BY <1>1 DEF ManagerInv, BusyExactlyWhenPending, LoadsOnce
<1>4. AllSettled'
  BY <1>1, JobsOf DEF AllSettled, Kept
<1>5. CASE FinishRequest
  <2>1. /\ pc = "finish" /\ nextTrackedGeneration' = nextTrackedGeneration
        /\ trackedQueuedOrInFlight' =
             IF IsTracked(current) /\ IsCurrent(current)
             THEN [trackedQueuedOrInFlight EXCEPT ![current.key] = 0]
             ELSE trackedQueuedOrInFlight
    BY <1>5 DEF FinishRequest, Finish
  <2>2. \A a \in Accounts : /\ trackedQueuedOrInFlight'[a] # 0 =>
                                 /\ trackedQueuedOrInFlight'[a] = trackedQueuedOrInFlight[a]
                                 /\ ~Answered(a)
    BY <2>1, ManagerTypes DEF Answered
  <2>3. RefreshHasOwner' /\ RanksNew'
    BY <1>1, <2>1, <2>2 DEF ManagerInv, RefreshHasOwner, RanksNew
  <2>4. QED
    BY <1>2, <1>3, <1>4, <2>3 DEF ManagerInv
<1>6. CASE ~FinishRequest
  <2>1. /\ UNCHANGED <<trackedQueuedOrInFlight, nextTrackedGeneration>>
        /\ pc # "finish" \/ UNCHANGED workerVars
    BY <1>6, EntriesLeftAlone DEF ServiceAlone
  <2>2. RefreshHasOwner' /\ RanksNew'
    BY <1>1, <2>1, OwnersKept DEF ManagerInv, RanksNew
  <2>3. QED
    BY <1>2, <1>3, <1>4, <2>2 DEF ManagerInv
<1>7. QED
  BY <1>5, <1>6

THEOREM ManagerInvariant == AccountSpec => []ManagerInv
<1>1. ASSUME Inductive, Inductive', ManagerInv, [AccountNext]_allVars
      PROVE  ManagerInv'
  <2>1. ServiceTypeOK'
    BY <1>1 DEF Inductive
  <2>2. CASE AccountNext
    BY <1>1, <2>1, <2>2, CallsPreserve, JobsPreserve, EventsPreserve, AlonePreserves DEF AccountNext
  <2>3. CASE UNCHANGED allVars
    <3>1. UNCHANGED <<trackedQueuedOrInFlight, nextTrackedGeneration, workerVars, accounts, loaded,
                      observed, pending, busy, cooling, ranks, rewards, since, jobs, rows,
                      savedRanks, savedRewards>>
      BY <2>3 DEF allVars, vars, queueVars, dedupeVars, accountVars, memoryVars, tableVars
    <3>2. AccountTypeOK' /\ RefreshHasOwner' /\ BusyExactlyWhenPending' /\ LoadsOnce' /\ RanksNew'
      BY <1>1, <2>1, <3>1, ManagerTypes, OwnersKept
      DEF AccountTypeOK, ManagerInv, BusyExactlyWhenPending, LoadsOnce, RanksNew
    <3>3. AllSettled'
      BY <1>1, <3>1, JobsOf DEF AllSettled, Kept
    <3>4. QED
      BY <3>2, <3>3 DEF ManagerInv
  <2>4. QED
    BY <1>1, <2>2, <2>3
<1>2. QED
  BY <1>1, ManagerInitially, ManagerUsesService, InductiveInvariant, PTL DEF AccountSpec

-----------------------------------------------------------------------------
\* What the invariant gives.

\* A refresh the service holds belongs to a tracked account that shows it, and an account is shown
\* as busy exactly while its next refresh is refused.
THEOREM BookkeepingHolds == AccountSpec => []AccountBookkeeping
<1>1. ManagerInv => AccountBookkeeping
  BY DEF ManagerInv, AccountBookkeeping
<1>2. QED
  BY <1>1, ManagerInvariant, PTL

LEMMA CaughtUp ==
    ASSUME ManagerInv, loaded, jobs = <<>>, NEW a \in Accounts
    PROVE  (a \in rows <=> a \in accounts) /\ savedRanks[a] = ranks[a]
<1>1. Settled(a \in rows, savedRanks[a], jobs, a, a \in accounts, ranks[a])
  BY JobsOf
<1>2. Len(jobs) = 0
  BY EmptySeq
<1>3. QED
  BY <1>1, <1>2 DEF Settled, RowAfter, RankAfter

\* Whatever order accounts are added, removed, imported, observed and refreshed in, when the worker
\* has caught up the tables are what the list shows.
THEOREM TablesCatchUp == AccountSpec => []TablesMatchMemory
<1>1. ManagerInv => TablesMatchMemory
  BY CaughtUp, ManagerTypes DEF TablesMatchMemory
<1>2. QED
  BY <1>1, ManagerInvariant, PTL

\* No rank shown or saved is older than its account's last addition.
THEOREM RanksAreNew == AccountSpec => []RanksAreOfThisAccount
<1>1. ASSUME ManagerInv PROVE RanksAreOfThisAccount
  <2> SUFFICES ASSUME NEW a \in accounts
               PROVE  /\ ranks[a] # 0 => ranks[a] > since[a]
                      /\ jobs = <<>> /\ savedRanks[a] # 0 => savedRanks[a] > since[a]
    BY DEF RanksAreOfThisAccount
  <2>1. a \in Accounts /\ loaded
    BY <1>1, ManagerTypes, LoadedWhenTracked
  <2>2. ranks[a] # 0 => ranks[a] > since[a]
    BY <1>1, <2>1 DEF ManagerInv, RanksNew
  <2>3. jobs = <<>> => savedRanks[a] = ranks[a]
    BY <1>1, <2>1, CaughtUp
  <2>4. QED
    BY <2>2, <2>3
<1>2. QED
  BY <1>1, ManagerInvariant, PTL

-----------------------------------------------------------------------------
\* The manager and the service keep the promises of TrackedRefresh.

AnsweredAccounts == {a \in Accounts : Answered(a)}

LEMMA PromiseInitially == AccountInit => Promise!Init
<1> SUFFICES ASSUME AccountInit PROVE Promise!Init
  OBVIOUS
<1>1. AnsweredAccounts = {}
  BY DEF AccountInit, ServiceInit, AnsweredAccounts, Answered
<1>2. QED
  BY <1>1 DEF AccountInit, ServiceInit, QueueInit, Promise!Init, AnsweredAccounts

\* An account is answered only while its request is at its end.
LEMMA AnsweredHasEntry ==
    ASSUME Inductive, NEW a \in Accounts, Answered(a)
    PROVE  trackedQueuedOrInFlight[a] \in 1..nextTrackedGeneration /\ current.key = a
<1>1. current \in Request /\ current \in Held
  BY AtProcessing DEF Inductive, Answered
<1>2. current.generation \in 1..MaxGeneration /\ current.generation <= nextTrackedGeneration
  BY <1>1, RequestFields DEF Inductive, LiveOK, Numbered, Answered, IsTracked
<1>3. QED
  BY <1>2, GenerationAssumption
  DEF Answered, IsCurrent, Inductive, ServiceTypeOK, QueueTypeOK

\* Steps that neither move the worker to or from a request's end nor touch an entry answer nobody.
LEMMA AnsweredSame ==
    ASSUME UNCHANGED <<trackedQueuedOrInFlight, pc, notice, current>>
    PROVE  AnsweredAccounts' = AnsweredAccounts
BY DEF AnsweredAccounts, Answered, IsCurrent, IsTracked

LEMMA NobodyAnswered ==
    ASSUME pc # "finish" \/ notice \notin Terminal
    PROVE  AnsweredAccounts = {}
BY DEF AnsweredAccounts, Answered

\* The worker's steps other than the last of a request.
LEMMA WorkerAnswersNobody ==
    ASSUME Inductive, WorkerStep, ~FinishRequest
    PROVE  pc # "finish" /\ (pc' # "finish" \/ notice' = "none")
<1> USE DEF Goto, Tell, Terminate, NextRequest, TakeNext, Idle
<1>1. CASE \/ LoopTop \/ WorkerReturns \/ PopNothing \/ CoalesceYields \/ DrainBatch \/ SendBatch
           \/ FetchProfileTracker \/ TrackerRejected \/ PushRetry
  BY <1>1 DEF LoopTop, WorkerReturns, PopNothing, CoalesceYields, DrainBatch, SendBatch,
              FetchProfileTracker, TrackerRejected, PushRetry
<1>2. CASE \E r \in queue : PopSingle(r)
  BY <1>2 DEF PopSingle
<1>3. CASE \E answer \in Replies \ {"none"}, limited \in BOOLEAN : BatchReply(answer, limited)
  BY <1>3 DEF BatchReply
<1>4. CASE \E found \in BOOLEAN : HandleAnswer(found)
  BY <1>4 DEF HandleAnswer, BeginRetry
<1>5. CASE \E confirmed \in BOOLEAN : FetchProfile(confirmed)
  BY <1>5 DEF FetchProfile, Inductive, WorkerShape
<1>6. CASE \E answer \in Answers : CustomReply(answer)
  BY <1>6 DEF CustomReply, Publish, BeginRetry
<1>7. CASE TrackerFound \/ TrackerGarbled \/ TrackerLimited \/ TrackerTransient \/ TrackerForbidden
  BY <1>7 DEF TrackerFound, TrackerGarbled, TrackerLimited, TrackerTransient, TrackerForbidden,
              Publish, BeginRetry
<1>8. QED
  BY <1>1, <1>2, <1>3, <1>4, <1>5, <1>6, <1>7 DEF WorkerStep

\* A refresh asked for, or refused as already queued.
LEMMA RefreshPromised ==
    ASSUME Inductive, ManagerInv, NEW a \in accounts, NEW manual \in BOOLEAN,
           RefreshLocked(a, manual), UNCHANGED serviceOthers
    PROVE  [Promise!Next]_(Promise!refreshVars)
<1>0. a \in Accounts /\ UNCHANGED <<accounts, workerVars, running>>
  BY ManagerTypes DEF RefreshLocked, serviceOthers, others
<1>1. CASE UNCHANGED queueVars
  <2>1. UNCHANGED <<trackedQueuedOrInFlight, nextTrackedGeneration, pc, notice, current>>
    BY <1>0, <1>1 DEF queueVars, dedupeVars, workerVars
  <2>2. AnsweredAccounts' = AnsweredAccounts
    BY <2>1, AnsweredSame
  <2>3. QED
    BY <1>0, <2>1, <2>2 DEF Promise!refreshVars, AnsweredAccounts
<1>2. CASE EnqueueTrackedRequest(a)
  <2>1. /\ trackedQueuedOrInFlight[a] = 0
        /\ nextTrackedGeneration' = nextTrackedGeneration + 1
        /\ trackedQueuedOrInFlight' = [trackedQueuedOrInFlight EXCEPT ![a] = nextTrackedGeneration + 1]
        /\ UNCHANGED <<pc, notice, current>>
    BY <1>0, <1>2 DEF EnqueueTrackedRequest, workerVars
  <2>2. ASSUME NEW b \in Accounts PROVE Answered(b)' <=> Answered(b)
    <3>1. CASE b # a
      BY <2>1, <3>1, ManagerTypes DEF Answered, IsCurrent, IsTracked
    <3>2. CASE b = a
      <4>1. ~Answered(b)
        BY <2>1, <3>2, AnsweredHasEntry, ManagerTypes
      <4>2. ASSUME Answered(b)' PROVE FALSE
        <5>1. pc = "finish" /\ IsTracked(current) /\ current.key = a
              /\ current.generation = nextTrackedGeneration + 1
          BY <1>0, <2>1, <3>2, <4>2, ManagerTypes DEF Answered, IsCurrent, IsTracked
        <5>2. current \in Request /\ current \in Held
          BY <5>1, AtProcessing DEF Inductive
        <5>3. current.generation <= nextTrackedGeneration /\ nextTrackedGeneration \in Nat
          BY <5>2, ManagerTypes DEF Inductive, LiveOK, Numbered
        <5>4. QED
          BY <5>1, <5>3
      <4>3. QED
        BY <4>1, <4>2
    <3>3. QED
      BY <3>1, <3>2
  <2>3. AnsweredAccounts' = AnsweredAccounts
    BY <2>2 DEF AnsweredAccounts
  <2>4. Promise!Request(a)
    BY <1>0, <2>1, <2>3 DEF Promise!Request, AnsweredAccounts
  <2>5. QED
    BY <1>0, <2>4 DEF Promise!Next
<1>3. QED
  BY <1>1, <1>2 DEF RefreshLocked, queueVars

LEMMA PromiseStep ==
    ASSUME Inductive, ManagerInv, [AccountNext]_allVars
    PROVE  [Promise!Next]_(Promise!refreshVars)
<1>1. ASSUME UNCHANGED <<accounts, trackedQueuedOrInFlight, nextTrackedGeneration, pc, notice,
                         current>>,
             running' = running \/ running' = FALSE
      PROVE  [Promise!Next]_(Promise!refreshVars)
  <2>1. AnsweredAccounts' = AnsweredAccounts
    BY <1>1, AnsweredSame
  <2>2. CASE running' = running
    BY <1>1, <2>1, <2>2 DEF Promise!refreshVars, AnsweredAccounts
  <2>3. CASE running' = FALSE
    BY <1>1, <2>1, <2>3 DEF Promise!BeginStop, Promise!Next, AnsweredAccounts
  <2>4. QED
    BY <1>1, <2>2, <2>3
<1>2. ASSUME NEW S \in SUBSET Accounts, S \cap accounts = {}, accounts' = accounts \cup S,
             UNCHANGED vars
      PROVE  [Promise!Next]_(Promise!refreshVars)
  <2>1. UNCHANGED <<trackedQueuedOrInFlight, nextTrackedGeneration, pc, notice, current, running>>
    BY <1>2 DEF vars, queueVars, dedupeVars, workerVars
  <2>2. AnsweredAccounts' = AnsweredAccounts
    BY <2>1, AnsweredSame
  <2>3. Promise!Track(S)
    BY <1>2, <2>1, <2>2 DEF Promise!Track, AnsweredAccounts
  <2>4. QED
    BY <2>3 DEF Promise!Next
<1>3. CASE UserCall
  <2>1. ASSUME NEW a \in Accounts, Refresh(a)
        PROVE  [Promise!Next]_(Promise!refreshVars)
    BY <2>1, RefreshPromised DEF Refresh
  <2>2. ASSUME NEW a \in Accounts, Remove(a)
        PROVE  [Promise!Next]_(Promise!refreshVars)
    <3>1. /\ a \in accounts /\ accounts' = accounts \ {a}
          /\ trackedQueuedOrInFlight' = [trackedQueuedOrInFlight EXCEPT ![a] = 0]
          /\ UNCHANGED <<nextTrackedGeneration, pc, notice, current, running>>
      BY <2>2 DEF Remove, CancelTrackedRequest, serviceOthers, workerVars, others
    <3>2. ASSUME NEW b \in Accounts PROVE Answered(b)' <=> Answered(b) /\ b # a
      <4>1. CASE b # a
        BY <3>1, <4>1, ManagerTypes DEF Answered, IsCurrent, IsTracked
      <4>2. CASE b = a
        <5>1. ASSUME Answered(b)' PROVE FALSE
          <6>1. pc = "finish" /\ IsTracked(current) /\ current.key = a /\ current.generation = 0
            BY <3>1, <4>2, <5>1, ManagerTypes DEF Answered, IsCurrent, IsTracked
          <6>2. current \in Request
            BY <6>1, AtProcessing DEF Inductive
          <6>3. QED
            BY <6>1, <6>2, RequestFields, GenerationAssumption DEF IsTracked
        <5>2. QED
          BY <4>2, <5>1
      <4>3. QED
        BY <4>1, <4>2
    <3>3. AnsweredAccounts' = AnsweredAccounts \ {a}
      BY <3>2 DEF AnsweredAccounts
    <3>4. Promise!Untrack(a)
      BY <3>1, <3>3 DEF Promise!Untrack, AnsweredAccounts
    <3>5. QED
      BY <3>4 DEF Promise!Next
  <2>3. ASSUME NEW a \in Accounts, Observe(a)
        PROVE  [Promise!Next]_(Promise!refreshVars)
    <3>1. /\ a \notin accounts /\ UNCHANGED vars
          /\ accounts' = accounts \cup {a} \/ accounts' = accounts \cup {}
      BY <2>3 DEF Observe, RegisterLocked, vars, serviceOthers, others
    <3>2. {a} \in SUBSET Accounts /\ {a} \cap accounts = {} /\ {} \in SUBSET Accounts
      BY <3>1
    <3>3. QED
      BY <1>2, <3>1, <3>2
  <2>4. ASSUME NEW S \in SUBSET Accounts, Add(S)
        PROVE  [Promise!Next]_(Promise!refreshVars)
    <3>1. S \cap accounts = {} /\ accounts' = accounts \cup S /\ UNCHANGED vars
      BY <2>4 DEF Add, RegisterLocked, vars, serviceOthers, others
    <3>2. QED
      BY <1>2, <3>1
  <2>5. QED
    BY <1>3, <2>1, <2>2, <2>3, <2>4 DEF UserCall
<1>4. CASE JobStep
  <2>1. CASE Load
    <3>1. /\ accounts' = rows \cup observed /\ UNCHANGED vars
          /\ jobs # <<>> /\ Head(jobs).op = "Load"
      BY <2>1 DEF Load, Running
    <3>2. Head(jobs) = jobs[1] /\ Len(jobs) \in Nat \ {0}
      BY <3>1, ManagerTypes, Shorter
    <3>3. accounts = {}
      BY <3>1, <3>2 DEF ManagerInv, LoadsOnce
    <3>4. rows \cup observed \in SUBSET Accounts
      BY ManagerTypes
    <3>5. QED
      BY <1>2, <3>1, <3>3, <3>4
  <2>2. ASSUME NEW a \in Accounts, RefreshNext(a)
        PROVE  [Promise!Next]_(Promise!refreshVars)
    <3>1. CASE a \in accounts \ pending
      BY <2>2, <3>1, RefreshPromised DEF RefreshNext
    <3>2. CASE ~(a \in accounts \ pending)
      BY <1>1, <2>2, <3>2
      DEF RefreshNext, queueVars, dedupeVars, memoryVars, serviceOthers, workerVars, others
    <3>3. QED
      BY <3>1, <3>2
  <2>3. CASE (\E stale \in SUBSET Accounts : StartupRefresh(stale)) \/ RegisterRows \/ DeleteRow
             \/ SaveRanks \/ SaveRewards
    <3>1. UNCHANGED <<vars, accounts>>
      BY <2>3 DEF StartupRefresh, RegisterRows, DeleteRow, SaveRanks, SaveRewards, memoryVars
    <3>2. QED
      BY <1>1, <3>1 DEF vars, queueVars, dedupeVars, workerVars
  <2>4. QED
    BY <1>4, <2>1, <2>2, <2>3 DEF JobStep
<1>5. CASE \/ UNCHANGED allVars \/ (\E a \in Accounts : CooldownEnds(a))
           \/ ServiceAlone /\ (Clock \/ MatchTraffic \/ ChangeConfig \/ Stop)
  <2>1. UNCHANGED <<accounts, trackedQueuedOrInFlight, nextTrackedGeneration, pc, notice, current>>
    BY <1>5 DEF allVars, CooldownEnds, vars, queueVars, dedupeVars, workerVars, accountVars,
                memoryVars, ServiceAlone, Clock, LockoutEnds, LockoutLapses, TimeComes, BecomesDue,
                MatchTraffic, Enqueue, EnqueueRoster, EnqueuePostMatch, EnqueuePostMatchRequest,
                ChangeConfig, Stop
  <2>2. running' = running \/ running' = FALSE
    BY <1>5 DEF allVars, CooldownEnds, vars, Clock, LockoutEnds, TimeComes, MatchTraffic, Enqueue,
                EnqueuePostMatch, ChangeConfig, Stop, others
  <2>3. QED
    BY <1>1, <2>1, <2>2
<1>6. ASSUME NEW r \in unannounced, Announce(r), ApplyFetchEvent(r, "Fetching")
      PROVE  [Promise!Next]_(Promise!refreshVars)
  <2>1. UNCHANGED <<accounts, trackedQueuedOrInFlight, nextTrackedGeneration, pc, notice, current,
                    running>>
    BY <1>6 DEF Announce, ApplyFetchEvent, accountVars, memoryVars, queueVars, dedupeVars, others
  <2>2. QED
    BY <1>1, <2>1
<1>7. CASE Notify /\ ApplyFetchEvent(current, notice)
  <2>1. /\ pc = "notify" /\ UNCHANGED <<accounts, trackedQueuedOrInFlight, nextTrackedGeneration,
                                        running>>
    BY <1>7 DEF Notify, ApplyFetchEvent, accountVars, memoryVars, queueVars, dedupeVars, others
  <2>2. AnsweredAccounts = {}
    BY <2>1, NobodyAnswered
  <2>3. /\ current \in Request /\ IsTracked(current) /\ notice \in Notices /\ notice # "none"
    BY <2>1, ManagerTypes DEF Inductive, WorkerShape, ServiceTypeOK, WorkerTypeOK, WithoutCurrent
  <2>4. CASE notice \in Terminal /\ IsCurrent(current)
    <3> DEFINE a == current.key
    <3>1. pc' = "finish" /\ UNCHANGED <<notice, current>>
      BY <1>7, <2>4 DEF Notify, Terminal
    <3>2. a \in Accounts /\ trackedQueuedOrInFlight[a] # 0
      BY <2>3, <2>4, RequestFields, GenerationAssumption DEF IsTracked, IsCurrent
    <3>3. AnsweredAccounts' = {a}
      BY <2>1, <2>3, <2>4, <3>1, <3>2 DEF AnsweredAccounts, Answered, IsCurrent, IsTracked
    <3>4. Promise!Answer(a)
      BY <2>1, <2>2, <3>2, <3>3 DEF Promise!Answer, AnsweredAccounts
    <3>5. QED
      BY <3>2, <3>4 DEF Promise!Next
  <2>5. CASE notice \in Terminal /\ ~IsCurrent(current)
    <3>1. pc' = "finish" /\ UNCHANGED <<notice, current>>
      BY <1>7, <2>5 DEF Notify, Terminal
    <3>2. AnsweredAccounts' = {}
      BY <2>1, <2>5, <3>1 DEF AnsweredAccounts, Answered, IsCurrent, IsTracked
    <3>3. QED
      BY <2>1, <2>2, <3>2 DEF Promise!refreshVars, AnsweredAccounts
  <2>6. CASE notice \notin Terminal
    <3>1. pc' # "finish"
      BY <1>7, <2>3, <2>6 DEF Notify, Notices, Terminal, Goto, NextRequest, TakeNext, Idle
    <3>2. AnsweredAccounts' = {}
      BY <3>1 DEF AnsweredAccounts, Answered
    <3>3. QED
      BY <2>1, <2>2, <3>2 DEF Promise!refreshVars, AnsweredAccounts
  <2>7. QED
    BY <2>4, <2>5, <2>6
<1>8. CASE FinishRequest /\ UNCHANGED accountVars
  <2>1. /\ pc = "finish" /\ pc' # "finish" /\ UNCHANGED <<accounts, nextTrackedGeneration, running>>
        /\ trackedQueuedOrInFlight' =
             IF IsTracked(current) /\ IsCurrent(current)
             THEN [trackedQueuedOrInFlight EXCEPT ![current.key] = 0]
             ELSE trackedQueuedOrInFlight
    BY <1>8 DEF FinishRequest, Finish, NextRequest, TakeNext, Idle, accountVars, memoryVars, others
  <2>2. AnsweredAccounts' = {}
    BY <2>1 DEF AnsweredAccounts, Answered
  <2>3. CASE IsTracked(current) /\ IsCurrent(current)
    <3> DEFINE a == current.key
    <3>1. current \in Request
      BY <2>1, AtProcessing DEF Inductive
    <3>2. a \in Accounts /\ trackedQueuedOrInFlight[a] # 0
      BY <2>3, <3>1, RequestFields, GenerationAssumption DEF IsTracked, IsCurrent
    <3>3. running => Answered(a)
      BY <2>1, <2>3 DEF Inductive, FinishOK, Answered
    <3>4. AnsweredAccounts \ {a} = {} /\ (running => a \in AnsweredAccounts)
      BY <3>2, <3>3 DEF AnsweredAccounts, Answered
    <3>5. Promise!Release(a)
      BY <2>1, <2>2, <2>3, <3>2, <3>4 DEF Promise!Release, AnsweredAccounts
    <3>6. QED
      BY <3>2, <3>5 DEF Promise!Next
  <2>4. CASE ~(IsTracked(current) /\ IsCurrent(current))
    <3>1. AnsweredAccounts = {}
      BY <2>4 DEF AnsweredAccounts, Answered
    <3>2. QED
      BY <2>1, <2>2, <2>4, <3>1 DEF Promise!refreshVars, AnsweredAccounts
  <2>5. QED
    BY <2>3, <2>4
<1>9. CASE WorkerStep /\ ~FinishRequest /\ UNCHANGED accountVars
  <2>1. UNCHANGED <<trackedQueuedOrInFlight, nextTrackedGeneration, accounts>>
    BY <1>9, EntriesLeftAlone DEF accountVars, memoryVars
  <2>2. AnsweredAccounts = {} /\ AnsweredAccounts' = {}
    BY <1>9, WorkerAnswersNobody DEF AnsweredAccounts, Answered, Terminal
  <2>3. running' = running
    BY <1>9 DEF WorkerStep, LoopTop, WorkerReturns, PopSingle, PopNothing, CoalesceYields,
                DrainBatch, SendBatch, BatchReply, HandleAnswer, FetchProfile, CustomReply,
                FetchProfileTracker, TrackerFound, TrackerGarbled, TrackerLimited,
                TrackerTransient, TrackerRejected, TrackerForbidden, PushRetry, others
  <2>4. QED
    BY <2>1, <2>2, <2>3 DEF Promise!refreshVars, AnsweredAccounts
<1>10. QED
  BY <1>3, <1>4, <1>5, <1>6, <1>7, <1>8, <1>9 DEF AccountNext, SinkCall, ServiceAlone

\* Requests of tracked accounts are made, answered, released and canceled as TrackedRefresh says,
\* for any number of accounts and requests.
THEOREM PromiseKept == AccountSpec => KeepsPromise
BY PromiseInitially, PromiseStep, ManagerUsesService, InductiveInvariant, ManagerInvariant, PTL
DEF AccountSpec, KeepsPromise, Promise!Spec
=============================================================================
