-------------------------- MODULE MmrService_proofs --------------------------
(***************************************************************************)
(* Proofs about the rank service.  The inductive invariant Inductive says   *)
(* what the worker holds at each point of its loop (WorkerShape), how the   *)
(* requests it holds and the waiting ones relate to the dedupe entries      *)
(* (LiveOK), when the rate-limit gate is known to be open (GateOK), and why *)
(* a request may be finished (FinishOK).                                    *)
(*                                                                         *)
(* The argument for LiveOK: a step changes the live requests (waiting or    *)
(* held) in one of a few ways, each the subject of a lemma about any values *)
(* of the queue, of what is held and of the entries.                        *)
(***************************************************************************)
EXTENDS MmrService, TLAPS

\* Program points at which the worker processes no single request.
WithoutCurrent == {"loop", "single", "coalesce", "announce", "batchCall", "stopped"}

\* Program points at which it holds no batch.
WithoutBatch == {"loop", "single", "coalesce", "stopped", "fetch", "customCall"}

WorkerShape ==
    /\ current = NoRequest <=> pc \in WithoutCurrent
    /\ pc \in WithoutBatch => batch = {}
    /\ pc # "announce" => unannounced = {}
    /\ \A r \in unannounced : IsTracked(r)
    /\ current \notin batch
    /\ pc \in {"notify", "push"} => IsTracked(current)
    /\ pc = "notify" => notice # "none"
    /\ notice # "none" => pc = "notify" \/ (pc = "finish" /\ notice \in Terminal)
    /\ notice = "Fetching" => batch = {}

\* The live requests, as a function of the queue and of what the worker holds.
Distinct(waiting, held) ==
    /\ \A r, s \in waiting \cup held : Same(r, s) => r = s
    /\ waiting \cap held = {}

\* Only a held tracked request can have lost its entry.
EntriesHeld(waiting, held) ==
    /\ \A r \in waiting : OwnsEntry(r)
    /\ \A r \in held : IsTracked(r) \/ OwnsEntry(r)

\* No request bears a generation that has not been given out.
Numbered(live) ==
    /\ \A r \in live : r.generation <= nextTrackedGeneration
    /\ \A a \in Accounts : trackedQueuedOrInFlight[a] <= nextTrackedGeneration

\* Every entry has a live request that will release it.
Released(live) ==
    /\ \A p \in rosterQueuedOrInFlight : \E r \in live : r.reason = "Roster" /\ r.key = p
    /\ \A g \in pendingPostMatchGuids : \E r \in live : r.reason = "PostMatch" /\ r.key = g
    /\ \A a \in Accounts : trackedQueuedOrInFlight[a] # 0 =>
           \E r \in live : /\ IsTracked(r)
                           /\ r.key = a
                           /\ r.generation = trackedQueuedOrInFlight[a]

LiveOK ==
    /\ Distinct(queue, Held)
    /\ EntriesHeld(queue, Held)
    /\ Numbered(queue \cup Held)
    /\ Released(queue \cup Held)

\* Between the check at the top of WorkerLoop and the lookup nothing closes
\* the gate.
GateOK ==
    \/ pc \in {"single", "coalesce", "announce", "batchCall", "fetch", "customCall",
               "tracker", "trackerCall"}
    \/ notice = "Fetching"
    => ~IsRateLimited

\* While the service runs, a request about to be finished that is still
\* current has had its terminal event.
FinishOK ==
    pc = "finish" /\ running /\ IsTracked(current) /\ IsCurrent(current) => notice \in Terminal

Inductive == ServiceTypeOK /\ WorkerShape /\ LiveOK /\ GateOK /\ FinishOK

-----------------------------------------------------------------------------
\* Requests.

LEMMA RequestFields ==
    ASSUME NEW r \in Request
    PROVE  /\ r.retriesRemaining \in 0..MaxRetries
           /\ r.due \in BOOLEAN
           /\ \/ r.reason = "Roster" /\ r.key \in Players /\ r.generation = 0
              \/ r.reason = "PostMatch" /\ r.key \in Guids /\ r.generation = 0
              \/ IsTracked(r) /\ r.key \in Accounts /\ r.generation \in 1..MaxGeneration
           /\ r = [reason |-> r.reason, key |-> r.key, generation |-> r.generation,
                   retriesRemaining |-> r.retriesRemaining, due |-> r.due]
BY DEF Request, RequestsFor, IsTracked

LEMMA NewRequestType ==
    ASSUME NEW due \in BOOLEAN
    PROVE  /\ \A p \in Players : NewRequest("Roster", p, 0, due) \in Request
           /\ \A g \in Guids : NewRequest("PostMatch", g, 0, due) \in Request
           /\ \A a \in Accounts, n \in 1..MaxGeneration :
                 NewRequest("TrackedAccount", a, n, due) \in Request
BY RetriesAssumption DEF NewRequest, Request, RequestsFor

\* Requeueing, retrying and coming due make a request of the same identity.
LEMMA Relabeled ==
    ASSUME NEW r \in Request, NEW due \in BOOLEAN
    PROVE  /\ [r EXCEPT !.due = due] \in Request
           /\ Same([r EXCEPT !.due = due], r)
           /\ [r EXCEPT !.due = due].retriesRemaining = r.retriesRemaining
           /\ MayRetry(r) => /\ Retried(r) \in Request
                             /\ Same(Retried(r), r)
                             /\ Retried(r).retriesRemaining <= r.retriesRemaining
<1>1. PICK keys, generations :
          /\ r \in RequestsFor(r.reason, keys, generations)
          /\ RequestsFor(r.reason, keys, generations) \subseteq Request
  <2>1. CASE r \in RequestsFor("Roster", Players, {0})
    <3>1. r.reason = "Roster"
      BY <2>1 DEF RequestsFor
    <3>2. QED
      BY <2>1, <3>1 DEF Request
  <2>2. CASE r \in RequestsFor("PostMatch", Guids, {0})
    <3>1. r.reason = "PostMatch"
      BY <2>2 DEF RequestsFor
    <3>2. QED
      BY <2>2, <3>1 DEF Request
  <2>3. CASE r \in RequestsFor("TrackedAccount", Accounts, 1..MaxGeneration)
    <3>1. r.reason = "TrackedAccount"
      BY <2>3 DEF RequestsFor
    <3>2. QED
      BY <2>3, <3>1 DEF Request
  <2>4. QED
    BY <2>1, <2>2, <2>3 DEF Request
<1>2. /\ [r EXCEPT !.due = due] \in RequestsFor(r.reason, keys, generations)
      /\ Same([r EXCEPT !.due = due], r)
      /\ [r EXCEPT !.due = due].retriesRemaining = r.retriesRemaining
  BY <1>1 DEF RequestsFor, Same
<1>3. ASSUME MayRetry(r)
      PROVE  /\ Retried(r) \in RequestsFor(r.reason, keys, generations)
             /\ Same(Retried(r), r)
             /\ Retried(r).retriesRemaining <= r.retriesRemaining
  <2>1. r.retriesRemaining \in 1..MaxRetries
    BY <1>1, <1>3, RetriesAssumption DEF RequestsFor, MayRetry
  <2>2. r.retriesRemaining - 1 \in 0..MaxRetries /\ r.retriesRemaining - 1 <= r.retriesRemaining
    BY <2>1, RetriesAssumption
  <2> DEFINE once == [r EXCEPT !.retriesRemaining = @ - 1]
  <2>3. /\ once \in RequestsFor(r.reason, keys, generations)
        /\ Same(once, r)
        /\ once.retriesRemaining = r.retriesRemaining - 1
    BY <1>1, <2>2 DEF RequestsFor, Same
  <2>4. Retried(r) = [once EXCEPT !.due = FALSE]
    BY <1>1 DEF RequestsFor, Retried
  <2>5. /\ [once EXCEPT !.due = FALSE] \in RequestsFor(r.reason, keys, generations)
        /\ Same([once EXCEPT !.due = FALSE], r)
        /\ [once EXCEPT !.due = FALSE].retriesRemaining = once.retriesRemaining
    BY <2>3 DEF RequestsFor, Same
  <2>6. QED
    BY <2>2, <2>3, <2>4, <2>5
<1>4. QED
  BY <1>1, <1>2, <1>3

LEMMA SameEntry ==
    ASSUME NEW r, NEW s, Same(r, s)
    PROVE  /\ Same(s, r)
           /\ OwnsEntry(r) <=> OwnsEntry(s)
           /\ IsTracked(r) <=> IsTracked(s)
           /\ IsCurrent(r) <=> IsCurrent(s)
BY DEF Same, OwnsEntry, IsTracked, IsCurrent

-----------------------------------------------------------------------------
\* How steps change the live requests.

\* What the worker no longer holds had lost its entry (or nothing changed).
LEMMA Drop ==
    ASSUME LiveOK, UNCHANGED <<queue, dedupeVars>>,
           Held' \subseteq Held, \A r \in Held \ Held' : ~OwnsEntry(r)
    PROVE  LiveOK'
<1>1. Distinct(queue, Held)' /\ EntriesHeld(queue, Held)'
  BY DEF LiveOK, Distinct, EntriesHeld, OwnsEntry, dedupeVars
<1>2. Numbered(queue \cup Held)'
  BY DEF LiveOK, Numbered, dedupeVars
<1>3. Released(queue \cup Held)'
  BY DEF LiveOK, Released, OwnsEntry, dedupeVars
<1>4. QED
  BY <1>1, <1>2, <1>3 DEF LiveOK

\* A held request that owns its entry goes back to the queue under another
\* retry budget or due time.
LEMMA PutBack ==
    ASSUME LiveOK, UNCHANGED dedupeVars,
           NEW c \in Held, NEW d, Same(d, c), OwnsEntry(c),
           queue' = queue \cup {d}, Held' = Held \ {c}
    PROVE  LiveOK'
<1>1. \A r : Same(r, d) => Same(r, c)
  BY DEF Same
<1>2. Distinct(queue, Held)'
  BY <1>1 DEF LiveOK, Distinct, Same
<1>3. EntriesHeld(queue, Held)'
  BY DEF LiveOK, EntriesHeld, OwnsEntry, IsTracked, Same, dedupeVars
<1>4. Numbered(queue \cup Held)'
  BY DEF LiveOK, Numbered, Same, dedupeVars
<1>5. Released(queue \cup Held)'
  BY DEF LiveOK, Released, IsTracked, Same, dedupeVars
<1>6. QED
  BY <1>2, <1>3, <1>4, <1>5 DEF LiveOK

\* A held request is replaced by one of the same identity.
LEMMA Swap ==
    ASSUME LiveOK, UNCHANGED <<queue, dedupeVars>>,
           NEW c \in Held, NEW d, Same(d, c), Held' = (Held \ {c}) \cup {d}
    PROVE  LiveOK'
<1>1. \A r : Same(r, d) <=> Same(r, c)
  BY DEF Same
<1>2. Distinct(queue, Held)'
  BY <1>1 DEF LiveOK, Distinct, Same
<1>3. EntriesHeld(queue, Held)'
  BY DEF LiveOK, EntriesHeld, OwnsEntry, IsTracked, Same, dedupeVars
<1>4. Numbered(queue \cup Held)'
  BY DEF LiveOK, Numbered, Same, dedupeVars
<1>5. Released(queue \cup Held)'
  BY DEF LiveOK, Released, IsTracked, Same, dedupeVars
<1>6. QED
  BY <1>2, <1>3, <1>4, <1>5 DEF LiveOK

\* The worker takes requests out of the queue.
LEMMA TakeOut ==
    ASSUME LiveOK, UNCHANGED dedupeVars, NEW S, S \subseteq queue,
           Held = {}, queue' = queue \ S, Held' = S
    PROVE  LiveOK'
<1>1. Distinct(queue, Held)' /\ EntriesHeld(queue, Held)'
  BY DEF LiveOK, Distinct, EntriesHeld, OwnsEntry, dedupeVars
<1>2. Numbered(queue \cup Held)'
  BY DEF LiveOK, Numbered, dedupeVars
<1>3. Released(queue \cup Held)'
  BY DEF LiveOK, Released, dedupeVars
<1>4. QED
  BY <1>1, <1>2, <1>3 DEF LiveOK

\* A waiting request comes due.
LEMMA Mature ==
    ASSUME LiveOK, UNCHANGED dedupeVars, NEW c \in queue, NEW d, Same(d, c),
           queue' = (queue \ {c}) \cup {d}, Held' = Held
    PROVE  LiveOK'
<1>1. \A r : Same(r, d) <=> Same(r, c)
  BY DEF Same
<1>2. Distinct(queue, Held)'
  BY <1>1 DEF LiveOK, Distinct, Same
<1>3. EntriesHeld(queue, Held)'
  BY DEF LiveOK, EntriesHeld, OwnsEntry, IsTracked, Same, dedupeVars
<1>4. Numbered(queue \cup Held)'
  BY DEF LiveOK, Numbered, Same, dedupeVars
<1>5. Released(queue \cup Held)'
  BY DEF LiveOK, Released, IsTracked, Same, dedupeVars
<1>6. QED
  BY <1>2, <1>3, <1>4, <1>5 DEF LiveOK

\* A held request is finished.
LEMMA Finished ==
    ASSUME LiveOK, QueueTypeOK, NEW c \in Held, c \in Request,
           Held \subseteq Request, Finish(c), Held' = Held \ {c}
    PROVE  LiveOK'
<1> USE DEF Finish, IsTracked, IsCurrent
<1>1. \A r \in Request : r.reason = c.reason /\ r.key = c.key /\ OwnsEntry(r) /\ OwnsEntry(c)
                         => Same(r, c)
  BY RequestFields DEF Same, OwnsEntry
<1>2. Distinct(queue, Held)'
  BY DEF LiveOK, Distinct, Same
<1>3. \A r \in queue \cup Held : r # c /\ OwnsEntry(r) => OwnsEntry(r)'
  <2> SUFFICES ASSUME NEW r \in queue \cup Held, r # c, OwnsEntry(r)
               PROVE  OwnsEntry(r)'
    OBVIOUS
  <2>1. r \in Request /\ ~Same(r, c)
    BY DEF LiveOK, Distinct, QueueTypeOK
  <2>2. CASE IsTracked(r)
    <3>1. r.key \in Accounts /\ trackedQueuedOrInFlight[r.key] = r.generation
      BY <2>1, <2>2, RequestFields DEF OwnsEntry
    <3>2. CASE IsTracked(c) /\ IsCurrent(c) /\ c.key = r.key
      BY <2>1, <2>2, <3>1, <3>2 DEF Same
    <3>3. CASE ~(IsTracked(c) /\ IsCurrent(c) /\ c.key = r.key)
      BY <2>2, <3>1, <3>3 DEF OwnsEntry, QueueTypeOK
    <3>4. QED
      BY <3>2, <3>3
  <2>3. CASE ~IsTracked(r)
    BY <2>1, <2>3, RequestFields DEF OwnsEntry, Same
  <2>4. QED
    BY <2>2, <2>3
<1>4. EntriesHeld(queue, Held)'
  BY <1>3 DEF LiveOK, EntriesHeld, Distinct
<1>5. Numbered(queue \cup Held)'
  BY DEF LiveOK, Numbered, QueueTypeOK
<1>6. Released(queue \cup Held)'
  <2>1. ASSUME NEW p \in rosterQueuedOrInFlight'
        PROVE  \E r \in (queue \cup Held)' : r.reason = "Roster" /\ r.key = p
    BY <2>1 DEF LiveOK, Released
  <2>2. ASSUME NEW g \in pendingPostMatchGuids'
        PROVE  \E r \in (queue \cup Held)' : r.reason = "PostMatch" /\ r.key = g
    BY <2>2 DEF LiveOK, Released
  <2>3. ASSUME NEW a \in Accounts, trackedQueuedOrInFlight'[a] # 0
        PROVE  \E r \in (queue \cup Held)' :
                  IsTracked(r) /\ r.key = a /\ r.generation = trackedQueuedOrInFlight'[a]
    BY <2>3 DEF LiveOK, Released, QueueTypeOK
  <2>4. QED
    BY <2>1, <2>2, <2>3 DEF Released
<1>7. QED
  BY <1>2, <1>4, <1>5, <1>6 DEF LiveOK

\* A new request joins the queue with its entry.
LEMMA Entered ==
    ASSUME LiveOK, QueueTypeOK, Held \subseteq Request, Held' = Held,
           \/ \E p \in Players : EnqueueRoster(p)
           \/ \E g \in Guids : EnqueuePostMatchRequest(g)
           \/ \E a \in Accounts : EnqueueTrackedRequest(a)
    PROVE  LiveOK'
<1> USE DEF NewRequest, IsTracked
<1>1. ASSUME NEW p \in Players, EnqueueRoster(p)
      PROVE  LiveOK'
  <2> DEFINE new == NewRequest("Roster", p, 0, TRUE)
  <2>1. /\ new.reason = "Roster" /\ new.key = p /\ new.generation = 0
        /\ queue' = queue \cup {new}
        /\ p \notin rosterQueuedOrInFlight /\ rosterQueuedOrInFlight' = rosterQueuedOrInFlight \cup {p}
        /\ pendingPostMatchGuids' = pendingPostMatchGuids
        /\ UNCHANGED <<trackedQueuedOrInFlight, nextTrackedGeneration>>
    BY <1>1 DEF EnqueueRoster
  <2> HIDE DEF new
  <2>2. \A r \in queue \cup Held : ~Same(r, new) /\ ~Same(new, r)
    BY <2>1 DEF LiveOK, EntriesHeld, OwnsEntry, Same
  <2>3. Same(new, new)
    BY DEF Same
  <2>4. Distinct(queue, Held)'
    BY <2>1, <2>2, <2>3 DEF LiveOK, Distinct, Same
  <2>5. EntriesHeld(queue, Held)'
    BY <2>1 DEF LiveOK, EntriesHeld, OwnsEntry
  <2>6. Numbered(queue \cup Held)'
    BY <2>1 DEF LiveOK, Numbered, QueueTypeOK
  <2>7. Released(queue \cup Held)'
    BY <2>1 DEF LiveOK, Released
  <2>8. QED
    BY <2>4, <2>5, <2>6, <2>7 DEF LiveOK
<1>2. ASSUME NEW g \in Guids, EnqueuePostMatchRequest(g)
      PROVE  LiveOK'
  <2> DEFINE new == NewRequest("PostMatch", g, 0, FALSE)
  <2>1. /\ new.reason = "PostMatch" /\ new.key = g /\ new.generation = 0
        /\ queue' = queue \cup {new}
        /\ g \notin pendingPostMatchGuids /\ pendingPostMatchGuids' = pendingPostMatchGuids \cup {g}
        /\ rosterQueuedOrInFlight' = rosterQueuedOrInFlight
        /\ UNCHANGED <<trackedQueuedOrInFlight, nextTrackedGeneration>>
    BY <1>2 DEF EnqueuePostMatchRequest
  <2> HIDE DEF new
  <2>2. \A r \in queue \cup Held : ~Same(r, new) /\ ~Same(new, r)
    BY <2>1 DEF LiveOK, EntriesHeld, OwnsEntry, Same
  <2>3. Same(new, new)
    BY DEF Same
  <2>4. Distinct(queue, Held)'
    BY <2>1, <2>2, <2>3 DEF LiveOK, Distinct, Same
  <2>5. EntriesHeld(queue, Held)'
    BY <2>1 DEF LiveOK, EntriesHeld, OwnsEntry
  <2>6. Numbered(queue \cup Held)'
    BY <2>1 DEF LiveOK, Numbered, QueueTypeOK
  <2>7. Released(queue \cup Held)'
    BY <2>1 DEF LiveOK, Released
  <2>8. QED
    BY <2>4, <2>5, <2>6, <2>7 DEF LiveOK
<1>3. ASSUME NEW a \in Accounts, EnqueueTrackedRequest(a)
      PROVE  LiveOK'
  <2> DEFINE n == nextTrackedGeneration + 1
             new == NewRequest("TrackedAccount", a, n, TRUE)
  <2>0. /\ nextTrackedGeneration' = n /\ n \in 1..MaxGeneration /\ n > nextTrackedGeneration
        /\ trackedQueuedOrInFlight'[a] = n
        /\ \A b \in Accounts \ {a} : trackedQueuedOrInFlight'[b] = trackedQueuedOrInFlight[b]
        /\ trackedQueuedOrInFlight[a] = 0
        /\ queue' = queue \cup {new}
        /\ UNCHANGED <<rosterQueuedOrInFlight, pendingPostMatchGuids>>
        /\ new.reason = "TrackedAccount" /\ new.key = a /\ new.generation = n
    BY <1>3, GenerationAssumption DEF EnqueueTrackedRequest, QueueTypeOK
  <2> HIDE DEF new
  <2>1. \A r \in queue \cup Held : ~Same(r, new) /\ ~Same(new, r) /\ r.generation \in Nat
    BY <2>0, GenerationAssumption, RequestFields DEF LiveOK, Numbered, Same, QueueTypeOK
  <2>2. Distinct(queue, Held)'
    <3>1. Same(new, new)
      BY DEF Same
    <3>2. QED
      BY <2>0, <2>1, <3>1 DEF LiveOK, Distinct, Same
  <2>3. \A r \in queue \cup Held : OwnsEntry(r) => OwnsEntry(r)'
    <3> SUFFICES ASSUME NEW r \in queue \cup Held, OwnsEntry(r) PROVE OwnsEntry(r)'
      OBVIOUS
    <3>1. IsTracked(r) => r.key \in Accounts /\ r.generation \in 1..MaxGeneration
      BY RequestFields DEF QueueTypeOK
    <3>2. QED
      BY <2>0, <3>1 DEF OwnsEntry
  <2>4. EntriesHeld(queue, Held)'
    BY <2>0, <2>3 DEF LiveOK, EntriesHeld, OwnsEntry
  <2>5. Numbered(queue \cup Held)'
    BY <2>0, <2>1, GenerationAssumption DEF LiveOK, Numbered, QueueTypeOK
  <2>6. Released(queue \cup Held)'
    <3>1. ASSUME NEW b \in Accounts, trackedQueuedOrInFlight'[b] # 0
          PROVE  \E r \in (queue \cup Held)' :
                    IsTracked(r) /\ r.key = b /\ r.generation = trackedQueuedOrInFlight'[b]
      BY <2>0, <3>1 DEF LiveOK, Released
    <3>2. QED
      BY <2>0, <3>1 DEF LiveOK, Released
  <2>7. QED
    BY <2>2, <2>4, <2>5, <2>6 DEF LiveOK
<1>4. QED
  BY <1>1, <1>2, <1>3

\* An account's request is canceled: it leaves the queue, not the worker.
LEMMA Canceled ==
    ASSUME LiveOK, QueueTypeOK, Held \subseteq Request, Held' = Held,
           NEW a \in Accounts, CancelTrackedRequest(a)
    PROVE  LiveOK'
<1> USE DEF CancelTrackedRequest, IsTracked
<1>1. Distinct(queue, Held)'
  BY DEF LiveOK, Distinct, Same
<1>2. EntriesHeld(queue, Held)'
  <2>1. ASSUME NEW r \in queue'
        PROVE  OwnsEntry(r)'
    BY <2>1, RequestFields DEF LiveOK, EntriesHeld, OwnsEntry, QueueTypeOK
  <2>2. \A r \in Held : IsTracked(r) \/ OwnsEntry(r)'
    BY DEF LiveOK, EntriesHeld, OwnsEntry
  <2>3. QED
    BY <2>1, <2>2 DEF EntriesHeld
<1>3. Numbered(queue \cup Held)'
  BY DEF LiveOK, Numbered, QueueTypeOK
<1>4. Released(queue \cup Held)'
  BY DEF LiveOK, Released, QueueTypeOK
<1>5. QED
  BY <1>1, <1>2, <1>3, <1>4 DEF LiveOK

-----------------------------------------------------------------------------
\* What the worker's control steps do to what it holds.

Processing == {"answered", "customCall", "tracker", "trackerCall"}

LEMMA HeldTyped ==
    ASSUME ServiceTypeOK
    PROVE  Held \subseteq Request
BY DEF ServiceTypeOK, WorkerTypeOK, Held

LEMMA TakeNextHolds ==
    ASSUME NEW S \in SUBSET Request, TakeNext(S),
           S # {} => /\ lane' \in Reasons /\ reply' \in Replies
                     /\ tracking' \in BOOLEAN /\ unannounced' = {}
    PROVE  /\ WorkerTypeOK' /\ WorkerShape' /\ GateOK' /\ FinishOK'
           /\ Held' = S
<1>1. CASE S = {}
  BY <1>1 DEF TakeNext, Idle, WorkerTypeOK, WorkerShape, GateOK, FinishOK, Held, PCs,
              Reasons, Replies, Notices, WithoutCurrent, WithoutBatch
<1>2. CASE S # {}
  <2>1. PICK r \in S : current' = r /\ batch' = S \ {r}
    BY <1>2 DEF TakeNext
  <2>2. pc' = "answered" /\ notice' = "none" /\ r # NoRequest
    BY <1>2, NoRequestAssumption DEF TakeNext
  <2>3. QED
    BY <1>2, <2>1, <2>2
       DEF WorkerTypeOK, WorkerShape, GateOK, FinishOK, Held, PCs, Notices,
           WithoutCurrent, WithoutBatch
<1>3. QED
  BY <1>1, <1>2

LEMMA NextRequestHolds ==
    ASSUME ServiceTypeOK, WorkerShape, pc \notin WithoutCurrent, NextRequest
    PROVE  /\ WorkerTypeOK' /\ WorkerShape' /\ GateOK' /\ FinishOK'
           /\ Held' = batch
           /\ batch = Held \ {current}
<1>1. unannounced = {} /\ batch \in SUBSET Request
  BY DEF WorkerShape, WithoutCurrent, ServiceTypeOK, WorkerTypeOK
<1>2. batch # {} => /\ lane' \in Reasons /\ reply' \in Replies
                    /\ tracking' \in BOOLEAN /\ unannounced' = {}
  BY <1>1 DEF NextRequest, ServiceTypeOK, WorkerTypeOK
<1>3. TakeNext(batch)
  BY DEF NextRequest
<1>4. batch = Held \ {current}
  BY DEF WorkerShape, Held
<1>5. QED
  BY <1>1, <1>2, <1>3, <1>4, TakeNextHolds

LEMMA GotoHolds ==
    ASSUME ServiceTypeOK, WorkerShape, pc \notin WithoutCurrent, notice # "Requeued",
           NEW label \in PCs \ (WithoutCurrent \cup {"notify"}), Goto(label),
           label \in WithoutBatch => batch = {},
           label = "push" => IsTracked(current)
    PROVE  /\ WorkerTypeOK' /\ WorkerShape'
           /\ Held' = Held
           /\ pc' = label /\ notice' = "none" /\ current' = current
BY DEF Goto, ServiceTypeOK, WorkerTypeOK, WorkerShape, Held, Notices, WithoutCurrent

LEMMA TellHolds ==
    ASSUME ServiceTypeOK, WorkerShape, unannounced = {},
           NEW r \in Request, IsTracked(r), r \notin batch,
           NEW status \in Notices \ {"none"}, status = "Fetching" => batch = {},
           Tell(r, status)
    PROVE  /\ WorkerTypeOK' /\ WorkerShape' /\ FinishOK'
           /\ status # "Fetching" => GateOK'
           /\ Held' = batch \cup (IF status = "Requeued" THEN {} ELSE {r})
           /\ pc' = "notify" /\ notice' = status /\ current' = r
BY NoRequestAssumption
   DEF Tell, ServiceTypeOK, WorkerTypeOK, WorkerShape, FinishOK, GateOK, Held, PCs,
       WithoutCurrent, WithoutBatch, IsTracked

LEMMA AtProcessing ==
    ASSUME ServiceTypeOK, WorkerShape, pc \in Processing \cup {"fetch", "push", "finish"}
    PROVE  /\ current \in Request /\ current \notin batch /\ unannounced = {}
           /\ pc # "finish" => notice = "none"
           /\ Held = batch \cup {current}
           /\ pc \notin WithoutCurrent /\ notice # "Requeued"
BY DEF ServiceTypeOK, WorkerTypeOK, WorkerShape, Held, Processing, WithoutCurrent, Terminal

LEMMA TerminateHolds ==
    ASSUME ServiceTypeOK, WorkerShape, pc \in Processing,
           NEW status \in Terminal, Terminate(current, status)
    PROVE  /\ WorkerTypeOK' /\ WorkerShape' /\ GateOK' /\ FinishOK'
           /\ Held' = Held
<1>1. CASE IsTracked(current)
  <2>1. Tell(current, status) /\ status \in Notices \ {"none"} /\ status # "Fetching"
        /\ status # "Requeued"
    BY <1>1 DEF Terminate, Terminal, Notices
  <2>2. QED
    BY <1>1, <2>1, AtProcessing, TellHolds
<1>2. CASE ~IsTracked(current)
  <2>1. Goto("finish") /\ "finish" \in PCs \ (WithoutCurrent \cup {"notify"})
        /\ "finish" \notin WithoutBatch
    BY <1>2 DEF Terminate, PCs, WithoutCurrent, WithoutBatch
  <2>2. /\ WorkerTypeOK' /\ WorkerShape' /\ Held' = Held
        /\ pc' = "finish" /\ notice' = "none" /\ current' = current
    BY <2>1, AtProcessing, GotoHolds
  <2>3. QED
    BY <1>2, <2>2 DEF GateOK, FinishOK, IsTracked
<1>3. QED
  BY <1>1, <1>2

LEMMA BeginRetryHolds ==
    ASSUME Inductive, pc \in Processing, BeginRetry(current), UNCHANGED running,
           rateLimit' \in RateLimits
    PROVE  /\ QueueTypeOK' /\ WorkerTypeOK' /\ WorkerShape' /\ LiveOK' /\ GateOK' /\ FinishOK'
<1>1. /\ ServiceTypeOK /\ WorkerShape /\ LiveOK /\ QueueTypeOK
      /\ current \in Request /\ current \notin batch /\ unannounced = {}
      /\ Held = batch \cup {current}
      /\ pc \notin WithoutCurrent
  BY AtProcessing DEF Inductive, ServiceTypeOK
<1>2. CASE running /\ MayRetry(current)
  <2>1. Retried(current) \in Request /\ Same(Retried(current), current)
    BY <1>1, <1>2, Relabeled
  <2>2. CASE IsTracked(current)
    <3>1. /\ Tell(Retried(current), "Retrying") /\ UNCHANGED <<queue, dedupeVars>>
          /\ IsTracked(Retried(current))
      BY <1>2, <2>1, <2>2, SameEntry DEF BeginRetry
    <3>2. Retried(current) \notin batch
      BY <1>1, <2>1 DEF LiveOK, Distinct
    <3>3. "Retrying" \in Notices \ {"none"}
      BY DEF Notices
    <3>4. /\ WorkerTypeOK' /\ WorkerShape' /\ FinishOK' /\ GateOK'
          /\ Held' = batch \cup {Retried(current)}
      BY <1>1, <2>1, <3>1, <3>2, <3>3, TellHolds
    <3>5. Held' = (Held \ {current}) \cup {Retried(current)}
      BY <1>1, <3>4
    <3>6. LiveOK'
      BY <1>1, <2>1, <3>1, <3>5, Swap
    <3>7. QueueTypeOK'
      BY <1>1, <3>1 DEF QueueTypeOK, dedupeVars
    <3>8. QED
      BY <3>4, <3>6, <3>7
  <2>3. CASE ~IsTracked(current)
    <3>1. /\ queue' = queue \cup {Retried(current)} /\ UNCHANGED dedupeVars
          /\ NextRequest
      BY <1>2, <2>3 DEF BeginRetry
    <3>2. /\ WorkerTypeOK' /\ WorkerShape' /\ GateOK' /\ FinishOK'
          /\ Held' = Held \ {current}
      BY <1>1, <3>1, NextRequestHolds
    <3>3. OwnsEntry(current)
      BY <1>1, <2>3 DEF LiveOK, EntriesHeld
    <3>4. LiveOK'
      BY <1>1, <2>1, <3>1, <3>2, <3>3, PutBack
    <3>5. QueueTypeOK'
      BY <1>1, <2>1, <3>1 DEF QueueTypeOK, dedupeVars
    <3>6. QED
      BY <3>2, <3>4, <3>5
  <2>4. QED
    BY <2>2, <2>3
<1>3. CASE ~(running /\ MayRetry(current))
  <2>1. Terminate(current, "Failed") /\ UNCHANGED <<queue, dedupeVars>> /\ "Failed" \in Terminal
    BY <1>3 DEF BeginRetry, Terminal
  <2>2. WorkerTypeOK' /\ WorkerShape' /\ GateOK' /\ FinishOK' /\ Held' = Held
    BY <1>1, <2>1, TerminateHolds
  <2>3. LiveOK'
    BY <1>1, <2>1, <2>2, Drop
  <2>4. QueueTypeOK'
    BY <1>1, <2>1 DEF QueueTypeOK, dedupeVars
  <2>5. QED
    BY <2>2, <2>3, <2>4
<1>4. QED
  BY <1>2, <1>3

LEMMA EntryType ==
    ASSUME NEW f \in [Accounts -> 0..MaxGeneration], NEW a, NEW n \in 0..MaxGeneration
    PROVE  [f EXCEPT ![a] = n] \in [Accounts -> 0..MaxGeneration]
OBVIOUS

-----------------------------------------------------------------------------
\* The invariant is inductive.

LEMMA InitInductive == ServiceInit => Inductive
<1> SUFFICES ASSUME ServiceInit PROVE Inductive
  OBVIOUS
<1>1. ServiceTypeOK
  <2>1. QueueTypeOK
    BY GenerationAssumption DEF ServiceInit, QueueInit, QueueTypeOK, RateLimits
  <2>2. WorkerTypeOK
    BY DEF ServiceInit, WorkerTypeOK, PCs, Reasons, Replies, Notices
  <2>3. QED
    BY <2>1, <2>2 DEF ServiceInit, ServiceTypeOK
<1>2. WorkerShape /\ GateOK /\ FinishOK
  BY DEF ServiceInit, QueueInit, WorkerShape, GateOK, FinishOK, WithoutCurrent, IsRateLimited
<1>3. Held = {} /\ queue = {}
  BY DEF ServiceInit, QueueInit, Held
<1>4. LiveOK
  BY <1>3, GenerationAssumption
     DEF LiveOK, Distinct, EntriesHeld, Numbered, Released, ServiceInit, QueueInit
<1>5. QED
  BY <1>1, <1>2, <1>4 DEF Inductive

\* The steps at the top of WorkerLoop and of the dispatchers.
LEMMA DispatchPreserves ==
    ASSUME Inductive,
           \/ LoopTop \/ WorkerReturns \/ PopNothing \/ CoalesceYields \/ DrainBatch
           \/ \E r \in queue : PopSingle(r)
           \/ \E r \in unannounced : Announce(r)
    PROVE  Inductive'
<1> USE DEF others
<1>0. /\ ServiceTypeOK /\ QueueTypeOK /\ WorkerTypeOK /\ WorkerShape /\ LiveOK /\ GateOK /\ FinishOK
      /\ Held \subseteq Request
  BY HeldTyped DEF Inductive, ServiceTypeOK
<1>1. CASE LoopTop
  <2>1. /\ ServiceTypeOK' /\ WorkerShape' /\ GateOK' /\ FinishOK'
        /\ Held' = Held /\ UNCHANGED <<queue, dedupeVars>>
    BY <1>0, <1>1
       DEF LoopTop, queueVars, dedupeVars, ServiceTypeOK, QueueTypeOK, WorkerTypeOK, WorkerShape,
           GateOK, FinishOK, Held, PCs, Reasons, WithoutCurrent, WithoutBatch, IsRateLimited
  <2>2. QED
    BY <1>0, <2>1, Drop DEF Inductive
<1>2. CASE WorkerReturns \/ PopNothing
  <2>1. /\ ServiceTypeOK' /\ WorkerShape' /\ GateOK' /\ FinishOK'
        /\ Held' = Held /\ UNCHANGED <<queue, dedupeVars>>
    BY <1>0, <1>2
       DEF WorkerReturns, PopNothing, Goto, queueVars, dedupeVars, ServiceTypeOK, QueueTypeOK,
           WorkerTypeOK, WorkerShape, GateOK, FinishOK, Held, PCs, Notices, WithoutCurrent, WithoutBatch
  <2>2. QED
    BY <1>0, <2>1, Drop DEF Inductive
<1>3. CASE CoalesceYields
  <2>1. TakeNext({}) /\ UNCHANGED <<queueVars, others>>
    BY <1>3 DEF CoalesceYields, TakeNext
  <2>2. WorkerTypeOK' /\ WorkerShape' /\ GateOK' /\ FinishOK' /\ Held' = {}
    BY <2>1, TakeNextHolds
  <2>3. Held = {}
    BY <1>0, <1>3 DEF CoalesceYields, WorkerShape, WithoutCurrent, WithoutBatch, Held
  <2>4. LiveOK'
    BY <1>0, <2>1, <2>2, <2>3, Drop DEF queueVars
  <2>5. ServiceTypeOK'
    BY <1>0, <2>1, <2>2 DEF ServiceTypeOK, QueueTypeOK, queueVars, dedupeVars
  <2>6. QED
    BY <2>2, <2>4, <2>5 DEF Inductive
<1>4. CASE DrainBatch
  <2>0. Held = {} /\ current = NoRequest
    BY <1>0, <1>4 DEF DrainBatch, WorkerShape, WithoutCurrent, WithoutBatch, Held
  <2>1. PICK S \in DrainChoices(lane) :
            /\ queue' = queue \ S
            /\ IF S = {} THEN Idle
               ELSE /\ pc' = "announce" /\ batch' = S
                    /\ unannounced' = {r \in S : IsTracked(r)}
                    /\ UNCHANGED <<lane, reply, tracking, current, notice>>
    BY <1>4 DEF DrainBatch
  <2>2. S \subseteq queue /\ UNCHANGED dedupeVars /\ UNCHANGED <<rateLimit, running, config, records>>
    BY <1>4 DEF DrainBatch, DrainChoices, Ready
  <2>3. WorkerTypeOK' /\ WorkerShape' /\ GateOK' /\ FinishOK' /\ Held' = S
    <3>1. CASE S = {}
      BY <2>1, <3>1, TakeNextHolds DEF TakeNext
    <3>2. CASE S # {}
      <4>1. S \subseteq Request /\ rateLimit' # "closed" /\ notice = "none"
        BY <1>0, <1>4, <2>2
           DEF QueueTypeOK, DrainBatch, GateOK, IsRateLimited, WorkerShape
      <4>2. QED
        BY <1>0, <2>0, <2>1, <2>2, <3>2, <4>1, NoRequestAssumption
           DEF WorkerTypeOK, WorkerShape, GateOK, FinishOK, Held, PCs, WithoutCurrent, WithoutBatch,
               IsRateLimited
    <3>3. QED
      BY <3>1, <3>2
  <2>4. LiveOK'
    BY <1>0, <2>0, <2>1, <2>2, <2>3, TakeOut
  <2>5. ServiceTypeOK'
    BY <1>0, <2>1, <2>2, <2>3 DEF ServiceTypeOK, QueueTypeOK, dedupeVars
  <2>6. QED
    BY <2>3, <2>4, <2>5 DEF Inductive
<1>5. ASSUME NEW r \in queue, PopSingle(r)
      PROVE  Inductive'
  <2>0. /\ Held = {} /\ batch = {} /\ unannounced = {} /\ current = NoRequest /\ notice = "none"
        /\ r \in Request /\ rateLimit # "closed"
    BY <1>0, <1>5
       DEF PopSingle, WorkerShape, WithoutCurrent, WithoutBatch, Held, QueueTypeOK, GateOK, IsRateLimited
  <2>1. /\ queue' = queue \ {r} /\ UNCHANGED dedupeVars
        /\ UNCHANGED <<rateLimit, running, config, records>>
    BY <1>5 DEF PopSingle
  <2>2. WorkerTypeOK' /\ WorkerShape' /\ GateOK' /\ FinishOK' /\ Held' = {r}
    <3>1. CASE IsTracked(r)
      <4>1. Tell(r, "Fetching") /\ "Fetching" \in Notices \ {"none"} /\ "Fetching" # "Requeued"
        BY <1>5, <3>1 DEF PopSingle, Notices
      <4>2. /\ WorkerTypeOK' /\ WorkerShape' /\ FinishOK' /\ Held' = batch \cup {r}
        BY <1>0, <2>0, <3>1, <4>1, TellHolds
      <4>3. QED
        BY <2>0, <2>1, <4>2 DEF GateOK, IsRateLimited
    <3>2. CASE ~IsTracked(r)
      BY <1>0, <1>5, <2>0, <2>1, <3>2, NoRequestAssumption
         DEF PopSingle, WorkerTypeOK, WorkerShape, GateOK, FinishOK, Held, PCs, WithoutCurrent,
             WithoutBatch, IsRateLimited
    <3>3. QED
      BY <3>1, <3>2
  <2>3. LiveOK'
    BY <1>0, <2>0, <2>1, <2>2, TakeOut
  <2>4. ServiceTypeOK'
    BY <1>0, <2>1, <2>2 DEF ServiceTypeOK, QueueTypeOK, dedupeVars
  <2>5. QED
    BY <2>2, <2>3, <2>4 DEF Inductive
<1>6. ASSUME NEW r \in unannounced, Announce(r)
      PROVE  Inductive'
  <2>1. /\ ServiceTypeOK' /\ WorkerShape' /\ GateOK' /\ FinishOK'
        /\ Held' = Held /\ UNCHANGED <<queue, dedupeVars>>
    BY <1>0, <1>6
       DEF Announce, queueVars, dedupeVars, ServiceTypeOK, QueueTypeOK, WorkerTypeOK, WorkerShape,
           GateOK, FinishOK, Held, IsRateLimited
  <2>2. QED
    BY <1>0, <2>1, Drop DEF Inductive
<1>7. QED
  BY <1>1, <1>2, <1>3, <1>4, <1>5, <1>6

\* The steps that process the requests of a batch, or a single request.
LEMMA ProcessPreserves ==
    ASSUME Inductive,
           \/ SendBatch \/ FetchProfileTracker
           \/ (\E confirmed \in BOOLEAN : FetchProfile(confirmed))
           \/ TrackerFound \/ TrackerGarbled \/ TrackerLimited \/ TrackerTransient
           \/ TrackerRejected
           \/ \E answer \in Replies \ {"none"}, limited \in BOOLEAN : BatchReply(answer, limited)
           \/ \E found \in BOOLEAN : HandleAnswer(found)
           \/ \E answer \in Answers : CustomReply(answer)
    PROVE  Inductive'
<1> USE DEF others
<1>0. /\ ServiceTypeOK /\ QueueTypeOK /\ WorkerTypeOK /\ WorkerShape /\ LiveOK /\ GateOK /\ FinishOK
      /\ Held \subseteq Request
  BY HeldTyped DEF Inductive, ServiceTypeOK
<1>1. ASSUME UNCHANGED <<queue, dedupeVars, running, config, records>>, rateLimit' \in RateLimits,
             WorkerTypeOK' /\ WorkerShape' /\ GateOK' /\ FinishOK',
             Held' \subseteq Held, \A r \in Held \ Held' : ~IsCurrent(r)
      PROVE  Inductive'
  <2>1. \A r \in Held \ Held' : ~OwnsEntry(r)
    BY <1>1 DEF IsCurrent, OwnsEntry, IsTracked
  <2>2. LiveOK'
    BY <1>0, <1>1, <2>1, Drop
  <2>3. ServiceTypeOK'
    BY <1>0, <1>1 DEF ServiceTypeOK, QueueTypeOK, dedupeVars
  <2>4. QED
    BY <1>1, <2>2, <2>3 DEF Inductive
<1>2. ASSUME pc \in Processing, UNCHANGED <<queue, dedupeVars, running, config, records>>,
             rateLimit' \in RateLimits, NEW status \in Terminal, Terminate(current, status)
      PROVE  Inductive'
  BY <1>0, <1>1, <1>2, TerminateHolds
<1>3. ASSUME pc \in Processing, UNCHANGED <<running, config, records>>, rateLimit' \in RateLimits,
             BeginRetry(current)
      PROVE  Inductive'
  BY <1>3, BeginRetryHolds DEF Inductive, ServiceTypeOK
<1>4. ASSUME pc \in Processing \cup {"fetch"}, Goto("finish"), ~IsCurrent(current),
             UNCHANGED <<queue, dedupeVars, running, config, records>>, rateLimit' \in RateLimits
      PROVE  Inductive'
  <2>1. "finish" \in PCs \ (WithoutCurrent \cup {"notify"}) /\ "finish" \notin WithoutBatch
    BY DEF PCs, WithoutCurrent, WithoutBatch
  <2>2. /\ WorkerTypeOK' /\ WorkerShape' /\ Held' = Held
        /\ pc' = "finish" /\ notice' = "none" /\ current' = current
    BY <1>0, <1>4, <2>1, AtProcessing, GotoHolds
  <2>3. GateOK' /\ FinishOK'
    BY <1>4, <2>2 DEF GateOK, FinishOK, IsCurrent, IsTracked, dedupeVars
  <2>4. QED
    BY <1>1, <1>4, <2>2, <2>3
<1>5. ASSUME pc \in Processing, NEW label \in {"tracker", "trackerCall"}, Goto(label),
             ~IsRateLimited, UNCHANGED <<queueVars, running, config, records>>
      PROVE  Inductive'
  <2>1. /\ label \in PCs \ (WithoutCurrent \cup {"notify"}) /\ label \notin WithoutBatch
        /\ label # "push" /\ label # "finish"
    BY <1>5 DEF PCs, WithoutCurrent, WithoutBatch
  <2>2. /\ WorkerTypeOK' /\ WorkerShape' /\ Held' = Held /\ pc' = label
    BY <1>0, <1>5, <2>1, AtProcessing, GotoHolds
  <2>3. GateOK' /\ FinishOK'
    BY <1>5, <2>1, <2>2 DEF GateOK, FinishOK, IsRateLimited, queueVars
  <2>4. QED
    BY <1>0, <1>1, <1>5, <2>2, <2>3 DEF queueVars, QueueTypeOK
<1>6. CASE SendBatch
  <2> DEFINE wanted == {r \in batch : IsCurrent(r)}
  <2>1. /\ pc = "announce" /\ unannounced = {} /\ current = NoRequest /\ notice = "none"
        /\ Held = batch /\ UNCHANGED <<queueVars, others>> /\ rateLimit # "closed"
    BY <1>0, <1>6 DEF SendBatch, WorkerShape, WithoutCurrent, Held, GateOK, IsRateLimited
  <2>2. WorkerTypeOK' /\ WorkerShape' /\ GateOK' /\ FinishOK' /\ Held' = wanted
    <3>1. CASE wanted = {}
      BY <1>6, <3>1, TakeNextHolds DEF SendBatch, TakeNext
    <3>2. CASE wanted # {}
      BY <1>0, <1>6, <2>1, <3>2
         DEF SendBatch, WorkerTypeOK, WorkerShape, GateOK, FinishOK, Held, PCs, WithoutCurrent,
             WithoutBatch, IsRateLimited, queueVars
    <3>3. QED
      BY <3>1, <3>2
  <2>3. QED
    BY <1>0, <1>1, <2>1, <2>2 DEF queueVars, QueueTypeOK
<1>7. ASSUME NEW answer \in Replies \ {"none"}, NEW limited \in BOOLEAN, BatchReply(answer, limited)
      PROVE  Inductive'
  <2> DEFINE wanted == {r \in batch : IsCurrent(r)}
  <2>1. /\ unannounced = {} /\ current = NoRequest /\ Held = batch
        /\ UNCHANGED <<queue, dedupeVars, others>> /\ rateLimit' \in RateLimits
    BY <1>0, <1>7
       DEF BatchReply, WorkerShape, WithoutCurrent, Held, RateLimits, QueueTypeOK
  <2>2. /\ TakeNext(wanted) /\ wanted \in SUBSET Request
        /\ wanted # {} => /\ lane' \in Reasons /\ reply' \in Replies
                          /\ tracking' \in BOOLEAN /\ unannounced' = {}
    BY <1>0, <1>7, <2>1 DEF BatchReply, WorkerTypeOK, ServiceTypeOK, Config
  <2>3. WorkerTypeOK' /\ WorkerShape' /\ GateOK' /\ FinishOK' /\ Held' = wanted
    BY <2>2, TakeNextHolds
  <2>4. QED
    BY <1>1, <2>1, <2>3
<1>8. ASSUME NEW found \in BOOLEAN, HandleAnswer(found)
      PROVE  Inductive'
  <2>1. /\ pc \in Processing \cup {"fetch"} /\ pc \in Processing
        /\ UNCHANGED <<rateLimit, running, config, records>> /\ rateLimit' \in RateLimits
    BY <1>0, <1>8 DEF HandleAnswer, Processing, QueueTypeOK
  <2>2. "ApiSuccess" \in Terminal /\ "Failed" \in Terminal
    BY DEF Terminal
  <2>3. \/ Goto("finish") /\ ~IsCurrent(current) /\ UNCHANGED <<queue, dedupeVars>>
        \/ Terminate(current, "ApiSuccess") /\ UNCHANGED <<queue, dedupeVars>>
        \/ BeginRetry(current)
        \/ Goto("tracker") /\ ~IsRateLimited /\ UNCHANGED <<queue, dedupeVars>>
        \/ Terminate(current, "Failed") /\ UNCHANGED <<queue, dedupeVars>>
    BY <1>8 DEF HandleAnswer, IsRateLimited, IsRateLimitedForBatch
  <2>4. QED
    BY <1>2, <1>3, <1>4, <1>5, <2>1, <2>2, <2>3 DEF queueVars
<1>9. ASSUME NEW confirmed \in BOOLEAN, FetchProfile(confirmed)
      PROVE  Inductive'
  <2>1. /\ pc = "fetch" /\ current \in Request /\ current \notin batch /\ notice = "none"
        /\ batch = {} /\ unannounced = {} /\ current # NoRequest /\ rateLimit # "closed"
    BY <1>0, <1>9, AtProcessing, NoRequestAssumption
       DEF FetchProfile, WorkerShape, WithoutBatch, GateOK, IsRateLimited
  <2>2. WorkerTypeOK' /\ WorkerShape' /\ GateOK' /\ FinishOK' /\ Held' = Held
    BY <1>0, <1>9, <2>1
       DEF FetchProfile, WorkerTypeOK, ServiceTypeOK, Config, WorkerShape, GateOK, FinishOK, Held, PCs,
           WithoutCurrent, WithoutBatch, IsRateLimited, IsCurrent, IsTracked, queueVars, dedupeVars
  <2>3. QED
    BY <1>0, <1>1, <1>9, <2>2 DEF FetchProfile, queueVars, QueueTypeOK
<1>10. ASSUME NEW answer \in Answers, CustomReply(answer)
       PROVE  Inductive'
  <2>1. /\ pc \in Processing \cup {"fetch"} /\ pc \in Processing /\ ~IsRateLimited
        /\ UNCHANGED <<rateLimit, running, config, records>> /\ rateLimit' \in RateLimits
    BY <1>0, <1>10 DEF CustomReply, Processing, QueueTypeOK, GateOK
  <2>2. "ApiSuccess" \in Terminal /\ "Failed" \in Terminal
    BY DEF Terminal
  <2>3. \/ Goto("finish") /\ ~IsCurrent(current) /\ UNCHANGED <<queue, dedupeVars>>
        \/ Terminate(current, "ApiSuccess") /\ UNCHANGED <<queue, dedupeVars>>
        \/ BeginRetry(current)
        \/ IsTracked(current) /\ Tell(current, "Failed") /\ UNCHANGED <<queue, dedupeVars>>
        \/ Goto("tracker") /\ UNCHANGED <<queue, dedupeVars>>
    BY <1>10, <2>1 DEF CustomReply, Publish
  <2>4. QED
    BY <1>2, <1>3, <1>4, <1>5, <2>1, <2>2, <2>3 DEF queueVars, Terminate
<1>11. CASE FetchProfileTracker
  <2>1. /\ pc \in Processing \cup {"fetch"} /\ pc \in Processing /\ ~IsRateLimited
        /\ UNCHANGED <<queueVars, running, config, records>> /\ rateLimit' \in RateLimits
    BY <1>0, <1>11 DEF FetchProfileTracker, Processing, QueueTypeOK, GateOK, queueVars
  <2>2. \/ Goto("finish") /\ ~IsCurrent(current)
        \/ Goto("trackerCall")
        \/ Terminate(current, "Failed") /\ "Failed" \in Terminal
    BY <1>11 DEF FetchProfileTracker, Terminal
  <2>3. QED
    BY <1>2, <1>4, <1>5, <2>1, <2>2 DEF queueVars
<1>12. CASE TrackerFound \/ TrackerGarbled \/ TrackerLimited \/ TrackerTransient \/ TrackerRejected
  <2>1. /\ pc \in Processing /\ UNCHANGED <<running, config, records>> /\ rateLimit' \in RateLimits
    BY <1>0, <1>12
       DEF TrackerFound, TrackerGarbled, TrackerLimited, TrackerTransient, TrackerRejected,
           ResetForbidden, Processing, RateLimits, QueueTypeOK, queueVars
  <2>2. "Success" \in Terminal /\ "Failed" \in Terminal
    BY DEF Terminal
  <2>3. \/ BeginRetry(current)
        \/ Terminate(current, "Success") /\ UNCHANGED <<queue, dedupeVars>>
        \/ Terminate(current, "Failed") /\ UNCHANGED <<queue, dedupeVars>>
    BY <1>12
       DEF TrackerFound, TrackerGarbled, TrackerLimited, TrackerTransient, TrackerRejected,
           Publish, queueVars
  <2>4. QED
    BY <1>2, <1>3, <2>1, <2>2, <2>3
<1>13. QED
  BY <1>6, <1>7, <1>8, <1>9, <1>10, <1>11, <1>12

\* The steps that call the sink, put a request back or finish it.
LEMMA ReleasePreserves ==
    ASSUME Inductive,
           Notify \/ PushRetry \/ FinishRequest \/ TrackerForbidden
    PROVE  Inductive'
<1> USE DEF others
<1>0. /\ ServiceTypeOK /\ QueueTypeOK /\ WorkerTypeOK /\ WorkerShape /\ LiveOK /\ GateOK /\ FinishOK
      /\ Held \subseteq Request
  BY HeldTyped DEF Inductive, ServiceTypeOK
<1>1. CASE Notify
  <2>1. /\ pc = "notify" /\ IsTracked(current) /\ current \in Request /\ current \notin batch
        /\ unannounced = {} /\ pc \notin WithoutCurrent /\ current # NoRequest
        /\ UNCHANGED <<queue, dedupeVars, rateLimit, running, config, records>>
    BY <1>0, <1>1, NoRequestAssumption
       DEF Notify, WorkerShape, WithoutCurrent, WorkerTypeOK, queueVars
  <2>2. WorkerTypeOK' /\ WorkerShape' /\ GateOK' /\ FinishOK' /\ Held' = Held
    <3>1. CASE notice = "Fetching"
      <4>1. /\ Goto("fetch") /\ batch = {} /\ "fetch" \in PCs \ (WithoutCurrent \cup {"notify"})
            /\ rateLimit # "closed"
        BY <1>0, <1>1, <3>1
           DEF Notify, WorkerShape, PCs, WithoutCurrent, GateOK, IsRateLimited
      <4>2. /\ WorkerTypeOK' /\ WorkerShape' /\ Held' = Held /\ pc' = "fetch"
        BY <1>0, <2>1, <3>1, <4>1, GotoHolds
      <4>3. QED
        BY <2>1, <4>1, <4>2 DEF GateOK, FinishOK, IsRateLimited
    <3>2. CASE notice = "Retrying"
      <4>1. Goto("push") /\ "push" \in PCs \ (WithoutCurrent \cup {"notify"})
            /\ "push" \notin WithoutBatch
        BY <1>1, <3>2 DEF Notify, PCs, WithoutCurrent, WithoutBatch
      <4>2. /\ WorkerTypeOK' /\ WorkerShape' /\ Held' = Held /\ pc' = "push" /\ notice' = "none"
        BY <1>0, <2>1, <3>2, <4>1, GotoHolds
      <4>3. QED
        BY <4>2 DEF GateOK, FinishOK
    <3>3. CASE notice = "Requeued"
      <4>1. NextRequest
        BY <1>1, <3>3 DEF Notify
      <4>2. Held = batch
        BY <3>3 DEF Held
      <4>3. QED
        BY <1>0, <2>1, <4>1, <4>2, NextRequestHolds
    <3>4. CASE notice \notin {"Fetching", "Retrying", "Requeued"}
      <4>1. /\ pc' = "finish" /\ notice \in Terminal
            /\ UNCHANGED <<lane, batch, unannounced, current, reply, tracking, notice>>
        BY <1>0, <1>1, <3>4 DEF Notify, WorkerShape, WorkerTypeOK, Notices
      <4>2. QED
        BY <1>0, <2>1, <3>4, <4>1
           DEF WorkerTypeOK, WorkerShape, GateOK, FinishOK, Held, PCs, WithoutCurrent, WithoutBatch,
               Terminal
    <3>5. QED
      BY <3>1, <3>2, <3>3, <3>4
  <2>3. LiveOK'
    BY <1>0, <2>1, <2>2, Drop
  <2>4. ServiceTypeOK'
    BY <1>0, <2>1, <2>2 DEF ServiceTypeOK, QueueTypeOK, dedupeVars
  <2>5. QED
    BY <2>2, <2>3, <2>4 DEF Inductive
<1>2. CASE PushRetry
  <2>1. /\ current \in Request /\ current \notin batch /\ unannounced = {} /\ notice = "none"
        /\ Held = batch \cup {current} /\ pc \notin WithoutCurrent /\ IsTracked(current)
        /\ UNCHANGED <<dedupeVars, rateLimit, running, config, records>>
    BY <1>0, <1>2, AtProcessing DEF PushRetry, WorkerShape
  <2>2. CASE IsCurrent(current)
    <3>1. queue' = queue \cup {current} /\ NextRequest
      BY <1>2, <2>2 DEF PushRetry
    <3>2. WorkerTypeOK' /\ WorkerShape' /\ GateOK' /\ FinishOK' /\ Held' = Held \ {current}
      BY <1>0, <2>1, <3>1, NextRequestHolds
    <3>3. OwnsEntry(current) /\ Same(current, current)
      BY <2>1, <2>2 DEF IsCurrent, OwnsEntry, Same
    <3>4. LiveOK'
      BY <1>0, <2>1, <3>1, <3>2, <3>3, PutBack
    <3>5. ServiceTypeOK'
      BY <1>0, <2>1, <3>1, <3>2 DEF ServiceTypeOK, QueueTypeOK, dedupeVars
    <3>6. QED
      BY <3>2, <3>4, <3>5 DEF Inductive
  <2>3. CASE ~IsCurrent(current)
    <3>1. /\ Goto("finish") /\ UNCHANGED queue
          /\ "finish" \in PCs \ (WithoutCurrent \cup {"notify"}) /\ "finish" \notin WithoutBatch
      BY <1>2, <2>3 DEF PushRetry, PCs, WithoutCurrent, WithoutBatch
    <3>2. /\ WorkerTypeOK' /\ WorkerShape' /\ Held' = Held
          /\ pc' = "finish" /\ notice' = "none" /\ current' = current
      BY <1>0, <2>1, <3>1, GotoHolds
    <3>3. GateOK' /\ FinishOK'
      BY <2>1, <2>3, <3>2 DEF GateOK, FinishOK, IsCurrent, IsTracked, dedupeVars
    <3>4. LiveOK'
      BY <1>0, <2>1, <3>1, <3>2, Drop
    <3>5. ServiceTypeOK'
      BY <1>0, <2>1, <3>1, <3>2 DEF ServiceTypeOK, QueueTypeOK, dedupeVars
    <3>6. QED
      BY <3>2, <3>3, <3>4, <3>5 DEF Inductive
  <2>4. QED
    BY <2>2, <2>3
<1>3. CASE FinishRequest
  <2>1. /\ current \in Request /\ current \notin batch /\ unannounced = {}
        /\ Held = batch \cup {current} /\ pc \notin WithoutCurrent
        /\ Finish(current) /\ NextRequest /\ UNCHANGED <<running, config, records>>
    BY <1>0, <1>3, AtProcessing DEF FinishRequest
  <2>2. WorkerTypeOK' /\ WorkerShape' /\ GateOK' /\ FinishOK' /\ Held' = Held \ {current}
    BY <1>0, <2>1, NextRequestHolds
  <2>3. LiveOK'
    BY <1>0, <2>1, <2>2, Finished
  <2>4. QueueTypeOK'
    <3>1. trackedQueuedOrInFlight' \in [Accounts -> 0..MaxGeneration]
      <4>1. 0 \in 0..MaxGeneration
        BY GenerationAssumption
      <4>2. \/ trackedQueuedOrInFlight' = trackedQueuedOrInFlight
            \/ trackedQueuedOrInFlight' = [trackedQueuedOrInFlight EXCEPT ![current.key] = 0]
        BY <2>1 DEF Finish
      <4>3. QED
        BY <1>0, <4>1, <4>2, EntryType DEF QueueTypeOK
    <3>2. QED
      BY <1>0, <2>1, <3>1 DEF Finish, QueueTypeOK
  <2>5. QED
    BY <1>0, <2>1, <2>2, <2>3, <2>4 DEF Inductive, ServiceTypeOK
<1>4. CASE TrackerForbidden
  <2>1. /\ pc \in Processing /\ current \in Request /\ current \notin batch /\ unannounced = {}
        /\ notice = "none" /\ Held = batch \cup {current} /\ pc \notin WithoutCurrent
        /\ UNCHANGED <<running, config, records>>
    BY <1>0, <1>4, AtProcessing DEF TrackerForbidden, Processing
  <2>2. "finish" \in PCs \ (WithoutCurrent \cup {"notify"}) /\ "finish" \notin WithoutBatch
    BY DEF PCs, WithoutCurrent, WithoutBatch
  <2>3. CASE ~running \/ ~IsCurrent(current)
    <3>1. /\ Goto("finish") /\ UNCHANGED <<queue, dedupeVars>> /\ rateLimit' \in RateLimits
      BY <1>0, <1>4, <2>3 DEF TrackerForbidden, Forbidden, queueVars, QueueTypeOK, RateLimits
    <3>2. /\ WorkerTypeOK' /\ WorkerShape' /\ Held' = Held
          /\ pc' = "finish" /\ notice' = "none" /\ current' = current
      BY <1>0, <2>1, <2>2, <3>1, GotoHolds
    <3>3. GateOK' /\ FinishOK'
      BY <2>1, <2>3, <3>1, <3>2 DEF GateOK, FinishOK, IsCurrent, IsTracked, dedupeVars
    <3>4. LiveOK'
      BY <1>0, <3>1, <3>2, Drop
    <3>5. ServiceTypeOK'
      BY <1>0, <2>1, <3>1, <3>2 DEF ServiceTypeOK, QueueTypeOK, dedupeVars
    <3>6. QED
      BY <3>2, <3>3, <3>4, <3>5 DEF Inductive
  <2>4. CASE running /\ IsCurrent(current)
    <3> DEFINE again == [current EXCEPT !.due = FALSE]
    <3>1. /\ queue' = queue \cup {again} /\ UNCHANGED dedupeVars /\ rateLimit' \in RateLimits
          /\ IF IsTracked(current) THEN Tell(current, "Requeued") ELSE NextRequest
      BY <1>4, <2>4 DEF TrackerForbidden, Forbidden, RateLimits
    <3>2. again \in Request /\ Same(again, current)
      BY <2>1, Relabeled
    <3>3. OwnsEntry(current)
      BY <1>0, <2>1, <2>4 DEF LiveOK, EntriesHeld, OwnsEntry, IsCurrent
    <3>4. WorkerTypeOK' /\ WorkerShape' /\ GateOK' /\ FinishOK' /\ Held' = Held \ {current}
      <4>1. CASE IsTracked(current)
        <5>1. "Requeued" \in Notices \ {"none"}
          BY DEF Notices
        <5>2. /\ WorkerTypeOK' /\ WorkerShape' /\ GateOK' /\ FinishOK' /\ Held' = batch
          BY <1>0, <2>1, <3>1, <4>1, <5>1, TellHolds
        <5>3. QED
          BY <2>1, <5>2
      <4>2. CASE ~IsTracked(current)
        BY <1>0, <2>1, <3>1, <4>2, NextRequestHolds
      <4>3. QED
        BY <4>1, <4>2
    <3> HIDE DEF again
    <3>5. LiveOK'
      BY <1>0, <2>1, <3>1, <3>2, <3>3, <3>4, PutBack
    <3>6. ServiceTypeOK'
      BY <1>0, <2>1, <3>1, <3>2, <3>4 DEF ServiceTypeOK, QueueTypeOK, dedupeVars
    <3>7. QED
      BY <3>4, <3>5, <3>6 DEF Inductive
  <2>5. QED
    BY <2>3, <2>4
<1>5. QED
  BY <1>1, <1>2, <1>3, <1>4

\* The clock and the other users of the service.
LEMMA UsersPreserve ==
    ASSUME Inductive,
           Clock \/ MatchTraffic \/ AccountTraffic \/ ChangeConfig \/ Stop
    PROVE  Inductive'
<1> USE DEF others
<1>0. /\ ServiceTypeOK /\ QueueTypeOK /\ WorkerTypeOK /\ WorkerShape /\ LiveOK /\ GateOK /\ FinishOK
      /\ Held \subseteq Request
  BY HeldTyped DEF Inductive, ServiceTypeOK
<1>1. UNCHANGED workerVars
  BY DEF Clock, LockoutEnds, TimeComes, MatchTraffic, Enqueue, EnqueuePostMatch, AccountTraffic,
         EnqueueTrackedAccount, CancelTrackedAccount, ChangeConfig, Stop
<1>2. WorkerTypeOK' /\ WorkerShape' /\ Held' = Held
  BY <1>0, <1>1 DEF workerVars, WorkerTypeOK, WorkerShape, Held
<1>3. ASSUME UNCHANGED dedupeVars, running' => running PROVE FinishOK'
  BY <1>0, <1>1, <1>3 DEF FinishOK, IsCurrent, IsTracked, workerVars, dedupeVars
<1>4. ASSUME IsRateLimited' => IsRateLimited PROVE GateOK'
  BY <1>0, <1>1, <1>4 DEF GateOK, workerVars
<1>5. CASE LockoutEnds
  <2>1. /\ UNCHANGED <<queue, dedupeVars, running, config, records>> /\ rateLimit' \in RateLimits
        /\ IsRateLimited' => IsRateLimited
    BY <1>5 DEF LockoutEnds, LockoutLapses, RateLimits, IsRateLimited
  <2>2. LiveOK'
    BY <1>0, <1>2, <2>1, Drop
  <2>3. QED
    BY <1>0, <1>2, <1>3, <1>4, <2>1, <2>2
       DEF Inductive, ServiceTypeOK, QueueTypeOK, dedupeVars
<1>6. ASSUME NEW r \in queue, TimeComes(r)
      PROVE  Inductive'
  <2> DEFINE ripe == [r EXCEPT !.due = TRUE]
  <2>1. /\ queue' = (queue \ {r}) \cup {ripe}
        /\ UNCHANGED <<dedupeVars, rateLimit, running, config, records>>
    BY <1>6 DEF TimeComes, BecomesDue
  <2>2. ripe \in Request /\ Same(ripe, r)
    BY <1>0, Relabeled DEF QueueTypeOK
  <2> HIDE DEF ripe
  <2>3. LiveOK'
    BY <1>0, <1>2, <2>1, <2>2, Mature
  <2>4. QED
    BY <1>0, <1>2, <1>3, <1>4, <2>1, <2>2, <2>3
       DEF Inductive, ServiceTypeOK, QueueTypeOK, dedupeVars, IsRateLimited
<1>7. ASSUME NEW p \in Players, Enqueue(p)
      PROVE  Inductive'
  <2>1. EnqueueRoster(p) /\ UNCHANGED <<running, config, records>>
    BY <1>7 DEF Enqueue
  <2>2. LiveOK'
    BY <1>0, <1>2, <2>1, Entered
  <2>3. QueueTypeOK'
    BY <1>0, <2>1, NewRequestType DEF EnqueueRoster, QueueTypeOK
  <2>4. GateOK' /\ FinishOK'
    BY <1>0, <1>1, <2>1
       DEF EnqueueRoster, GateOK, FinishOK, IsRateLimited, IsCurrent, IsTracked, workerVars
  <2>5. QED
    BY <1>0, <1>2, <2>1, <2>2, <2>3, <2>4 DEF Inductive, ServiceTypeOK
<1>8. ASSUME NEW g \in Guids, EnqueuePostMatch(g)
      PROVE  Inductive'
  <2>1. EnqueuePostMatchRequest(g) /\ UNCHANGED <<running, config>> /\ records' \subseteq Guids
    BY <1>0, <1>8 DEF EnqueuePostMatch, ServiceTypeOK
  <2>2. LiveOK'
    BY <1>0, <1>2, <2>1, Entered
  <2>3. QueueTypeOK'
    BY <1>0, <2>1, NewRequestType DEF EnqueuePostMatchRequest, QueueTypeOK
  <2>4. GateOK' /\ FinishOK'
    BY <1>0, <1>1, <2>1
       DEF EnqueuePostMatchRequest, GateOK, FinishOK, IsRateLimited, IsCurrent, IsTracked, workerVars
  <2>5. QED
    BY <1>0, <1>2, <2>1, <2>2, <2>3, <2>4 DEF Inductive, ServiceTypeOK
<1>9. ASSUME NEW a \in Accounts, EnqueueTrackedAccount(a)
      PROVE  Inductive'
  <2>1. EnqueueTrackedRequest(a) /\ UNCHANGED <<running, config, records>>
    BY <1>9 DEF EnqueueTrackedAccount
  <2>2. LiveOK'
    BY <1>0, <1>2, <2>1, Entered
  <2>3. nextTrackedGeneration + 1 \in 1..MaxGeneration
    BY <1>0, <2>1, GenerationAssumption DEF EnqueueTrackedRequest, QueueTypeOK
  <2>4. QueueTypeOK'
    <3>1. nextTrackedGeneration + 1 \in 0..MaxGeneration
      BY <2>3, GenerationAssumption
    <3>2. trackedQueuedOrInFlight' \in [Accounts -> 0..MaxGeneration]
      BY <1>0, <2>1, <3>1, EntryType DEF EnqueueTrackedRequest, QueueTypeOK
    <3>3. queue' \subseteq Request
      BY <1>0, <2>1, <2>3, NewRequestType DEF EnqueueTrackedRequest, QueueTypeOK
    <3>4. QED
      BY <1>0, <2>1, <3>1, <3>2, <3>3 DEF EnqueueTrackedRequest, QueueTypeOK
  <2>5. FinishOK'
    <3>1. SUFFICES ASSUME pc = "finish", running, IsTracked(current), IsCurrent(current)'
                   PROVE  notice \in Terminal
      BY <1>1, <2>1 DEF FinishOK, IsTracked, workerVars
    <3>2. /\ current \in Request /\ current \in Held
          /\ current.key \in Accounts /\ current.generation <= nextTrackedGeneration
      BY <1>0, <3>1, AtProcessing, RequestFields DEF LiveOK, Numbered, IsTracked
    <3>3. trackedQueuedOrInFlight'[current.key] = current.generation
      BY <1>1, <3>1 DEF IsCurrent, IsTracked, workerVars
    <3>4. current.key # a
      BY <1>0, <2>1, <3>2, <3>3, GenerationAssumption DEF EnqueueTrackedRequest, QueueTypeOK
    <3>5. IsCurrent(current)
      BY <1>0, <2>1, <3>2, <3>3, <3>4 DEF EnqueueTrackedRequest, QueueTypeOK, IsCurrent
    <3>6. QED
      BY <1>0, <3>1, <3>5 DEF FinishOK
  <2>6. GateOK'
    BY <1>0, <1>1, <2>1 DEF EnqueueTrackedRequest, GateOK, IsRateLimited, workerVars
  <2>7. QED
    BY <1>0, <1>2, <2>1, <2>2, <2>4, <2>5, <2>6 DEF Inductive, ServiceTypeOK
<1>10. ASSUME NEW a \in Accounts, CancelTrackedAccount(a)
       PROVE  Inductive'
  <2>1. CancelTrackedRequest(a) /\ UNCHANGED <<running, config, records>>
    BY <1>10 DEF CancelTrackedAccount
  <2>2. LiveOK'
    BY <1>0, <1>2, <2>1, Canceled
  <2>3. QueueTypeOK'
    <3>1. trackedQueuedOrInFlight' \in [Accounts -> 0..MaxGeneration]
      BY <1>0, <2>1, GenerationAssumption DEF CancelTrackedRequest, QueueTypeOK
    <3>2. QED
      BY <1>0, <2>1, <3>1 DEF CancelTrackedRequest, QueueTypeOK
  <2>4. FinishOK'
    <3>1. SUFFICES ASSUME pc = "finish", running, IsTracked(current), IsCurrent(current)'
                   PROVE  notice \in Terminal
      BY <1>1, <2>1 DEF FinishOK, IsTracked, workerVars
    <3>2. /\ current.key \in Accounts /\ current.generation \in 1..MaxGeneration
      BY <1>0, <3>1, AtProcessing, RequestFields DEF IsTracked
    <3>3. IsCurrent(current)
      BY <1>0, <1>1, <2>1, <3>1, <3>2
         DEF CancelTrackedRequest, QueueTypeOK, IsCurrent, IsTracked, workerVars
    <3>4. QED
      BY <1>0, <3>1, <3>3 DEF FinishOK
  <2>5. GateOK'
    BY <1>0, <1>1, <2>1 DEF CancelTrackedRequest, GateOK, IsRateLimited, workerVars
  <2>6. QED
    BY <1>0, <1>2, <2>1, <2>2, <2>3, <2>4, <2>5 DEF Inductive, ServiceTypeOK
<1>11. CASE ChangeConfig \/ Stop
  <2>1. /\ UNCHANGED <<queue, dedupeVars, rateLimit, records>>
        /\ config' \in Config /\ running' \in BOOLEAN /\ (running' => running)
    <3>1. CASE ChangeConfig
      BY <1>0, <3>1 DEF ChangeConfig, ServiceTypeOK, queueVars
    <3>2. CASE Stop
      BY <1>0, <3>2 DEF Stop, ServiceTypeOK, queueVars
    <3>3. QED
      BY <1>11, <3>1, <3>2
  <2>2. LiveOK'
    BY <1>0, <1>2, <2>1, Drop
  <2>3. QED
    BY <1>0, <1>2, <1>3, <1>4, <2>1, <2>2
       DEF Inductive, ServiceTypeOK, QueueTypeOK, dedupeVars, IsRateLimited
<1>12. QED
  BY <1>5, <1>6, <1>7, <1>8, <1>9, <1>10, <1>11 DEF Clock, MatchTraffic, AccountTraffic

THEOREM InductiveInvariant == ServiceSpec => []Inductive
<1>1. ASSUME Inductive, [ServiceNext]_vars
      PROVE  Inductive'
  <2>1. CASE ServiceNext
    BY <1>1, <2>1, DispatchPreserves, ProcessPreserves, ReleasePreserves, UsersPreserve
       DEF ServiceNext, WorkerStep, SinkStep
  <2>2. CASE UNCHANGED vars
    BY <1>1, <2>2
       DEF vars, queueVars, dedupeVars, workerVars, Inductive, ServiceTypeOK, QueueTypeOK,
           WorkerTypeOK, WorkerShape, LiveOK, Distinct, EntriesHeld, OwnsEntry, Numbered, Released,
           GateOK, FinishOK, Held, IsCurrent, IsTracked, IsRateLimited
  <2>3. QED
    BY <1>1, <2>1, <2>2
<1>2. QED
  BY InitInductive, <1>1, PTL DEF ServiceSpec

-----------------------------------------------------------------------------
\* What the invariant gives.

\* Every variable of the service keeps its type.
THEOREM TypeCorrect == ServiceSpec => []ServiceTypeOK
<1>1. Inductive => ServiceTypeOK
  BY DEF Inductive
<1>2. QED
  BY <1>1, InductiveInvariant, PTL

\* Every waiting request owns its dedupe entry.
THEOREM QueueCurrent == ServiceSpec => []QueueHoldsOnlyCurrent
<1>1. Inductive => QueueHoldsOnlyCurrent
  BY DEF Inductive, LiveOK, EntriesHeld, QueueHoldsOnlyCurrent
<1>2. QED
  BY <1>1, InductiveInvariant, PTL

\* No player, match or account generation is live twice.
THEOREM OneFlight == ServiceSpec => []SingleFlight
<1>1. Inductive => SingleFlight
  BY DEF Inductive, LiveOK, Distinct, WorkerShape, SingleFlight
<1>2. QED
  BY <1>1, InductiveInvariant, PTL

\* No dedupe entry is left without a request that will release it.
THEOREM EntriesReleasable == ServiceSpec => []NoOrphanEntry
<1>1. Inductive => NoOrphanEntry
  BY DEF Inductive, LiveOK, Released, NoOrphanEntry
<1>2. QED
  BY <1>1, InductiveInvariant, PTL

\* The rate-limit lockout is respected by every lookup.
THEOREM LockoutRespected == ServiceSpec => []NoLookupDuringLockout
<1>1. Inductive => NoLookupDuringLockout
  BY DEF Inductive, GateOK, NoLookupDuringLockout
<1>2. QED
  BY <1>1, InductiveInvariant, PTL

\* Of the service's own steps and those of its other users only the end of a request touches the
\* tracked dedupe map, and only it lets go of a request that has been answered.
LEMMA EntriesLeftAlone ==
    ASSUME WorkerStep \/ SinkStep \/ Clock \/ MatchTraffic \/ ChangeConfig \/ Stop
    PROVE  \/ FinishRequest
           \/ /\ UNCHANGED <<trackedQueuedOrInFlight, nextTrackedGeneration>>
              /\ pc # "finish" \/ UNCHANGED workerVars
<1> USE DEF queueVars, dedupeVars
<1>1. CASE WorkerStep
  <2>1. CASE \/ LoopTop \/ WorkerReturns \/ PopNothing \/ CoalesceYields \/ DrainBatch \/ SendBatch
             \/ (\E confirmed \in BOOLEAN : FetchProfile(confirmed))
             \/ FetchProfileTracker \/ TrackerRejected \/ PushRetry
             \/ TrackerForbidden
    BY <2>1 DEF LoopTop, WorkerReturns, PopNothing, CoalesceYields, DrainBatch, SendBatch,
                FetchProfile, FetchProfileTracker, TrackerRejected, PushRetry, TrackerForbidden,
                Forbidden
  <2>2. CASE \E r \in queue : PopSingle(r)
    BY <2>2 DEF PopSingle
  <2>3. CASE \E answer \in Replies \ {"none"}, limited \in BOOLEAN : BatchReply(answer, limited)
    BY <2>3 DEF BatchReply
  <2>4. CASE \E found \in BOOLEAN : HandleAnswer(found)
    BY <2>4 DEF HandleAnswer, BeginRetry
  <2>5. CASE \E answer \in Answers : CustomReply(answer)
    BY <2>5 DEF CustomReply, Publish, BeginRetry
  <2>6. CASE TrackerFound \/ TrackerGarbled \/ TrackerLimited \/ TrackerTransient
    BY <2>6 DEF TrackerFound, TrackerGarbled, TrackerLimited, TrackerTransient, Publish, BeginRetry
  <2>7. QED
    BY <1>1, <2>1, <2>2, <2>3, <2>4, <2>5, <2>6 DEF WorkerStep
<1>2. CASE SinkStep
  BY <1>2 DEF SinkStep, Announce, Notify
<1>3. CASE Clock \/ ChangeConfig \/ Stop
  BY <1>3 DEF Clock, LockoutEnds, LockoutLapses, TimeComes, BecomesDue, ChangeConfig, Stop
<1>4. CASE MatchTraffic
  BY <1>4 DEF MatchTraffic, Enqueue, EnqueueRoster, EnqueuePostMatch, EnqueuePostMatchRequest
<1>5. QED
  BY <1>1, <1>2, <1>3, <1>4

\* Only three steps touch the tracked dedupe map.
LEMMA TrackedEntryChanges ==
    ASSUME ServiceNext
    PROVE  \/ UNCHANGED trackedQueuedOrInFlight
           \/ FinishRequest
           \/ \E a \in Accounts : EnqueueTrackedRequest(a) \/ CancelTrackedAccount(a)
<1>1. CASE AccountTraffic
  BY <1>1 DEF AccountTraffic, EnqueueTrackedAccount
<1>2. QED
  BY <1>1, EntriesLeftAlone DEF ServiceNext

\* Unless it is canceled or the service stops, a tracked request is answered
\* before its account may be requested again.
THEOREM AnsweredBeforeRelease == ServiceSpec => EventBeforeRelease
<1> DEFINE Step ==
      \A a \in Accounts :
        trackedQueuedOrInFlight[a] # 0 /\ trackedQueuedOrInFlight'[a] = 0 =>
            \/ Answered(a)
            \/ CancelTrackedAccount(a)
            \/ ~running
<1>1. ASSUME Inductive, ServiceNext
      PROVE  Step
  <2> SUFFICES ASSUME NEW a \in Accounts,
                      trackedQueuedOrInFlight[a] # 0, trackedQueuedOrInFlight'[a] = 0,
                      running, ~CancelTrackedAccount(a)
               PROVE  Answered(a)
    OBVIOUS
  <2>0. QueueTypeOK
    BY <1>1 DEF Inductive, ServiceTypeOK
  <2>1. CASE FinishRequest
    <3>1. /\ pc = "finish" /\ IsTracked(current) /\ IsCurrent(current) /\ current.key = a
      BY <2>0, <2>1 DEF FinishRequest, Finish, QueueTypeOK
    <3>2. QED
      BY <1>1, <3>1 DEF Inductive, FinishOK, Answered
  <2>2. ASSUME NEW b \in Accounts, EnqueueTrackedRequest(b)
        PROVE  FALSE
    BY <2>0, <2>2, GenerationAssumption DEF EnqueueTrackedRequest, QueueTypeOK
  <2>3. ASSUME NEW b \in Accounts, CancelTrackedAccount(b)
        PROVE  FALSE
    <3>1. a # b
      BY <2>3
    <3>2. QED
      BY <2>0, <2>3, <3>1 DEF CancelTrackedAccount, CancelTrackedRequest, QueueTypeOK
  <2>4. QED
    BY <1>1, <2>1, <2>2, <2>3, TrackedEntryChanges
<1>2. ASSUME Inductive, [ServiceNext]_vars
      PROVE  [Step]_vars
  BY <1>1, <1>2
<1>3. QED
  BY <1>2, InductiveInvariant, PTL DEF ServiceSpec, EventBeforeRelease

\* What the worker still does for a canceled request has no effect.
THEOREM StaleInert == ServiceSpec => StaleRequestIsInert
<1> DEFINE Step ==
      current # NoRequest /\ ~IsCurrent(current) /\ <<pc, current>>' # <<pc, current>> =>
          UNCHANGED <<queue, dedupeVars>>
<1>1. ASSUME Inductive, ServiceNext
      PROVE  Step
  <2> SUFFICES ASSUME current # NoRequest, ~IsCurrent(current), <<pc, current>>' # <<pc, current>>
               PROVE  UNCHANGED <<queue, dedupeVars>>
    OBVIOUS
  <2> USE DEF queueVars
  <2>1. pc \notin WithoutCurrent /\ IsTracked(current) /\ ~MayRetry(current)
    BY <1>1 DEF Inductive, WorkerShape, IsCurrent, MayRetry
  <2>2. ~(Clock \/ MatchTraffic \/ AccountTraffic \/ ChangeConfig \/ Stop)
    BY DEF Clock, LockoutEnds, TimeComes, MatchTraffic, Enqueue, EnqueuePostMatch, AccountTraffic,
           EnqueueTrackedAccount, CancelTrackedAccount, ChangeConfig, Stop, workerVars
  <2>3. BeginRetry(current) => UNCHANGED <<queue, dedupeVars>>
    BY <2>1 DEF BeginRetry
  <2>4. CASE \/ LoopTop \/ WorkerReturns \/ PopNothing \/ CoalesceYields \/ DrainBatch \/ SendBatch
             \/ (\E r \in queue : PopSingle(r))
             \/ (\E answer \in Replies \ {"none"}, limited \in BOOLEAN : BatchReply(answer, limited))
             \/ \E r \in unannounced : Announce(r)
    BY <2>1, <2>4
       DEF LoopTop, WorkerReturns, PopNothing, CoalesceYields, DrainBatch, SendBatch, PopSingle,
           BatchReply, Announce, WithoutCurrent
  <2>5. CASE \/ (\E found \in BOOLEAN : HandleAnswer(found))
             \/ (\E confirmed \in BOOLEAN : FetchProfile(confirmed))
             \/ (\E answer \in Answers : CustomReply(answer))
             \/ FetchProfileTracker
    BY <2>5 DEF HandleAnswer, FetchProfile, CustomReply, FetchProfileTracker
  <2>6. CASE TrackerFound \/ TrackerGarbled \/ TrackerLimited \/ TrackerTransient \/ TrackerRejected
    BY <2>3, <2>6
       DEF TrackerFound, TrackerGarbled, TrackerLimited, TrackerTransient, TrackerRejected, Publish
  <2>7. CASE TrackerForbidden \/ Notify \/ PushRetry
    BY <2>7 DEF TrackerForbidden, Forbidden, Notify, PushRetry
  <2>8. CASE FinishRequest
    BY <2>1, <2>8 DEF FinishRequest, Finish, IsTracked, dedupeVars
  <2>9. QED
    BY <1>1, <2>2, <2>4, <2>5, <2>6, <2>7, <2>8 DEF ServiceNext, WorkerStep, SinkStep
<1>2. ASSUME Inductive, [ServiceNext]_vars
      PROVE  [Step]_vars
  BY <1>1, <1>2
<1>3. QED
  BY <1>2, InductiveInvariant, PTL DEF ServiceSpec, StaleRequestIsInert

-----------------------------------------------------------------------------
\* Retries only shrink.

Live == queue \cup Held

\* A live request that is a live one of before, with no more retries.
Spends(s) == \E r \in Live : Same(r, s) /\ s.retriesRemaining <= r.retriesRemaining

\* A live request that is none of those of before.
IsNew(s) == \A r \in Live : ~Same(r, s)

LEMMA KeptSpends ==
    ASSUME Live \subseteq Request
    PROVE  \A s \in Live : Spends(s)
<1> SUFFICES ASSUME NEW s \in Live PROVE Spends(s)
  OBVIOUS
<1>1. s.retriesRemaining \in 0..MaxRetries
  BY RequestFields
<1>2. Same(s, s) /\ s.retriesRemaining <= s.retriesRemaining
  BY <1>1, RetriesAssumption DEF Same
<1>3. QED
  BY <1>2 DEF Spends

\* What the worker holds after it lets the current request go, keeps it or tells of another.
LEMMA HeldAfter ==
    ASSUME Inductive, pc \notin WithoutCurrent
    PROVE  /\ NextRequest => Held' = batch
           /\ \A label \in PCs : Goto(label) => Held' \subseteq batch \cup {current}
           /\ \A r, status : Tell(r, status) => Held' \subseteq batch \cup {r}
           /\ batch \subseteq Held
<1>1. ServiceTypeOK /\ WorkerShape
  BY DEF Inductive
<1>2. NextRequest => Held' = batch
  BY <1>1, NextRequestHolds
<1>3. QED
  BY <1>2 DEF Goto, Tell, Held

LEMMA BeginRetrySpends ==
    ASSUME Inductive, pc \in Processing, BeginRetry(current) \/ Terminate(current, "Success")
                                         \/ Terminate(current, "ApiSuccess")
                                         \/ Terminate(current, "Failed"),
           BeginRetry(current) \/ UNCHANGED queue
    PROVE  \A s \in Live' :
              s \in Live \/ (current \in Live /\ MayRetry(current) /\ s = Retried(current))
<1>1. /\ pc \notin WithoutCurrent /\ current \in Held /\ "finish" \in PCs
      /\ batch \cup {current} \subseteq Held
  BY AtProcessing DEF Inductive, PCs
<1>2. \A status : Terminate(current, status) => Held' \subseteq Held
  BY <1>1, HeldAfter DEF Terminate
<1>3. CASE BeginRetry(current) /\ running /\ MayRetry(current)
  <2>1. CASE IsTracked(current)
    <3>1. Tell(Retried(current), "Retrying") /\ UNCHANGED queue
      BY <1>3, <2>1 DEF BeginRetry
    <3>2. QED
      BY <1>1, <1>3, <3>1, HeldAfter DEF Live
  <2>2. CASE ~IsTracked(current)
    <3>1. NextRequest /\ queue' = queue \cup {Retried(current)}
      BY <1>3, <2>2 DEF BeginRetry
    <3>2. QED
      BY <1>1, <1>3, <3>1, HeldAfter DEF Live
  <2>3. QED
    BY <2>1, <2>2
<1>4. CASE ~(BeginRetry(current) /\ running /\ MayRetry(current))
  <2>1. UNCHANGED queue /\ \E status : Terminate(current, status)
    BY <1>4 DEF BeginRetry
  <2>2. QED
    BY <1>2, <2>1 DEF Live
<1>5. QED
  BY <1>3, <1>4

\* The worker's own steps: a live request stays what it was, is retried, or is put back after a
\* 403 as it was.
LEMMA WorkerSpends ==
    ASSUME Inductive, WorkerStep \/ SinkStep
    PROVE  \A s \in Live' :
              \/ s \in Live
              \/ current \in Live /\ MayRetry(current) /\ s = Retried(current)
              \/ current \in Live /\ s = [current EXCEPT !.due = FALSE]
<1>0. /\ ServiceTypeOK /\ WorkerShape /\ queue \subseteq Request /\ batch \subseteq Request
  BY DEF Inductive, ServiceTypeOK, QueueTypeOK, WorkerTypeOK
<1>1. CASE \/ LoopTop \/ WorkerReturns \/ PopNothing \/ FetchProfileTracker
           \/ (\E confirmed \in BOOLEAN : FetchProfile(confirmed))
           \/ \E r \in unannounced : Announce(r)
  <2>1. pc # "notify" /\ UNCHANGED queue
    BY <1>1 DEF LoopTop, WorkerReturns, PopNothing, FetchProfileTracker, FetchProfile, Announce,
                queueVars
  <2>2. notice = "none" \/ pc = "finish"
    BY <1>0, <2>1 DEF WorkerShape
  <2>3. Held' \subseteq Held
    BY <1>0, <1>1, <2>2
       DEF LoopTop, WorkerReturns, PopNothing, FetchProfileTracker, FetchProfile, Announce, Goto,
           Terminate, Tell, Held
  <2>4. QED
    BY <2>1, <2>3 DEF Live
<1>2. CASE \/ CoalesceYields \/ DrainBatch \/ SendBatch \/ (\E r \in queue : PopSingle(r))
           \/ \E answer \in Replies \ {"none"}, limited \in BOOLEAN : BatchReply(answer, limited)
  <2>1. current = NoRequest /\ notice = "none" /\ Held = batch
    BY <1>0, <1>2
       DEF CoalesceYields, DrainBatch, SendBatch, PopSingle, BatchReply, WorkerShape, WithoutCurrent,
           Held
  <2>2. ASSUME NEW S \in SUBSET Request, TakeNext(S)
        PROVE  Held' \subseteq S
    BY <2>2, NoRequestAssumption DEF TakeNext, Idle, Held
  <2>3. Idle => Held' = {}
    BY DEF Idle, Held
  <2>4. CASE CoalesceYields \/ SendBatch
    BY <2>1, <2>3, <2>4 DEF CoalesceYields, SendBatch, Live, queueVars, Held
  <2>5. CASE DrainBatch
    <3>1. PICK S \in DrainChoices(lane) :
              queue' = queue \ S /\ (Idle \/ (batch' = S /\ UNCHANGED <<current, notice>>))
      BY <2>5 DEF DrainBatch
    <3>2. S \subseteq queue
      BY <3>1 DEF DrainChoices, Ready
    <3>3. QED
      BY <2>1, <2>3, <3>1, <3>2 DEF Live, Held
  <2>6. CASE \E r \in queue : PopSingle(r)
    BY <2>1, <2>6 DEF PopSingle, Tell, Live, Held
  <2>7. CASE \E answer \in Replies \ {"none"}, limited \in BOOLEAN : BatchReply(answer, limited)
    <3>1. TakeNext({r \in batch : IsCurrent(r)}) /\ UNCHANGED queue
      BY <2>7 DEF BatchReply
    <3>2. Held' \subseteq batch
      BY <1>0, <2>2, <3>1
    <3>3. QED
      BY <2>1, <3>1, <3>2 DEF Live
  <2>8. QED
    BY <1>2, <2>4, <2>5, <2>6, <2>7
<1>3. CASE \/ (\E found \in BOOLEAN : HandleAnswer(found))
           \/ (\E answer \in Answers : CustomReply(answer))
           \/ TrackerFound \/ TrackerGarbled \/ TrackerLimited \/ TrackerTransient
           \/ TrackerRejected
  <2>1. /\ pc \in Processing
        /\ \/ (\E label \in {"finish", "tracker"} : Goto(label)) /\ UNCHANGED queue
           \/ /\ BeginRetry(current) \/ Terminate(current, "Success")
                 \/ Terminate(current, "ApiSuccess") \/ Terminate(current, "Failed")
              /\ BeginRetry(current) \/ UNCHANGED queue
           \/ Tell(current, "Failed") /\ UNCHANGED queue
    BY <1>3 DEF HandleAnswer, CustomReply, TrackerFound, TrackerGarbled, TrackerLimited,
                TrackerTransient, TrackerRejected, Publish, Processing, queueVars
  <2>2. /\ pc \notin WithoutCurrent /\ {"finish", "tracker"} \subseteq PCs
        /\ batch \cup {current} \subseteq Held
    BY <1>0, <2>1, AtProcessing DEF PCs
  <2>3. CASE \/ (\E label \in {"finish", "tracker"} : Goto(label)) /\ UNCHANGED queue
             \/ Tell(current, "Failed") /\ UNCHANGED queue
    <3>1. Held' \subseteq batch \cup {current}
      BY <2>2, <2>3, HeldAfter
    <3>2. QED
      BY <2>2, <2>3, <3>1 DEF Live
  <2>4. QED
    BY <2>1, <2>3, BeginRetrySpends
<1>4. CASE TrackerForbidden
  <2>1. /\ pc \in Processing /\ "finish" \in PCs
        /\ queue' \subseteq queue \cup {[current EXCEPT !.due = FALSE]}
        /\ (\E label \in {"finish"} : Goto(label)) \/ Tell(current, "Requeued") \/ NextRequest
    BY <1>4 DEF TrackerForbidden, Forbidden, Processing, PCs, queueVars
  <2>2. pc \notin WithoutCurrent /\ batch \cup {current} \subseteq Held
    BY <1>0, <2>1, AtProcessing
  <2>3. Held' \subseteq batch \cup {current}
    BY <2>1, <2>2, HeldAfter
  <2>4. QED
    BY <1>4, <2>1, <2>2, <2>3 DEF Live
<1>5. CASE Notify \/ PushRetry \/ FinishRequest
  <2>1. pc \notin WithoutCurrent
    BY <1>5 DEF Notify, PushRetry, FinishRequest, WithoutCurrent
  <2>2. /\ queue' \subseteq queue \cup Held
        /\ Held' \subseteq Held
    <3>1. CASE Notify
      <4>1. CASE notice = "Requeued"
        BY <2>1, <3>1, <4>1, HeldAfter DEF Notify, queueVars
      <4>2. CASE notice # "Requeued"
        BY <3>1, <4>2 DEF Notify, Goto, Held, queueVars
      <4>3. QED
        BY <4>1, <4>2
    <3>2. CASE PushRetry \/ FinishRequest
      <4>1. pc \in Processing \cup {"fetch", "push", "finish"} /\ "finish" \in PCs
        BY <3>2 DEF PushRetry, FinishRequest, PCs
      <4>2. current \in Held /\ batch \subseteq Held
        BY <1>0, <4>1, AtProcessing
      <4>3. /\ queue' \subseteq queue \cup {current}
            /\ NextRequest \/ \E label \in {"finish"} : Goto(label)
        BY <3>2 DEF PushRetry, FinishRequest, Finish
      <4>4. QED
        BY <2>1, <4>1, <4>2, <4>3, HeldAfter
    <3>3. QED
      BY <1>5, <3>1, <3>2
  <2>3. QED
    BY <2>2 DEF Live
<1>6. QED
  BY <1>1, <1>2, <1>3, <1>4, <1>5 DEF WorkerStep, SinkStep

\* A request that is made anew is none of the live ones: its player or match has no entry, or its
\* generation was never given out.
LEMMA UsersSpend ==
    ASSUME Inductive, Clock \/ MatchTraffic \/ AccountTraffic \/ ChangeConfig \/ Stop
    PROVE  \A s \in Live' : Spends(s) \/ IsNew(s)
<1>0. /\ LiveOK /\ queue \subseteq Request /\ Held \subseteq Request /\ Live \subseteq Request
      /\ nextTrackedGeneration \in Nat
  BY HeldTyped, GenerationAssumption DEF Inductive, ServiceTypeOK, QueueTypeOK, Live
<1>1. UNCHANGED workerVars
  BY DEF Clock, LockoutEnds, TimeComes, MatchTraffic, Enqueue, EnqueuePostMatch, AccountTraffic,
         EnqueueTrackedAccount, CancelTrackedAccount, ChangeConfig, Stop
<1>2. Held' = Held
  BY <1>1 DEF workerVars, Held
<1>3. \A s \in Live : Spends(s)
  BY <1>0, KeptSpends
<1>4. CASE LockoutEnds \/ ChangeConfig \/ Stop \/ \E a \in Accounts : CancelTrackedAccount(a)
  <2>1. queue' \subseteq queue
    BY <1>4 DEF LockoutEnds, LockoutLapses, ChangeConfig, Stop, CancelTrackedAccount,
                CancelTrackedRequest, queueVars
  <2>2. QED
    BY <1>2, <1>3, <2>1 DEF Live
<1>5. ASSUME NEW r \in queue, TimeComes(r)
      PROVE  \A s \in Live' : Spends(s)
  <2>1. queue' \subseteq queue \cup {[r EXCEPT !.due = TRUE]} /\ r \in Live /\ r \in Request
    BY <1>0, <1>5 DEF TimeComes, BecomesDue, Live
  <2>2. /\ Same([r EXCEPT !.due = TRUE], r)
        /\ [r EXCEPT !.due = TRUE].retriesRemaining <= r.retriesRemaining
    <3>1. /\ Same([r EXCEPT !.due = TRUE], r)
          /\ [r EXCEPT !.due = TRUE].retriesRemaining = r.retriesRemaining
      BY <2>1, Relabeled
    <3>2. r.retriesRemaining \in 0..MaxRetries
      BY <2>1, RequestFields
    <3>3. QED
      BY <3>1, <3>2, RetriesAssumption
  <2>3. Spends([r EXCEPT !.due = TRUE])
    BY <2>1, <2>2, SameEntry DEF Spends
  <2>4. QED
    BY <1>2, <1>3, <2>1, <2>3 DEF Live
<1>6. ASSUME NEW p \in Players, Enqueue(p)
      PROVE  \A s \in Live' : Spends(s) \/ IsNew(s)
  <2>1. /\ p \notin rosterQueuedOrInFlight
        /\ queue' = queue \cup {NewRequest("Roster", p, 0, TRUE)}
    BY <1>6 DEF Enqueue, EnqueueRoster
  <2>2. \A r \in Live : r.reason = "Roster" => OwnsEntry(r)
    BY <1>0 DEF LiveOK, EntriesHeld, Live, IsTracked
  <2>3. IsNew(NewRequest("Roster", p, 0, TRUE))
    BY <2>1, <2>2 DEF IsNew, Same, NewRequest, OwnsEntry, IsTracked
  <2>4. QED
    BY <1>2, <1>3, <2>1, <2>3 DEF Live
<1>7. ASSUME NEW g \in Guids, EnqueuePostMatch(g)
      PROVE  \A s \in Live' : Spends(s) \/ IsNew(s)
  <2>1. /\ g \notin pendingPostMatchGuids
        /\ queue' = queue \cup {NewRequest("PostMatch", g, 0, FALSE)}
    BY <1>7 DEF EnqueuePostMatch, EnqueuePostMatchRequest
  <2>2. \A r \in Live : r.reason = "PostMatch" => OwnsEntry(r)
    BY <1>0 DEF LiveOK, EntriesHeld, Live, IsTracked
  <2>3. IsNew(NewRequest("PostMatch", g, 0, FALSE))
    BY <2>1, <2>2 DEF IsNew, Same, NewRequest, OwnsEntry, IsTracked
  <2>4. QED
    BY <1>2, <1>3, <2>1, <2>3 DEF Live
<1>8. ASSUME NEW a \in Accounts, EnqueueTrackedAccount(a)
      PROVE  \A s \in Live' : Spends(s) \/ IsNew(s)
  <2> DEFINE made == NewRequest("TrackedAccount", a, nextTrackedGeneration + 1, TRUE)
  <2>1. queue' = queue \cup {made}
    BY <1>8 DEF EnqueueTrackedAccount, EnqueueTrackedRequest
  <2>2. \A r \in Live : r.generation <= nextTrackedGeneration /\ r.generation \in Nat
    BY <1>0, RequestFields, GenerationAssumption DEF LiveOK, Numbered, Live
  <2>3. made.generation = nextTrackedGeneration + 1
    BY DEF NewRequest
  <2> HIDE DEF made
  <2>4. IsNew(made)
    BY <1>0, <2>2, <2>3 DEF IsNew, Same
  <2>5. QED
    BY <1>2, <1>3, <2>1, <2>4 DEF Live
<1>9. QED
  BY <1>3, <1>4, <1>5, <1>6, <1>7, <1>8 DEF Clock, MatchTraffic, AccountTraffic

\* No generation, match or roster lookup ever gets retries back, not even from a 403.
THEOREM RetriesShrink == ServiceSpec => RetryBudgetOnlyShrinks
<1> DEFINE Step ==
      \A r \in queue \cup Held : \A s \in (queue \cup Held)' :
         Same(r, s) => s.retriesRemaining <= r.retriesRemaining
<1>1. ASSUME Inductive, ServiceNext
      PROVE  \A s \in Live' : Spends(s) \/ IsNew(s)
  <2>0. Live \subseteq Request
    BY <1>1, HeldTyped DEF Inductive, ServiceTypeOK, QueueTypeOK, Live
  <2>1. CASE WorkerStep \/ SinkStep
    <3> SUFFICES ASSUME NEW s \in Live', s \notin Live PROVE Spends(s)
      BY <2>0, KeptSpends
    <3>1. /\ current \in Live
          /\ \/ MayRetry(current) /\ s = Retried(current)
             \/ s = [current EXCEPT !.due = FALSE]
      BY <1>1, <2>1, WorkerSpends
    <3>2. current \in Request /\ current.retriesRemaining \in 0..MaxRetries
      BY <2>0, <3>1, RequestFields
    <3>3. Same(s, current) /\ s.retriesRemaining <= current.retriesRemaining
      <4>1. CASE MayRetry(current) /\ s = Retried(current)
        BY <3>2, <4>1, Relabeled
      <4>2. CASE s = [current EXCEPT !.due = FALSE]
        <5>1. Same(s, current) /\ s.retriesRemaining = current.retriesRemaining
          BY <3>2, <4>2, Relabeled
        <5>2. QED
          BY <3>2, <5>1, RetriesAssumption
      <4>3. QED
        BY <3>1, <4>1, <4>2
    <3>4. QED
      BY <3>1, <3>3, SameEntry DEF Spends
  <2>2. QED
    BY <1>1, <2>1, UsersSpend DEF ServiceNext
<1>2. ASSUME Inductive, ServiceNext
      PROVE  Step
  <2> SUFFICES ASSUME NEW r \in Live, NEW s \in Live', Same(r, s)
               PROVE  s.retriesRemaining <= r.retriesRemaining
    BY DEF Live
  <2>1. PICK t \in Live : Same(t, s) /\ s.retriesRemaining <= t.retriesRemaining
    BY <1>1, <1>2 DEF IsNew, Spends
  <2>2. Same(t, r)
    BY <2>1 DEF Same
  <2>3. t = r
    BY <1>2, <2>1, <2>2 DEF Inductive, LiveOK, Distinct, Live
  <2>4. QED
    BY <2>1, <2>3
<1>3. ASSUME Inductive, [ServiceNext]_vars
      PROVE  [Step]_vars
  BY <1>2, <1>3
<1>4. QED
  BY <1>3, InductiveInvariant, PTL DEF ServiceSpec, RetryBudgetOnlyShrinks
=============================================================================
