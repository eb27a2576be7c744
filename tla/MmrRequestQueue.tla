--------------------------- MODULE MmrRequestQueue ---------------------------
(***************************************************************************)
(* The request queue of the rank service (network/mmr/MmrRequestQueue.cpp). *)
(* One mutex guards every field and every method takes it once, so a method *)
(* is one step.  The two exceptions, ScheduleRetry and RequeueForbidden,    *)
(* release the mutex to run the retry callback and are split there.         *)
(*                                                                         *)
(* A request is a record of what the queue's control depends on: its        *)
(* purpose, what it is about, the generation of a tracked request, the      *)
(* retries it has left, and whether its notBefore time has come.  The deque *)
(* is a set, because any due request of the chosen purpose may come next:   *)
(* this allows every order the code's notBefore order can produce.          *)
(***************************************************************************)
EXTENDS Naturals, FiniteSets

CONSTANTS Players,        \* primary ids seen in a match roster
          Accounts,       \* primary ids the account manager may track
          Guids,          \* competitive matches with a post-match request
          MaxRetries,     \* MMRRequest::retriesRemaining of a fresh request
          MaxGeneration,  \* bound: tracked requests created in one run
          MaxBatch        \* kMaxCustomApiBatchSize

ASSUME RetriesAssumption == MaxRetries \in Nat
ASSUME GenerationAssumption == MaxGeneration \in Nat
ASSUME BatchAssumption == MaxBatch \in Nat \ {0}

VARIABLES queue,                    \* m_queue
          rosterQueuedOrInFlight,   \* m_rosterQueuedOrInFlight
          trackedQueuedOrInFlight,  \* m_trackedQueuedOrInFlight; 0 = no entry
          nextTrackedGeneration,    \* m_nextTrackedGeneration
          pendingPostMatchGuids,    \* m_pendingPostMatchGuids
          rateLimit                 \* m_rateLimitedUntil against the clock

dedupeVars == <<rosterQueuedOrInFlight, trackedQueuedOrInFlight,
                nextTrackedGeneration, pendingPostMatchGuids>>
queueVars == <<queue, dedupeVars, rateLimit>>

Reasons == {"Roster", "PostMatch", "TrackedAccount"}

\* The requests made for a purpose; what a request is about depends on it.
RequestsFor(reason, keys, generations) ==
    [reason : {reason},
     key : keys,
     generation : generations,
     retriesRemaining : 0..MaxRetries,
     due : BOOLEAN]

Request ==
    RequestsFor("Roster", Players, {0})
    \cup RequestsFor("PostMatch", Guids, {0})
    \cup RequestsFor("TrackedAccount", Accounts, 1..MaxGeneration)

(***************************************************************************)
(* m_rateLimitedUntil compared with a time read by the caller: "closed" is  *)
(* later than the present, "lapsed" is past but later than the time the     *)
(* worker read when its last batch reply came, "open" is earlier than both. *)
(***************************************************************************)
RateLimits == {"open", "closed", "lapsed"}

IsRateLimited == rateLimit = "closed"
\* Mutant: the fallbacks of a batch do not look at the lockout again.
NeverLimitedForBatch == FALSE

IsRateLimitedForBatch == rateLimit # "open"

-----------------------------------------------------------------------------
QueueTypeOK ==
    /\ queue \subseteq Request
    /\ rosterQueuedOrInFlight \subseteq Players
    /\ trackedQueuedOrInFlight \in [Accounts -> 0..MaxGeneration]
    /\ nextTrackedGeneration \in 0..MaxGeneration
    /\ pendingPostMatchGuids \subseteq Guids
    /\ rateLimit \in RateLimits

QueueInit ==
    /\ queue = {}
    /\ rosterQueuedOrInFlight = {}
    /\ trackedQueuedOrInFlight = [a \in Accounts |-> 0]
    /\ nextTrackedGeneration = 0
    /\ pendingPostMatchGuids = {}
    /\ rateLimit = "open"

-----------------------------------------------------------------------------
NewRequest(reason, key, generation, due) ==
    [reason |-> reason, key |-> key, generation |-> generation,
     retriesRemaining |-> MaxRetries, due |-> due]

IsTracked(r) == r.reason = "TrackedAccount"

\* Only a tracked request can lose its place: its generation must still be
\* the one the dedupe map holds for the account.
IsCurrent(r) == IsTracked(r) => trackedQueuedOrInFlight[r.key] = r.generation

HasReady(reason) == \E r \in queue : r.reason = reason /\ r.due

Ready(reason) == {r \in queue : r.reason = reason /\ r.due}

EnqueueRoster(p) ==
    /\ p \notin rosterQueuedOrInFlight
    /\ rosterQueuedOrInFlight' = rosterQueuedOrInFlight \cup {p}
    /\ queue' = queue \cup {NewRequest("Roster", p, 0, TRUE)}
    /\ UNCHANGED <<trackedQueuedOrInFlight, nextTrackedGeneration,
                   pendingPostMatchGuids, rateLimit>>

\* A post-match request waits postMatchInitialDelay before it is due.
EnqueuePostMatchRequest(g) ==
    /\ g \notin pendingPostMatchGuids
    /\ pendingPostMatchGuids' = pendingPostMatchGuids \cup {g}
    /\ queue' = queue \cup {NewRequest("PostMatch", g, 0, FALSE)}
    /\ UNCHANGED <<rosterQueuedOrInFlight, trackedQueuedOrInFlight,
                   nextTrackedGeneration, rateLimit>>

\* The Queued outcome of EnqueueTrackedAccount; AlreadyQueued changes nothing.
EnqueueTrackedRequest(a) ==
    /\ trackedQueuedOrInFlight[a] = 0
    /\ nextTrackedGeneration < MaxGeneration
    /\ nextTrackedGeneration' = nextTrackedGeneration + 1
    /\ trackedQueuedOrInFlight' =
           [trackedQueuedOrInFlight EXCEPT ![a] = nextTrackedGeneration + 1]
    /\ queue' = queue \cup
           {NewRequest("TrackedAccount", a, nextTrackedGeneration + 1, TRUE)}
    /\ UNCHANGED <<rosterQueuedOrInFlight, pendingPostMatchGuids, rateLimit>>

CancelTrackedRequest(a) ==
    /\ queue' = {r \in queue : ~(IsTracked(r) /\ r.key = a)}
    /\ trackedQueuedOrInFlight' = [trackedQueuedOrInFlight EXCEPT ![a] = 0]
    /\ UNCHANGED <<rosterQueuedOrInFlight, nextTrackedGeneration,
                   pendingPostMatchGuids, rateLimit>>

-----------------------------------------------------------------------------
\* What the worker does with a request it holds.

\* Mutant: PopNext forgets tracked requests.
NextSingleOfMatches ==
    IF HasReady("PostMatch") THEN Ready("PostMatch") ELSE Ready("Roster")

\* DispatchSingle's choice: PopNextPostMatch, then PopNext, which looks at
\* roster requests before tracked ones.
NextSingle ==
    IF HasReady("PostMatch") THEN Ready("PostMatch")
    ELSE IF HasReady("Roster") THEN Ready("Roster")
    ELSE Ready("TrackedAccount")

\* The request sets DrainBatch may return: due requests of the purpose and of
\* one playlist, cut at MaxBatch.  Which requests share a playlist is left open.
DrainChoices(reason) ==
    {S \in SUBSET Ready(reason) :
        /\ Cardinality(S) <= MaxBatch
        /\ S = {} => Ready(reason) = {}}

\* Mutant: retries are not bounded.
MayAlwaysRetry(r) == IsCurrent(r)

\* ScheduleRetry up to the callback: the request it will push, if it goes on.
MayRetry(r) == r.retriesRemaining > 0 /\ IsCurrent(r)

\* Mutant: a retry costs nothing.
RetriedForFree(r) == [r EXCEPT !.due = FALSE]

Retried(r) == [r EXCEPT !.retriesRemaining = @ - 1, !.due = FALSE]

\* Mutant: a 403 gives the request its retries back.
ForbiddenRestartsRetries(r) ==
    /\ rateLimit' = "closed"
    /\ queue' = IF IsCurrent(r)
                THEN queue \cup {[r EXCEPT !.due = FALSE, !.retriesRemaining = MaxRetries]}
                ELSE queue
    /\ UNCHANGED dedupeVars

\* RequeueForbidden: the lockout applies whatever became of the request, and
\* only a request that is still current goes back to the queue, its retries
\* untouched.  (m_forbiddenStrikeCount is left out: it only picks the
\* lockout's length, and time has no length here.)
Forbidden(r) ==
    /\ rateLimit' = "closed"
    /\ queue' = IF IsCurrent(r)
                THEN queue \cup {[r EXCEPT !.due = FALSE]}
                ELSE queue
    /\ UNCHANGED dedupeVars

ResetForbidden == rateLimit' = "open"

\* Mutant: an old generation releases the entry of a new one.
FinishAnyGeneration(r) ==
    /\ pendingPostMatchGuids' = IF r.reason = "PostMatch"
                                THEN pendingPostMatchGuids \ {r.key}
                                ELSE pendingPostMatchGuids
    /\ trackedQueuedOrInFlight' =
           IF IsTracked(r)
           THEN [trackedQueuedOrInFlight EXCEPT ![r.key] = 0]
           ELSE trackedQueuedOrInFlight
    /\ rosterQueuedOrInFlight' = IF r.reason = "Roster"
                                 THEN rosterQueuedOrInFlight \ {r.key}
                                 ELSE rosterQueuedOrInFlight
    /\ UNCHANGED <<queue, nextTrackedGeneration, rateLimit>>

\* Finish releases a tracked entry only for the generation that holds it.
Finish(r) ==
    /\ pendingPostMatchGuids' = IF r.reason = "PostMatch"
                                THEN pendingPostMatchGuids \ {r.key}
                                ELSE pendingPostMatchGuids
    /\ trackedQueuedOrInFlight' =
           IF IsTracked(r) /\ IsCurrent(r)
           THEN [trackedQueuedOrInFlight EXCEPT ![r.key] = 0]
           ELSE trackedQueuedOrInFlight
    /\ rosterQueuedOrInFlight' = IF r.reason = "Roster"
                                 THEN rosterQueuedOrInFlight \ {r.key}
                                 ELSE rosterQueuedOrInFlight
    /\ UNCHANGED <<queue, nextTrackedGeneration, rateLimit>>

-----------------------------------------------------------------------------
\* The clock.

BecomesDue(r) ==
    /\ r \in queue
    /\ ~r.due
    /\ queue' = (queue \ {r}) \cup {[r EXCEPT !.due = TRUE]}
    /\ UNCHANGED <<dedupeVars, rateLimit>>

\* The lockout passes.  A batch that is being processed keeps comparing it
\* with the time it read when its reply came.
LockoutLapses(batchNowHeld) ==
    /\ rateLimit = "closed"
    /\ rateLimit' = IF batchNowHeld THEN "lapsed" ELSE "open"
    /\ UNCHANGED <<queue, dedupeVars>>
=============================================================================
