----------------------------- MODULE MmrService -----------------------------
(***************************************************************************)
(* The rank service (network/mmr/MmrService.cpp): one worker thread that    *)
(* takes requests from the queue, asks the OmniStats rank API or Tracker,   *)
(* and retries, parks or finishes each request, while the UI, the effect    *)
(* router and the account manager enqueue and cancel requests and the user  *)
(* changes the rank sources.                                                *)
(*                                                                         *)
(* A worker step runs from one point where another thread can be noticed to *)
(* the next: a network call, a callback to the sink, a queue operation.     *)
(* Whether a post-match lookup confirms a match is decided by the           *)
(* reconciler, which is not part of this module: either answer is allowed.  *)
(***************************************************************************)
EXTENDS MmrRequestQueue

CONSTANT NoRequest      \* the worker holds no single request

ASSUME NoRequestAssumption == NoRequest \notin Request

VARIABLES pc,           \* where the worker thread is
          lane,         \* DispatchBatch's reason
          batch,        \* batch requests not yet processed
          unannounced,  \* batch requests not yet reported as Fetching
          current,      \* the request being processed
          reply,        \* what FetchBatch answered
          tracking,     \* the enable_mmr_tracking value last read
          notice,       \* the event being handed to the tracked-account sink
          running,      \* m_isRunning
          config,       \* the rank sources the user has enabled
          records       \* matches the reconciler has a record of

workerVars == <<pc, lane, batch, unannounced, current, reply, tracking, notice>>
vars == <<queueVars, workerVars, running, config, records>>

PCs == {"loop", "single", "coalesce", "announce", "batchCall", "answered",
        "fetch", "customCall", "tracker", "trackerCall", "notify", "push",
        "finish", "stopped"}
Replies == {"none", "players", "refused", "transient"}
\* A profile from the rank API ("ApiSuccess") may carry season rewards, one
\* from Tracker ("Success") does not.  Either may hold nothing the account can
\* show (NoRankedData); every other terminal status is "Failed".
Terminal == {"ApiSuccess", "Success", "Failed"}
Notices == {"none", "Fetching", "Retrying", "Requeued"} \cup Terminal

\* custom_api_enabled with a signed-in account, and enable_mmr_tracking.
Config == [api : BOOLEAN, tracker : BOOLEAN]

ProviderAvailable == config.api \/ config.tracker

WorkerTypeOK ==
    /\ pc \in PCs
    /\ lane \in Reasons
    /\ batch \subseteq Request
    /\ unannounced \subseteq batch
    /\ current \in Request \cup {NoRequest}
    /\ reply \in Replies
    /\ tracking \in BOOLEAN
    /\ notice \in Notices

ServiceTypeOK ==
    /\ QueueTypeOK
    /\ WorkerTypeOK
    /\ running \in BOOLEAN
    /\ config \in Config
    /\ records \subseteq Guids

ServiceInit ==
    /\ QueueInit
    /\ pc = "loop"
    /\ lane = "Roster"
    /\ batch = {}
    /\ unannounced = {}
    /\ current = NoRequest
    /\ reply = "none"
    /\ tracking = FALSE
    /\ notice = "none"
    /\ running = TRUE
    /\ config \in Config
    /\ records = {}

-----------------------------------------------------------------------------
\* The threads that use the service.

\* A roster player whose ranks the cached local profile does not satisfy.
Enqueue(p) ==
    /\ ProviderAvailable
    /\ EnqueueRoster(p)
    /\ UNCHANGED <<workerVars, running, config, records>>

\* EnqueuePostMatch and EnqueuePendingDestroyedMatch: once per match.
EnqueuePostMatch(g) ==
    /\ g \notin records
    /\ records' = records \cup {g}
    /\ EnqueuePostMatchRequest(g)
    /\ UNCHANGED <<workerVars, running, config>>

EnqueueTrackedAccount(a) ==
    /\ ProviderAvailable
    /\ EnqueueTrackedRequest(a)
    /\ UNCHANGED <<workerVars, running, config, records>>

CancelTrackedAccount(a) ==
    /\ CancelTrackedRequest(a)
    /\ UNCHANGED <<workerVars, running, config, records>>

ChangeConfig ==
    /\ config' \in Config
    /\ UNCHANGED <<queueVars, workerVars, running, records>>

\* Stop clears m_isRunning and then waits for the worker to return.
Stop ==
    /\ running
    /\ running' = FALSE
    /\ UNCHANGED <<queueVars, workerVars, config, records>>

-----------------------------------------------------------------------------
\* The worker's control.

Idle ==
    /\ pc' = "loop"
    /\ batch' = {}
    /\ unannounced' = {}
    /\ current' = NoRequest
    /\ reply' = "none"
    /\ tracking' = FALSE
    /\ lane' = "Roster"
    /\ notice' = "none"

\* The next of the answered requests, or back to the top of WorkerLoop.
TakeNext(answered) ==
    IF answered = {}
    THEN Idle
    ELSE /\ \E r \in answered : current' = r /\ batch' = answered \ {r}
         /\ pc' = "answered"
         /\ notice' = "none"

\* The worker lets go of the current request.
NextRequest ==
    /\ TakeNext(batch)
    /\ batch # {} => UNCHANGED <<lane, unannounced, reply, tracking>>

Goto(label) ==
    /\ pc' = label
    /\ notice' = "none"
    /\ UNCHANGED <<lane, batch, unannounced, current, reply, tracking>>

\* NotifyTracked is called for r, which becomes (or stays) the current request.
Tell(r, status) ==
    /\ pc' = "notify"
    /\ notice' = status
    /\ current' = r
    /\ UNCHANGED <<lane, batch, unannounced, reply, tracking>>

\* A request that will not be looked up again: tracked requests get their
\* terminal event, then every request is finished.
Terminate(r, status) ==
    IF IsTracked(r) THEN Tell(r, status) ELSE Goto("finish")

\* Mutant: a request put back for a retry is finished too.
BeginRetryAndFinish(r) ==
    IF running /\ MayRetry(r)
    THEN IF IsTracked(r)
         THEN /\ Tell(Retried(r), "Retrying")
              /\ UNCHANGED <<queue, dedupeVars>>
         ELSE /\ queue' = queue \cup {Retried(r)}
              /\ Goto("finish")
              /\ UNCHANGED dedupeVars
    ELSE /\ Terminate(r, "Failed")
         /\ UNCHANGED <<queue, dedupeVars>>

\* ScheduleRetry, up to its callback for a tracked request and whole for the
\* others; when it declines, the request fails.
BeginRetry(r) ==
    IF running /\ MayRetry(r)
    THEN IF IsTracked(r)
         THEN /\ Tell(Retried(r), "Retrying")
              /\ UNCHANGED <<queue, dedupeVars>>
         ELSE /\ queue' = queue \cup {Retried(r)}
              /\ NextRequest
              /\ UNCHANGED dedupeVars
    ELSE /\ Terminate(r, "Failed")
         /\ UNCHANGED <<queue, dedupeVars>>

others == <<running, config, records>>
-----------------------------------------------------------------------------
\* WorkerLoop and the two dispatchers.

LoopTop ==
    /\ pc = "loop"
    /\ running
    /\ ProviderAvailable
    /\ ~IsRateLimited
    /\ queue # {}
    /\ IF config.api /\ ~HasReady("PostMatch") /\ (HasReady("Roster") \/ HasReady("TrackedAccount"))
       THEN /\ pc' = "coalesce"
            /\ lane' = IF HasReady("Roster") THEN "Roster" ELSE "TrackedAccount"
       ELSE pc' = "single" /\ UNCHANGED lane
    /\ UNCHANGED <<queueVars, batch, unannounced, current, reply, tracking, notice, others>>

WorkerReturns ==
    /\ pc = "loop"
    /\ ~running
    /\ Goto("stopped")
    /\ UNCHANGED <<queueVars, others>>

\* DispatchSingle takes one request; a tracked one is reported as Fetching.
PopSingle(r) ==
    /\ pc = "single"
    /\ r \in NextSingle
    /\ queue' = queue \ {r}
    /\ IF IsTracked(r)
       THEN Tell(r, "Fetching")
       ELSE /\ pc' = "fetch"
            /\ current' = r
            /\ UNCHANGED <<lane, batch, unannounced, reply, tracking, notice>>
    /\ UNCHANGED <<dedupeVars, rateLimit, others>>

PopNothing ==
    /\ pc = "single"
    /\ NextSingle = {}
    /\ Goto("loop")
    /\ UNCHANGED <<queueVars, others>>

HigherPriorityReady ==
    \/ HasReady("PostMatch")
    \/ lane = "TrackedAccount" /\ HasReady("Roster")

\* Mutant: the coalescing wait does not notice Stop.
CoalesceIgnoresStop ==
    /\ pc = "coalesce"
    /\ HigherPriorityReady
    /\ Idle
    /\ UNCHANGED <<queueVars, others>>

\* DispatchBatch returns without draining.
CoalesceYields ==
    /\ pc = "coalesce"
    /\ ~running \/ HigherPriorityReady
    /\ Idle
    /\ UNCHANGED <<queueVars, others>>

\* The coalescing window ends or the batch is full.
DrainBatch ==
    /\ pc = "coalesce"
    /\ running
    /\ ~HigherPriorityReady
    /\ \E S \in DrainChoices(lane) :
         /\ queue' = queue \ S
         /\ IF S = {}
            THEN Idle
            ELSE /\ pc' = "announce"
                 /\ batch' = S
                 /\ unannounced' = {r \in S : IsTracked(r)}
                 /\ UNCHANGED <<lane, reply, tracking, current, notice>>
    /\ UNCHANGED <<dedupeVars, rateLimit, others>>

\* One Fetching event of a drained batch.
Announce(r) ==
    /\ pc = "announce"
    /\ r \in unannounced
    /\ unannounced' = unannounced \ {r}
    /\ UNCHANGED <<queueVars, pc, lane, batch, current, reply, tracking, notice, others>>

-----------------------------------------------------------------------------
\* ProcessCustomApiBatch.

SendBatch ==
    /\ pc = "announce"
    /\ unannounced = {}
    /\ LET wanted == {r \in batch : IsCurrent(r)} IN
         IF wanted = {}
         THEN Idle
         ELSE /\ pc' = "batchCall"
              /\ batch' = wanted
              /\ UNCHANGED <<lane, unannounced, reply, tracking, current, notice>>
    /\ UNCHANGED <<queueVars, others>>

\* FetchBatch returns.  "refused" stands for an update demand, an
\* authentication failure, unusable data and a disabled API; a 429 is a
\* transient failure that also sets the lockout.
BatchReply(answer, limited) ==
    /\ pc = "batchCall"
    /\ limited => answer = "transient"
    /\ rateLimit' = IF limited THEN "closed"
                    ELSE IF rateLimit = "lapsed" THEN "open" ELSE rateLimit
    /\ LET wanted == {r \in batch : IsCurrent(r)} IN
         /\ TakeNext(wanted)
         /\ wanted # {} => /\ reply' = answer
                          /\ tracking' = config.tracker
                          /\ UNCHANGED <<lane, unannounced>>
    /\ UNCHANGED <<queue, dedupeVars, others>>

\* What the answer means for one request of the batch.  A "players" answer has
\* a result for every request of the batch, found or not; what the API could
\* not answer goes to Tracker, unless Tracker is off or the lockout was set
\* after the batch's reply came.
HandleAnswer(found) ==
    /\ pc = "answered"
    /\ found => reply = "players"
    /\ IF ~IsCurrent(current)
       THEN Goto("finish") /\ UNCHANGED <<queue, dedupeVars>>
       ELSE IF found
       THEN Terminate(current, "ApiSuccess") /\ UNCHANGED <<queue, dedupeVars>>
       ELSE IF reply = "transient"
       THEN BeginRetry(current)
       ELSE IF tracking /\ ~IsRateLimitedForBatch
       THEN Goto("tracker") /\ UNCHANGED <<queue, dedupeVars>>
       ELSE Terminate(current, "Failed") /\ UNCHANGED <<queue, dedupeVars>>
    /\ UNCHANGED <<rateLimit, others>>

-----------------------------------------------------------------------------
\* FetchProfile and FetchProfileTracker.

\* FetchProfile lets a post-match request go when its match was confirmed while
\* it waited.  It reads the configuration once; its copy of enable_mmr_tracking
\* is only used after a rank API lookup.
FetchProfile(confirmed) ==
    /\ pc = "fetch"
    /\ confirmed => current.reason = "PostMatch"
    /\ pc' = IF ~IsCurrent(current) \/ confirmed THEN "finish"
             ELSE IF config.api THEN "customCall" ELSE "tracker"
    /\ tracking' = (config.api /\ config.tracker)
    /\ UNCHANGED <<queueVars, lane, batch, unannounced, current, reply, notice, others>>

\* PublishProfileResult: a post-match lookup that did not confirm its match
\* is retried while it has retries left.
Publish(r, status) ==
    \/ Terminate(r, status) /\ UNCHANGED <<queue, dedupeVars>>
    \/ r.reason = "PostMatch" /\ BeginRetry(r)

\* What the rank API, asked about one player, can answer; "disabled" is
\* DisabledOrNotReady.
Answers == {"found", "auth", "transient", "unusable", "disabled"}

\* The rank API answers a single lookup.  Unlike a batch's, its 429 sets no
\* lockout.
CustomReply(answer) ==
    /\ pc = "customCall"
    /\ IF ~IsCurrent(current)
       THEN Goto("finish") /\ UNCHANGED <<queue, dedupeVars>>
       ELSE IF answer = "found"
       THEN Publish(current, "ApiSuccess")
       ELSE IF answer = "auth"
       THEN /\ IF IsTracked(current) /\ ~tracking
               THEN Tell(current, "Failed")
               ELSE Goto("tracker")
            /\ UNCHANGED <<queue, dedupeVars>>
       ELSE IF answer = "transient" /\ (~tracking \/ IsRateLimited)
       THEN BeginRetry(current)
       ELSE IF IsRateLimited /\ (tracking \/ answer = "unusable")
       THEN Terminate(current, "Failed") /\ UNCHANGED <<queue, dedupeVars>>
       ELSE Goto("tracker") /\ UNCHANGED <<queue, dedupeVars>>
    /\ UNCHANGED <<rateLimit, others>>

\* Mutant: the path for a disabled Tracker forgets the terminal event.
FetchProfileTrackerSilently ==
    /\ pc = "tracker"
    /\ IF ~IsCurrent(current) \/ ~config.tracker THEN Goto("finish") ELSE Goto("trackerCall")
    /\ UNCHANGED <<queueVars, others>>

\* FetchProfileTracker reads the configuration again.
FetchProfileTracker ==
    /\ pc = "tracker"
    /\ IF ~IsCurrent(current) THEN Goto("finish")
       ELSE IF config.tracker THEN Goto("trackerCall")
       ELSE Terminate(current, "Failed")
    /\ UNCHANGED <<queueVars, others>>

\* Tracker answers with a profile; the circuit breaker resets.
TrackerFound ==
    /\ pc = "trackerCall"
    /\ ResetForbidden
    /\ Publish(current, "Success")
    /\ UNCHANGED others

\* HTTP 200 with a body that is incomplete or does not parse.
TrackerGarbled ==
    /\ pc = "trackerCall"
    /\ ResetForbidden
    /\ BeginRetry(current)
    /\ UNCHANGED others

\* HTTP 429: the lockout applies whatever becomes of the request.
TrackerLimited ==
    /\ pc = "trackerCall"
    /\ rateLimit' = "closed"
    /\ BeginRetry(current)
    /\ UNCHANGED others

\* A transport error, 408 or 5xx.
TrackerTransient ==
    /\ pc = "trackerCall"
    /\ BeginRetry(current)
    /\ UNCHANGED <<rateLimit, others>>

\* HTTP 404 and every other outcome a retry would not change.
TrackerRejected ==
    /\ pc = "trackerCall"
    /\ Terminate(current, "Failed")
    /\ UNCHANGED <<queueVars, others>>

\* Mutant: a request refused while the service stops is let go unfinished.
TrackerForbiddenDrops ==
    /\ pc = "trackerCall"
    /\ IF running
       THEN /\ Forbidden(current)
            /\ IF ~IsCurrent(current) THEN Goto("finish")
               ELSE IF IsTracked(current) THEN Tell(current, "Requeued")
               ELSE NextRequest
       ELSE NextRequest /\ UNCHANGED queueVars
    /\ UNCHANGED others

\* HTTP 403: RequeueForbidden does nothing once the service is stopping.
TrackerForbidden ==
    /\ pc = "trackerCall"
    /\ IF running
       THEN /\ Forbidden(current)
            /\ IF ~IsCurrent(current) THEN Goto("finish")
               ELSE IF IsTracked(current) THEN Tell(current, "Requeued")
               ELSE NextRequest
       ELSE Goto("finish") /\ UNCHANGED queueVars
    /\ UNCHANGED others

-----------------------------------------------------------------------------
\* NotifyTracked: the event reaches the sink, which drops it unless its
\* generation is still current; the worker goes on either way.  The notice of
\* a terminal event is kept until the request is finished.
Notify ==
    /\ pc = "notify"
    /\ CASE notice = "Fetching" -> Goto("fetch")
         [] notice = "Retrying" -> Goto("push")
         [] notice = "Requeued" -> NextRequest
         [] OTHER -> /\ pc' = "finish"
                     /\ UNCHANGED <<lane, batch, unannounced, current, reply, tracking, notice>>
    /\ UNCHANGED <<queueVars, others>>

\* Mutant: the request's generation is not checked again after the callback.
PushRetryUnchecked ==
    /\ pc = "push"
    /\ queue' = queue \cup {current}
    /\ NextRequest
    /\ UNCHANGED <<dedupeVars, rateLimit, others>>

\* ScheduleRetry after its callback: a request canceled meanwhile is dropped.
PushRetry ==
    /\ pc = "push"
    /\ IF IsCurrent(current)
       THEN queue' = queue \cup {current} /\ NextRequest
       ELSE Goto("finish") /\ UNCHANGED queue
    /\ UNCHANGED <<dedupeVars, rateLimit, others>>

FinishRequest ==
    /\ pc = "finish"
    /\ Finish(current)
    /\ NextRequest
    /\ UNCHANGED others

-----------------------------------------------------------------------------
WorkerStep ==
    \/ LoopTop
    \/ WorkerReturns
    \/ \E r \in queue : PopSingle(r)
    \/ PopNothing
    \/ CoalesceYields
    \/ DrainBatch
    \/ SendBatch
    \/ \E answer \in Replies \ {"none"}, limited \in BOOLEAN : BatchReply(answer, limited)
    \/ \E found \in BOOLEAN : HandleAnswer(found)
    \/ \E confirmed \in BOOLEAN : FetchProfile(confirmed)
    \/ \E answer \in Answers : CustomReply(answer)
    \/ FetchProfileTracker
    \/ TrackerFound
    \/ TrackerGarbled
    \/ TrackerLimited
    \/ TrackerTransient
    \/ TrackerRejected
    \/ TrackerForbidden
    \/ PushRetry
    \/ FinishRequest

\* The worker's steps that call the sink.
SinkStep ==
    \/ \E r \in unannounced : Announce(r)
    \/ Notify

TimeComes(r) == BecomesDue(r) /\ UNCHANGED <<workerVars, others>>

LockoutEnds == LockoutLapses(reply # "none") /\ UNCHANGED <<workerVars, others>>

Clock == LockoutEnds \/ \E r \in queue : TimeComes(r)

\* The other users of the service.
MatchTraffic ==
    \/ \E p \in Players : Enqueue(p)
    \/ \E g \in Guids : EnqueuePostMatch(g)

AccountTraffic ==
    \/ \E a \in Accounts : EnqueueTrackedAccount(a)
    \/ \E a \in Accounts : CancelTrackedAccount(a)

ServiceNext ==
    \/ WorkerStep
    \/ SinkStep
    \/ Clock
    \/ MatchTraffic
    \/ AccountTraffic
    \/ ChangeConfig
    \/ Stop

ServiceSpec == ServiceInit /\ [][ServiceNext]_vars

\* The worker thread is scheduled while it can run (a network call returns or
\* times out, a wait ends), and the clock advances.
ServiceFairness ==
    /\ WF_vars(WorkerStep \/ SinkStep)
    /\ \A reason \in Reasons, key \in Players \cup Accounts \cup Guids :
         WF_vars(\E r \in queue : r.reason = reason /\ r.key = key /\ TimeComes(r))
    /\ WF_vars(LockoutEnds)

FairServiceSpec == ServiceSpec /\ ServiceFairness

-----------------------------------------------------------------------------
\* Properties.

\* The requests the worker has taken out of the queue and not yet let go.  A
\* request reported as Requeued is already back in the queue.
Held == batch \cup (IF current = NoRequest \/ notice = "Requeued" THEN {} ELSE {current})

Same(r, s) == r.reason = s.reason /\ r.key = s.key /\ r.generation = s.generation

\* The dedupe entry that r was created with is still there.
OwnsEntry(r) ==
    \/ r.reason = "Roster" /\ r.key \in rosterQueuedOrInFlight
    \/ r.reason = "PostMatch" /\ r.key \in pendingPostMatchGuids
    \/ IsTracked(r) /\ trackedQueuedOrInFlight[r.key] = r.generation

\* A request that waits in the queue always has its dedupe entry: no
\* interleaving of Cancel, Finish, ScheduleRetry and RequeueForbidden leaves a
\* canceled generation, or a roster or post-match request already finished,
\* behind to be looked up later.
QueueHoldsOnlyCurrent == \A r \in queue : OwnsEntry(r)

\* A player, match or account generation is in one place only: waiting in the
\* queue, in the worker's batch, or being processed, and never waiting twice
\* with different retry budgets.
SingleFlight ==
    /\ \A r, s \in queue \cup Held : Same(r, s) => r = s
    /\ queue \cap Held = {}
    /\ current \notin batch

\* Every dedupe entry has a request that will release it.  An entry without
\* one would make every later lookup of that player or account a no-op.
NoOrphanEntry ==
    LET live == queue \cup Held IN
    /\ \A p \in rosterQueuedOrInFlight : \E r \in live : r.reason = "Roster" /\ r.key = p
    /\ \A g \in pendingPostMatchGuids : \E r \in live : r.reason = "PostMatch" /\ r.key = g
    /\ \A a \in Accounts : trackedQueuedOrInFlight[a] # 0 =>
           \E r \in live : /\ IsTracked(r)
                           /\ r.key = a
                           /\ r.generation = trackedQueuedOrInFlight[a]

\* No lookup goes out while a 429 or 403 lockout is in force, including the
\* Tracker fallbacks of the rest of a batch whose earlier request set it.
NoLookupDuringLockout ==
    pc \in {"batchCall", "customCall", "trackerCall"} => ~IsRateLimited

\* A request never gets retries back: between two appearances of one
\* generation, match or roster lookup whose entry was kept throughout, the
\* retries left never grow, not even through the 403 circuit breaker.
RetryBudgetOnlyShrinks ==
    [][\A r \in queue \cup Held : \A s \in (queue \cup Held)' :
         Same(r, s) => s.retriesRemaining <= r.retriesRemaining]_vars

\* A request that was canceled, even if its account has been requested again
\* since, is inert: whatever its lookup answers, no step the worker takes for
\* it changes the queue or a dedupe entry (docs/ACCOUNT_MANAGER.md:84).
StaleRequestIsInert ==
    [][current # NoRequest /\ ~IsCurrent(current) /\ <<pc, current>>' # <<pc, current>> =>
         UNCHANGED <<queue, dedupeVars>>]_vars

\* The worker has handed the sink the terminal event of a's current request.
Answered(a) ==
    /\ pc = "finish"
    /\ notice \in Terminal
    /\ current.key = a
    /\ IsTracked(current)
    /\ IsCurrent(current)

\* Each active tracked request gets its terminal event before its account may
\* be requested again (docs/ACCOUNT_MANAGER.md): while the service runs, only
\* a cancel removes an entry whose request was not answered.
EventBeforeRelease ==
    [][\A a \in Accounts :
         trackedQueuedOrInFlight[a] # 0 /\ trackedQueuedOrInFlight'[a] = 0 =>
            \/ Answered(a)
            \/ CancelTrackedAccount(a)
            \/ ~running]_vars

\* From some point on the service is running with a rank source, and no lookup
\* draws a 403: RequeueForbidden costs no retry, so a Tracker that answers
\* 403 forever parks a request forever.
Serviceable ==
    /\ <>[](running /\ ProviderAvailable)
    /\ <>[][~TrackerForbidden]_vars

\* No roster or post-match request waits forever, whatever is canceled or
\* reconfigured around it: its entry is released and it may be made again.
MatchRequestsEnd ==
    Serviceable =>
        /\ \A p \in Players : p \in rosterQueuedOrInFlight ~> p \notin rosterQueuedOrInFlight
        /\ \A g \in Guids : g \in pendingPostMatchGuids ~> g \notin pendingPostMatchGuids

\* A refresh of a tracked account ends too, once roster lookups, which always
\* go first, stop arriving.
TrackedRequestsEnd ==
    Serviceable /\ <>[][~\E p \in Players : Enqueue(p)]_vars =>
        \A a \in Accounts :
            trackedQueuedOrInFlight[a] # 0 ~> trackedQueuedOrInFlight[a] = 0

\* Stop's join returns: wherever the worker is when m_isRunning is cleared, it
\* reaches the end of WorkerLoop.
StopReturns == ~running ~> pc = "stopped"
=============================================================================
