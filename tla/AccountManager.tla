--------------------------- MODULE AccountManager ---------------------------
(***************************************************************************)
(* The account manager (core/accounts/AccountManager.cpp) with the rank     *)
(* service it refreshes accounts through.  UI and telemetry calls take      *)
(* m_mutex and touch memory only; a FIFO worker does the SQLite work; the   *)
(* rank worker calls ApplyFetchEvent, which takes m_mutex and checks the    *)
(* request's generation again.                                              *)
(*                                                                         *)
(* A saved or shown rank or reward is represented by the generation of the  *)
(* request that produced it, 0 for none or one from an earlier launch.      *)
(***************************************************************************)
EXTENDS MmrService, Sequences

CONSTANT MaxJobs        \* bound: queued jobs at which UI calls are held back

ASSUME JobsAssumption == MaxJobs \in Nat

VARIABLES accounts,     \* the primary ids in m_accounts
          loaded,       \* m_loaded
          observed,     \* m_pendingObservations
          pending,      \* m_pending
          busy,         \* accounts shown as Queued, Fetching or waiting to retry
          cooling,      \* accounts inside the manual refresh cooldown
          ranks,        \* ranks shown for an account
          rewards,      \* season rewards shown for an account
          since,        \* requests made before the account was last added
          jobs,         \* m_worker's queue
          rows,         \* primary ids in the TrackedAccounts table
          savedRanks,   \* TrackedAccountRanks rows
          savedRewards  \* TrackedAccountRewards rows

memoryVars == <<accounts, loaded, observed, pending, busy, cooling, ranks, rewards, since>>
tableVars == <<rows, savedRanks, savedRewards>>
accountVars == <<memoryVars, jobs, tableVars>>
allVars == <<vars, accountVars>>

Generations == 0..MaxGeneration

Job ==
    [op : {"Load", "StartupRefresh"}]
    \cup [op : {"Register"}, ids : SUBSET Accounts]
    \cup [op : {"Resolve"}, ids : SUBSET Accounts]
    \cup [op : {"Delete"}, id : Accounts]
    \cup [op : {"SaveRanks", "SaveRewards"}, id : Accounts, generation : Generations]

AccountTypeOK ==
    /\ ServiceTypeOK
    /\ accounts \subseteq Accounts
    /\ loaded \in BOOLEAN
    /\ observed \subseteq Accounts
    /\ pending \subseteq Accounts
    /\ busy \subseteq Accounts
    /\ cooling \subseteq Accounts
    /\ {ranks, rewards, since, savedRanks, savedRewards} \subseteq [Accounts -> Generations]
    /\ jobs \in Seq(Job)
    /\ rows \subseteq Accounts

Nothing == [a \in Accounts |-> 0]

\* Start and QueueStartupRefresh, called one after the other at launch.
AccountInit ==
    /\ ServiceInit
    /\ accounts = {}
    /\ loaded = FALSE
    /\ observed = {}
    /\ pending = {}
    /\ busy = {}
    /\ cooling = {}
    /\ ranks = Nothing
    /\ rewards = Nothing
    /\ since = Nothing
    /\ jobs = <<[op |-> "Load"], [op |-> "StartupRefresh"]>>
    /\ rows \in SUBSET Accounts
    /\ savedRanks = Nothing
    /\ savedRewards = Nothing

serviceOthers == <<workerVars, others>>
-----------------------------------------------------------------------------
\* RefreshLocked: AlreadyQueued is treated as Queued.
RefreshLocked(a, manual) ==
    /\ a \notin pending
    /\ manual => a \notin cooling
    /\ IF ProviderAvailable
       THEN /\ \/ EnqueueTrackedRequest(a)
               \/ trackedQueuedOrInFlight[a] # 0 /\ UNCHANGED queueVars
            /\ pending' = pending \cup {a}
            /\ busy' = busy \cup {a}
            /\ cooling' = IF manual THEN cooling \cup {a} ELSE cooling
       ELSE /\ busy' = busy \ {a}
            /\ UNCHANGED <<queueVars, pending, cooling>>
    /\ UNCHANGED <<accounts, loaded, observed, ranks, rewards, since>>

\* RegisterLocked for every account of S, and the records ImportKnown builds.
RegisterLocked(S) ==
    /\ accounts' = accounts \cup S
    /\ since' = [a \in Accounts |-> IF a \in S THEN nextTrackedGeneration ELSE since[a]]
    /\ UNCHANGED <<loaded, pending, busy, cooling, ranks, rewards>>

-----------------------------------------------------------------------------
\* UI and telemetry calls.

Room == Len(jobs) < MaxJobs

\* Refresh, and one account of RefreshAll.
Refresh(a) ==
    /\ a \in accounts
    /\ RefreshLocked(a, TRUE)
    /\ UNCHANGED <<serviceOthers, jobs, tableVars>>

\* AddManual of one account, or ImportKnown of several.
Add(S) ==
    /\ Room
    /\ loaded
    /\ S # {} /\ S \cap accounts = {}
    /\ RegisterLocked(S)
    /\ jobs' = jobs \o <<[op |-> "Register", ids |-> S], [op |-> "Resolve", ids |-> S]>>
    /\ UNCHANGED <<queueVars, serviceOthers, observed, tableVars>>

\* Mutant: the account's request is not canceled.
RemoveWithoutCancel(a) ==
    /\ Room
    /\ a \in accounts
    /\ accounts' = accounts \ {a}
    /\ pending' = pending \ {a}
    /\ busy' = busy \ {a}
    /\ cooling' = cooling \ {a}
    /\ ranks' = [ranks EXCEPT ![a] = 0]
    /\ rewards' = [rewards EXCEPT ![a] = 0]
    /\ since' = [since EXCEPT ![a] = 0]
    /\ jobs' = Append(jobs, [op |-> "Delete", id |-> a])
    /\ UNCHANGED <<queueVars, serviceOthers, loaded, observed, tableVars>>

Remove(a) ==
    /\ Room
    /\ a \in accounts
    /\ accounts' = accounts \ {a}
    /\ pending' = pending \ {a}
    /\ busy' = busy \ {a}
    /\ cooling' = cooling \ {a}
    /\ ranks' = [ranks EXCEPT ![a] = 0]
    /\ rewards' = [rewards EXCEPT ![a] = 0]
    /\ since' = [since EXCEPT ![a] = 0]
    /\ CancelTrackedRequest(a)
    /\ jobs' = Append(jobs, [op |-> "Delete", id |-> a])
    /\ UNCHANGED <<serviceOthers, loaded, observed, tableVars>>

\* ObserveLocalAccount: the local player's account in a match.
Observe(a) ==
    /\ Room
    /\ a \notin accounts
    /\ IF loaded
       THEN /\ RegisterLocked({a})
            /\ jobs' = Append(jobs, [op |-> "Register", ids |-> {a}])
            /\ UNCHANGED observed
       ELSE /\ observed' = observed \cup {a}
            /\ UNCHANGED <<accounts, loaded, pending, busy, cooling, ranks, rewards, since, jobs>>
    /\ UNCHANGED <<queueVars, serviceOthers, tableVars>>

CooldownEnds(a) ==
    /\ a \in cooling
    /\ cooling' = cooling \ {a}
    /\ UNCHANGED <<vars, accounts, loaded, observed, pending, busy, ranks, rewards, since, jobs, tableVars>>

-----------------------------------------------------------------------------
\* Mutant: the generation of an event is not checked again under m_mutex.
ApplyLateEvent(r, status) ==
    LET a == r.key IN
    IF a \notin accounts
    THEN UNCHANGED accountVars
    ELSE /\ IF status \in Terminal
            THEN busy' = busy \ {a} /\ pending' = pending \ {a}
            ELSE busy' = busy \cup {a} /\ UNCHANGED pending
         /\ ranks' = IF status = "Success" THEN [ranks EXCEPT ![a] = r.generation] ELSE ranks
         /\ jobs' = IF status = "Success"
                    THEN Append(jobs, [op |-> "SaveRanks", id |-> a, generation |-> r.generation])
                    ELSE jobs
         /\ UNCHANGED <<accounts, loaded, observed, cooling, rewards, since, tableVars>>

\* ApplyFetchEvent, called by the rank worker.  A success reports ranks, season
\* rewards or both, and posts a job for each; a profile with neither is a
\* failure (NoRankedData).
ApplyFetchEvent(r, status) ==
    LET a == r.key IN
    IF ~IsCurrent(r) \/ a \notin accounts
    THEN UNCHANGED accountVars
    ELSE /\ IF status \in Terminal
            THEN busy' = busy \ {a} /\ pending' = pending \ {a}
            ELSE busy' = busy \cup {a} /\ UNCHANGED pending
         /\ \E ranked, rewarded \in BOOLEAN :
              /\ ranked \/ rewarded => status \in {"ApiSuccess", "Success"}
              /\ rewarded => status = "ApiSuccess"
              /\ ranks' = IF ranked THEN [ranks EXCEPT ![a] = r.generation] ELSE ranks
              /\ LET saves(flag, op) ==
                       IF flag THEN <<[op |-> op, id |-> a, generation |-> r.generation]>>
                               ELSE <<>>
                 IN jobs' = jobs \o saves(rewarded, "SaveRewards") \o saves(ranked, "SaveRanks")
         /\ UNCHANGED <<accounts, loaded, observed, cooling, rewards, since, tableVars>>

-----------------------------------------------------------------------------
\* The worker's jobs, one at a time from the head of the queue.

Running(op) == jobs # <<>> /\ Head(jobs).op = op

Done == jobs' = Tail(jobs)

\* Mutant: accounts observed before the load get no row.
LoadForgetsRows ==
    /\ Running("Load")
    /\ accounts' = rows \cup observed
    /\ Done
    /\ ranks' = savedRanks
    /\ rewards' = savedRewards
    /\ loaded' = TRUE
    /\ observed' = {}
    /\ UNCHANGED <<vars, pending, busy, cooling, since, tableVars>>

\* The job of Start: the tables are read, then the observations that came
\* before are applied.
Load ==
    /\ Running("Load")
    /\ LET added == observed \ rows IN
         /\ accounts' = rows \cup observed
         /\ jobs' = IF added = {} THEN Tail(jobs)
                    ELSE Append(Tail(jobs), [op |-> "Register", ids |-> added])
    /\ ranks' = savedRanks
    /\ rewards' = savedRewards
    /\ loaded' = TRUE
    /\ observed' = {}
    /\ UNCHANGED <<vars, pending, busy, cooling, since, tableVars>>

\* RefreshStale: which accounts are stale is a matter of their timestamps.
StartupRefresh(stale) ==
    /\ Running("StartupRefresh")
    /\ stale \subseteq accounts
    /\ jobs' = IF stale = {} THEN Tail(jobs)
               ELSE <<[op |-> "Resolve", ids |-> stale]>> \o Tail(jobs)
    /\ UNCHANGED <<vars, memoryVars, tableVars>>

\* The refreshes of RefreshStale and ResolveNamesOnWorker, which skips the
\* accounts that are no longer tracked.  Their loops hold m_mutex throughout;
\* a step per account adds no order that separate refreshes do not have.
RefreshNext(a) ==
    /\ Running("Resolve")
    /\ a \in Head(jobs).ids
    /\ jobs' = IF Head(jobs).ids = {a} THEN Tail(jobs)
               ELSE <<[op |-> "Resolve", ids |-> Head(jobs).ids \ {a}]>> \o Tail(jobs)
    /\ IF a \in accounts \ pending
       THEN RefreshLocked(a, FALSE)
       ELSE UNCHANGED <<queueVars, memoryVars>>
    /\ UNCHANGED <<serviceOthers, tableVars>>

\* RegisterTrackedAccount and ImportTrackedAccounts leave an existing row alone.
RegisterRows ==
    /\ Running("Register")
    /\ rows' = rows \cup Head(jobs).ids
    /\ Done
    /\ UNCHANGED <<vars, memoryVars, savedRanks, savedRewards>>

\* The rank and reward rows go with the account's row.
DeleteRow ==
    /\ Running("Delete")
    /\ rows' = rows \ {Head(jobs).id}
    /\ savedRanks' = [savedRanks EXCEPT ![Head(jobs).id] = 0]
    /\ savedRewards' = [savedRewards EXCEPT ![Head(jobs).id] = 0]
    /\ Done
    /\ UNCHANGED <<vars, memoryVars>>

\* Nothing is saved for an account without a row.
SaveRanks ==
    /\ Running("SaveRanks")
    /\ savedRanks' = IF Head(jobs).id \in rows
                     THEN [savedRanks EXCEPT ![Head(jobs).id] = Head(jobs).generation]
                     ELSE savedRanks
    /\ Done
    /\ UNCHANGED <<vars, memoryVars, rows, savedRewards>>

\* Rewards are shown once they are saved.
SaveRewards ==
    /\ Running("SaveRewards")
    /\ LET id == Head(jobs).id IN
         /\ savedRewards' = IF id \in rows
                            THEN [savedRewards EXCEPT ![id] = Head(jobs).generation]
                            ELSE savedRewards
         /\ rewards' = IF id \in rows \cap accounts
                       THEN [rewards EXCEPT ![id] = Head(jobs).generation]
                       ELSE rewards
    /\ Done
    /\ UNCHANGED <<vars, accounts, loaded, observed, pending, busy, cooling, ranks,
                   since, rows, savedRanks>>

-----------------------------------------------------------------------------
UserCall ==
    \/ \E a \in Accounts : Refresh(a) \/ Remove(a) \/ Observe(a)
    \/ \E S \in SUBSET Accounts : Add(S)

JobStep ==
    \/ Load
    \/ \E stale \in SUBSET Accounts : StartupRefresh(stale)
    \/ \E a \in Accounts : RefreshNext(a)
    \/ RegisterRows
    \/ DeleteRow
    \/ SaveRanks
    \/ SaveRewards

SinkCall ==
    \/ \E r \in unannounced : Announce(r) /\ ApplyFetchEvent(r, "Fetching")
    \/ Notify /\ ApplyFetchEvent(current, notice)

ServiceAlone ==
    /\ WorkerStep \/ Clock \/ MatchTraffic \/ ChangeConfig \/ Stop
    /\ UNCHANGED accountVars

AccountNext ==
    \/ UserCall
    \/ \E a \in Accounts : CooldownEnds(a)
    \/ JobStep
    \/ SinkCall
    \/ ServiceAlone

AccountSpec == AccountInit /\ [][AccountNext]_allVars

\* As the service's fairness; m_worker runs its jobs.
AccountFairness ==
    /\ WF_allVars(SinkCall \/ (WorkerStep /\ UNCHANGED accountVars))
    /\ \A reason \in Reasons, key \in Players \cup Accounts \cup Guids :
         WF_allVars(/\ \E r \in queue : r.reason = reason /\ r.key = key /\ TimeComes(r)
                    /\ UNCHANGED accountVars)
    /\ WF_allVars(LockoutEnds /\ UNCHANGED accountVars)
    /\ WF_allVars(JobStep)

FairAccountSpec == AccountSpec /\ AccountFairness

-----------------------------------------------------------------------------
\* Properties.

\* An account that the service still holds a refresh for is tracked, and is
\* pending until the refresh has been answered.  Otherwise the refresh would
\* go on unseen and silently swallow the next one asked for.
RefreshHasOwner ==
    \A a \in Accounts : trackedQueuedOrInFlight[a] # 0 =>
        /\ a \in accounts
        /\ a \in pending \/ Answered(a)

\* The account list shows a refresh under way exactly for the accounts whose
\* Refresh is refused as already queued, whatever order removals, late events
\* and provider changes come in.
BusyExactlyWhenPending == busy = pending /\ pending \subseteq accounts

\* What AccountManager's lists and the service's table say of one another, at
\* every interleaving of the user's calls, the worker's jobs and the events.
AccountBookkeeping == AccountTypeOK /\ RefreshHasOwner /\ BusyExactlyWhenPending

\* When the worker has caught up, the tables hold the accounts in memory and
\* their latest ranks: no order of Add, Remove, Import, Observe and finished
\* refreshes leaves a deleted account's row or loses a saved rank.
TablesMatchMemory ==
    loaded /\ jobs = <<>> =>
        /\ rows = accounts
        /\ \A a \in accounts : savedRanks[a] = ranks[a]

\* A removed account that is added back never shows, nor gets saved over its
\* new row, ranks that were requested before it was removed.
RanksAreOfThisAccount ==
    \A a \in accounts :
        /\ ranks[a] # 0 => ranks[a] > since[a]
        /\ jobs = <<>> /\ savedRanks[a] # 0 => savedRanks[a] > since[a]

\* The account manager and the rank service together keep the promises of
\* TrackedRefresh.
Promise == INSTANCE TrackedRefresh WITH
    tracked <- accounts,
    active <- trackedQueuedOrInFlight,
    answered <- {a \in Accounts : Answered(a)},
    lastUsed <- nextTrackedGeneration,
    stopping <- ~running

KeepsPromise == Promise!Spec

\* A refresh that was accepted ends: the account is available for a later
\* refresh (docs/ACCOUNT_MANAGER.md:83, :89).
RefreshesEnd ==
    <>[](running /\ ProviderAvailable) /\ <>[][~TrackerForbidden]_allVars =>
        \A a \in Accounts : a \in pending ~> a \notin pending
=============================================================================
