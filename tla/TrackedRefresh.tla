--------------------------- MODULE TrackedRefresh ---------------------------
(***************************************************************************)
(* What refreshing a tracked account promises (docs/ACCOUNT_MANAGER.md,     *)
(* "Separation from live tracking"): only a tracked account has a request;  *)
(* each request gets one terminal event before its account may be requested *)
(* again; removing the account ends its request without one; an account     *)
(* added back starts with a new request, which nothing of the old one can   *)
(* answer or end.                                                           *)
(***************************************************************************)
EXTENDS Naturals

CONSTANT Accounts

VARIABLES tracked,    \* the accounts the user tracks
          active,     \* an account's current request, 0 when it has none
          answered,   \* the accounts whose current request has had its event
          lastUsed,   \* the newest request ever made
          stopping    \* the service is shutting down

refreshVars == <<tracked, active, answered, lastUsed, stopping>>

Init ==
    /\ tracked = {}
    /\ active = [a \in Accounts |-> 0]
    /\ answered = {}
    /\ lastUsed = 0
    /\ stopping = FALSE

\* Loading, adding, importing or observing accounts.
Track(S) ==
    /\ S \cap tracked = {}
    /\ tracked' = tracked \cup S
    /\ UNCHANGED <<active, answered, lastUsed, stopping>>

Request(a) ==
    /\ a \in tracked
    /\ active[a] = 0
    /\ lastUsed' = lastUsed + 1
    /\ active' = [active EXCEPT ![a] = lastUsed + 1]
    /\ UNCHANGED <<tracked, answered, stopping>>

\* The terminal event.
Answer(a) ==
    /\ active[a] # 0
    /\ a \notin answered
    /\ answered' = answered \cup {a}
    /\ UNCHANGED <<tracked, active, lastUsed, stopping>>

\* The request is over and the account may be requested again.  Only a
\* service that is stopping ends a request without an event.
Release(a) ==
    /\ active[a] # 0
    /\ a \in answered \/ stopping
    /\ active' = [active EXCEPT ![a] = 0]
    /\ answered' = answered \ {a}
    /\ UNCHANGED <<tracked, lastUsed, stopping>>

Untrack(a) ==
    /\ a \in tracked
    /\ tracked' = tracked \ {a}
    /\ active' = [active EXCEPT ![a] = 0]
    /\ answered' = answered \ {a}
    /\ UNCHANGED <<lastUsed, stopping>>

BeginStop ==
    /\ stopping' = TRUE
    /\ UNCHANGED <<tracked, active, answered, lastUsed>>

Next ==
    \/ \E S \in SUBSET Accounts : Track(S)
    \/ \E a \in Accounts : Request(a) \/ Answer(a) \/ Release(a) \/ Untrack(a)
    \/ BeginStop

Spec == Init /\ [][Next]_refreshVars
=============================================================================
