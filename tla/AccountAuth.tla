----------------------------- MODULE AccountAuth -----------------------------
(***************************************************************************)
(* Signing in to the OmniStats account: AccountClient, its worker thread,  *)
(* DeviceAuthFlow and TokenStore.  The UI thread signs in, cancels, signs  *)
(* out and retries the key migration; the worker asks for a code and polls *)
(* until it is approved, exchanges a saved API key and sends logouts; any  *)
(* thread that needs an access token refreshes it, one for all.  A request *)
(* lies between two steps.  Config and the token store's generation are    *)
(* changed in two steps by SetTokens and Clear, which write the            *)
(* configuration before they take the store's mutex.                       *)
(*                                                                         *)
(* A session is known by its refresh token, numbered as the server gives   *)
(* them out.  Answers that end a step in the same way are one.             *)
(***************************************************************************)
EXTENDS Naturals, Sequences, SequencesExt, FiniteSets

CONSTANTS
  Refreshers,  \* the threads that ask for an access token
  MaxTokens,   \* bound: how many refresh tokens the server gives out
  MaxClicks    \* bound: how often the user does something

ASSUME AccountAuthAssumption == MaxTokens \in Nat \ {0} /\ MaxClicks \in Nat

None == 0
TokenIds == 1..MaxTokens

VARIABLES
  conf,        \* Config: account_refresh_token, whether custom_api_key is set
  generation,  \* TokenStore::m_authGeneration
  flow,        \* DeviceAuthFlow: m_state, m_cancelRequested
  attempted,   \* m_keyExchangeAttempted
  orders,      \* m_workerQueue
  agent,       \* the worker thread: where it is, its job and the token it has received
  refresh,     \* the refresh in flight (m_refreshInFlight and the leader's locals)
  asker,       \* what each refresher does
  ui,          \* the UI thread: in the middle of LogoutAsync or not
  ending,      \* m_stopWorker
  issued, valid,       \* the tokens the server has given out, those it still accepts
  clicks,
  outdated,            \* a logout or sign-in was completed since the refresh began
  signedOut,           \* the last completed call of the user is LogoutAsync
  voided,              \* the code that was shown has been cancelled, and no other asked for
  kept, discarded,     \* tokens a refresh wrote, tokens it did not keep
  dropped              \* tokens whose logout was not delivered

serverVars == <<issued, valid>>
historyVars == <<outdated, signedOut, voided, kept, discarded, dropped>>
authVars == <<conf, generation, flow, attempted, orders, agent, refresh, asker, ui, ending,
              serverVars, clicks, historyVars>>

IdleAgent == [at |-> "idle", command |-> "none", token |-> None, generation |-> 0]
NoRefresh == [at |-> "none", generation |-> 0, old |-> None, new |-> None]
Order(command, token) == [command |-> command, token |-> token, generation |-> generation]

AuthInit ==
  /\ \/ conf = [token |-> None, key |-> TRUE] /\ issued = 0 /\ valid = {}
     \/ conf = [token |-> 1, key |-> FALSE] /\ issued = 1 /\ valid = {1}
  /\ generation = 0
  /\ flow = [state |-> IF conf.token = None THEN "signedOut" ELSE "signedIn", cancel |-> FALSE]
  /\ attempted = FALSE /\ orders = <<>> /\ agent = IdleAgent
  /\ refresh = NoRefresh /\ asker = [t \in Refreshers |-> "idle"]
  /\ ui = [at |-> "idle", token |-> None] /\ ending = FALSE /\ clicks = 0
  /\ outdated = FALSE /\ signedOut = FALSE /\ voided = FALSE
  /\ kept = {} /\ discarded = {} /\ dropped = {}

Issue == issued < MaxTokens /\ issued' = issued + 1
Queued(command) == {orders[i].token : i \in {j \in DOMAIN orders : orders[j].command = command}}
Is(state) == flow.state = state
Cancelled == [state |-> "signedOut", cancel |-> TRUE]
Click == ui.at = "idle" /\ ~ending /\ clicks < MaxClicks /\ clicks' = clicks + 1

-----------------------------------------------------------------------------
\* The UI thread.

\* BeginSignInAsync.
BeginSignIn ==
  /\ Click
  /\ flow' = Cancelled /\ generation' = generation + 1
  /\ orders' = <<[Order("signIn", None) EXCEPT !.generation = generation + 1]>>
  /\ dropped' = dropped \cup Queued("logout")
  /\ outdated' = TRUE /\ signedOut' = FALSE /\ voided' = FALSE
  /\ UNCHANGED <<conf, attempted, agent, refresh, asker, ui, ending, serverVars, kept,
                 discarded>>

\* CancelAuthorization, whose button shows while a code does.
CancelAuthorization ==
  /\ Click /\ Is("awaiting")
  /\ flow' = Cancelled
  /\ voided' = (agent.at \in {"sleeping", "polling"})
  /\ UNCHANGED <<conf, generation, attempted, orders, agent, refresh, asker, ui, ending,
                 serverVars, outdated, signedOut, kept, discarded, dropped>>

\* LogoutAsync reads the token; Clear clears the configuration and then the store.
Logout ==
  /\ Click /\ ui' = [at |-> "clearing", token |-> conf.token]
  /\ flow' = Cancelled
  /\ UNCHANGED <<conf, generation, attempted, orders, agent, refresh, asker, ending, serverVars,
                 historyVars>>

ClearConfig ==
  /\ ui.at = "clearing" /\ ui' = [ui EXCEPT !.at = "cleared"]
  /\ conf' = [token |-> None, key |-> FALSE]
  /\ UNCHANGED <<generation, flow, attempted, orders, agent, refresh, asker, ending, serverVars,
                 clicks, historyVars>>

\* Mutant: Clear leaves the generation as it is.
SameGeneration == generation

NextGeneration == generation + 1

FinishLogout ==
  /\ ui.at = "cleared" /\ ui' = [at |-> "idle", token |-> None]
  /\ generation' = NextGeneration /\ flow' = [flow EXCEPT !.state = "signedOut"]
  /\ orders' = IF ui.token = None THEN orders
               ELSE Append(orders, [Order("logout", ui.token) EXCEPT !.generation = NextGeneration])
  /\ outdated' = TRUE /\ signedOut' = TRUE
  /\ UNCHANGED <<conf, attempted, agent, refresh, asker, ending, serverVars, clicks, voided,
                 kept, discarded, dropped>>

\* SyncFromConfig, at the start, after the consent, and by RetryKeyMigrationAsync after an error.
SyncFromConfig ==
  /\ Click
  /\ LET tried == attempted /\ ~Is("error")
     IN \/ /\ conf.token = None /\ conf.key /\ ~tried /\ ~Is("awaiting")
           /\ attempted' = TRUE /\ flow' = [flow EXCEPT !.state = "migrating"]
           /\ orders' = Append(orders, Order("exchange", None)) /\ signedOut' = FALSE
           /\ UNCHANGED <<conf, generation, outdated>>
        \/ /\ conf.token # None
           /\ conf' = [conf EXCEPT !.key = FALSE]
           /\ flow' = IF Is("awaiting") THEN flow ELSE [flow EXCEPT !.state = "signedIn"]
           /\ attempted' = tried /\ UNCHANGED <<orders, generation, outdated, signedOut>>
        \/ /\ conf.token = None /\ (~conf.key \/ tried) /\ Is("signedIn")
           /\ flow' = [flow EXCEPT !.state = "signedOut"]
           /\ conf' = [conf EXCEPT !.key = FALSE] /\ generation' = generation + 1
           /\ outdated' = TRUE /\ attempted' = tried /\ UNCHANGED <<orders, signedOut>>
  /\ UNCHANGED <<agent, refresh, asker, ui, ending, serverVars, voided, kept, discarded,
                 dropped>>

\* Shutdown, after the services that refresh have stopped.
Shutdown ==
  /\ ui.at = "idle" /\ ~ending /\ \A t \in Refreshers : asker[t] = "idle"
  /\ ending' = TRUE /\ orders' = <<>> /\ dropped' = dropped \cup Queued("logout")
  /\ UNCHANGED <<conf, generation, flow, attempted, agent, refresh, asker, ui, serverVars, clicks,
                 outdated, signedOut, voided, kept, discarded>>

-----------------------------------------------------------------------------
\* The worker thread.

\* Everything a step of the worker leaves alone.
AskedOnly == UNCHANGED <<attempted, refresh, asker, ui, ending, clicks, signedOut, kept,
                         discarded>>
WorkerOnly == AskedOnly /\ UNCHANGED voided

TakeOrder ==
  /\ agent.at = "idle" /\ ~ending /\ orders # <<>> /\ orders' = Tail(orders)
  /\ LET order == Head(orders)
         useless == order.generation # generation \/ ~conf.key \/ conf.token # None
         At(place) == [at |-> place, command |-> order.command, token |-> order.token,
                       generation |-> order.generation]
     IN agent' = CASE order.command = "signIn" -> At("starting")
                   [] order.command = "logout" -> At("revoking")
                   [] order.command = "exchange" -> IF useless THEN IdleAgent ELSE At("exchanging")
  /\ WorkerOnly /\ UNCHANGED <<conf, generation, flow, serverVars, outdated, dropped>>

\* The answer to StartAuthorization.
StartAnswer ==
  /\ agent.at = "starting"
  /\ \/ flow' = [flow EXCEPT !.state = "error"] /\ agent' = IdleAgent
     \/ /\ flow' = [state |-> "awaiting", cancel |-> FALSE]
        /\ agent' = [agent EXCEPT !.at = "sleeping"]
  /\ voided' = FALSE
  /\ AskedOnly /\ UNCHANGED <<conf, generation, orders, serverVars, outdated, dropped>>

MayExpire == TRUE

\* PollToken between two polls, and what PollTokenOnce looks at first.
Poll ==
  /\ agent.at = "sleeping"
  /\ \/ flow.cancel /\ agent' = IdleAgent /\ UNCHANGED flow
     \/ ~flow.cancel /\ agent' = [agent EXCEPT !.at = "polling"] /\ UNCHANGED flow
  /\ WorkerOnly /\ UNCHANGED <<conf, generation, orders, serverVars, outdated, dropped>>

Expire ==
  /\ agent.at = "sleeping" /\ ~flow.cancel /\ MayExpire
  /\ flow' = [flow EXCEPT !.state = "error"] /\ agent' = IdleAgent
  /\ WorkerOnly /\ UNCHANGED <<conf, generation, orders, serverVars, outdated, dropped>>

\* Mutant: the poll does not look again whether it has been cancelled.
NotLookedAt == FALSE

CancelSeen == flow.cancel

Denied == [flow EXCEPT !.state = "error"]

\* The answer to PollTokenOnce.
PollAnswer ==
  /\ agent.at = "polling"
  /\ \/ CancelSeen /\ agent' = IdleAgent /\ UNCHANGED <<flow, serverVars>>
     \/ ~CancelSeen /\ agent' = [agent EXCEPT !.at = "sleeping"] /\ UNCHANGED <<flow, serverVars>>
     \/ ~CancelSeen /\ flow' = Denied /\ agent' = IdleAgent /\ UNCHANGED serverVars
     \/ /\ ~CancelSeen /\ Issue /\ valid' = valid \cup {issued'}
        /\ agent' = [agent EXCEPT !.at = "accepted", !.token = issued'] /\ UNCHANGED flow
  /\ WorkerOnly /\ UNCHANGED <<conf, generation, orders, outdated, dropped>>

\* The answer to ExchangeAPIKey, which another sign-in or a logout makes void.
ExchangeAnswer ==
  /\ agent.at = "exchanging"
  /\ \/ /\ flow' = IF agent.generation = generation THEN [flow EXCEPT !.state = "error"] ELSE flow
        /\ agent' = IdleAgent /\ UNCHANGED serverVars
     \/ /\ Issue /\ valid' = valid \cup {issued'}
        /\ agent' = [agent EXCEPT !.token = issued',
                     !.at = IF agent.generation = generation /\ ~ending THEN "accepted"
                            ELSE "revoking"]
        /\ UNCHANGED flow
  /\ WorkerOnly /\ UNCHANGED <<conf, generation, orders, outdated, dropped>>

\* TokenStore::SetTokens.
SetConfigTokens ==
  /\ agent.at = "accepted" /\ agent' = [agent EXCEPT !.at = "saved"]
  /\ conf' = [token |-> agent.token, key |-> FALSE]
  /\ WorkerOnly /\ UNCHANGED <<generation, flow, orders, serverVars, outdated, dropped>>

SignedIn ==
  /\ agent.at = "saved" /\ agent' = IdleAgent
  /\ generation' = generation + 1 /\ outdated' = TRUE
  /\ flow' = [flow EXCEPT !.state = "signedIn"]
  /\ WorkerOnly /\ UNCHANGED <<conf, orders, serverVars, dropped>>

\* SendLogoutRequest, which may fail and is not repeated.
RevokeAnswer ==
  /\ agent.at = "revoking" /\ agent' = IdleAgent
  /\ \/ valid' = valid \ {agent.token} /\ UNCHANGED dropped
     \/ dropped' = dropped \cup {agent.token} /\ UNCHANGED valid
  /\ WorkerOnly /\ UNCHANGED <<conf, generation, flow, orders, issued, outdated>>

Leave ==
  /\ agent.at = "idle" /\ ending /\ agent' = [IdleAgent EXCEPT !.at = "gone"]
  /\ WorkerOnly /\ UNCHANGED <<conf, generation, flow, orders, serverVars, outdated, dropped>>

-----------------------------------------------------------------------------
\* TokenStore::Refresh.

RefreshOnly == UNCHANGED <<attempted, agent, ui, ending, clicks, signedOut, voided, dropped>>

AskRefresh(t) ==
  /\ asker[t] = "idle" /\ ~ending /\ conf.token # None
  /\ IF refresh.at = "none"
     THEN /\ refresh' = [NoRefresh EXCEPT !.at = "begun", !.generation = generation]
          /\ asker' = [asker EXCEPT ![t] = "leading"] /\ outdated' = FALSE
     ELSE asker' = [asker EXCEPT ![t] = "waiting"] /\ UNCHANGED <<refresh, outdated>>
  /\ RefreshOnly /\ UNCHANGED <<conf, generation, flow, orders, serverVars, kept, discarded>>

SendRefresh ==
  /\ refresh.at = "begun"
  /\ refresh' = IF conf.token = None THEN [refresh EXCEPT !.at = "over"]
                ELSE [refresh EXCEPT !.at = "sent", !.old = conf.token]
  /\ RefreshOnly
  /\ UNCHANGED <<conf, generation, flow, orders, asker, serverVars, outdated, kept, discarded>>

RefreshAnswer ==
  /\ refresh.at = "sent"
  /\ \/ /\ refresh' = [refresh EXCEPT !.at = "over"]
        /\ UNCHANGED serverVars
     \/ /\ refresh.old \notin valid /\ refresh' = [refresh EXCEPT !.at = "rejected"]
        /\ UNCHANGED serverVars
     \/ /\ refresh.old \in valid /\ Issue
        /\ valid' = (valid \ {refresh.old}) \cup {issued'}
        /\ refresh' = [refresh EXCEPT !.at = "answered", !.new = issued']
  /\ RefreshOnly /\ UNCHANGED <<conf, generation, flow, orders, asker, outdated, kept, discarded>>

\* MarkSignedOut, whatever has happened since the request was sent.
MarkSignedOut ==
  /\ refresh.at = "rejected" /\ refresh' = [refresh EXCEPT !.at = "over"]
  /\ conf' = [token |-> None, key |-> FALSE] /\ generation' = generation + 1
  /\ flow' = [state |-> "error", cancel |-> TRUE] /\ outdated' = TRUE
  /\ RefreshOnly /\ UNCHANGED <<orders, asker, serverVars, kept, discarded>>

\* QueueLogoutForRotatedToken.
LogoutForRotated(old, new) ==
  LET waiting == {i \in DOMAIN orders : orders[i].command = "logout" /\ orders[i].token = old}
  IN IF waiting = {} THEN Append(orders, Order("logout", new))
     ELSE [orders EXCEPT ![CHOOSE i \in waiting : \A j \in waiting : i <= j].token = new]

ApplyRefresh ==
  /\ refresh.at = "answered"
  /\ IF refresh.generation = generation
     THEN /\ conf' = [token |-> refresh.new, key |-> FALSE]
          /\ refresh' = [refresh EXCEPT !.at = "applied"]
          /\ kept' = kept \cup {refresh.new} /\ UNCHANGED <<orders, discarded>>
     ELSE /\ orders' = LogoutForRotated(refresh.old, refresh.new)
          /\ discarded' = discarded \cup {refresh.new}
          /\ refresh' = [refresh EXCEPT !.at = "over"] /\ UNCHANGED <<conf, kept>>
  /\ RefreshOnly /\ UNCHANGED <<generation, flow, asker, serverVars, outdated>>

RefreshSucceeded ==
  /\ refresh.at = "applied" /\ refresh' = [refresh EXCEPT !.at = "over"]
  /\ flow' = [flow EXCEPT !.state = "signedIn"]
  /\ RefreshOnly
  /\ UNCHANGED <<conf, generation, orders, asker, serverVars, outdated, kept, discarded>>

\* Mutant: the waiters are not notified.
LeaderOnly == [t \in Refreshers |-> IF asker[t] = "leading" THEN "idle" ELSE asker[t]]

AllWoken == [t \in Refreshers |-> "idle"]

FinishRefresh ==
  /\ refresh.at = "over" /\ refresh' = NoRefresh /\ asker' = AllWoken
  /\ RefreshOnly
  /\ UNCHANGED <<conf, generation, flow, orders, serverVars, outdated, kept, discarded>>

-----------------------------------------------------------------------------
UserStep == BeginSignIn \/ CancelAuthorization \/ Logout \/ SyncFromConfig \/ Shutdown
LogoutStep == ClearConfig \/ FinishLogout
AgentStep ==
  \/ TakeOrder \/ StartAnswer \/ Poll \/ PollAnswer \/ ExchangeAnswer
  \/ SetConfigTokens \/ SignedIn \/ RevokeAnswer \/ Leave
RefreshStep ==
  SendRefresh \/ RefreshAnswer \/ MarkSignedOut \/ ApplyRefresh \/ RefreshSucceeded \/ FinishRefresh

AuthNext ==
  \/ UserStep \/ LogoutStep \/ AgentStep \/ Expire
  \/ (\E t \in Refreshers : AskRefresh(t)) \/ RefreshStep

\* Every request is answered or times out, and a code expires by the clock however it is polled.
AuthFairness ==
  /\ WF_authVars(LogoutStep) /\ WF_authVars(AgentStep) /\ WF_authVars(RefreshStep)
  /\ SF_authVars(Expire)

AuthSpec == AuthInit /\ [][AuthNext]_authVars /\ AuthFairness

-----------------------------------------------------------------------------
AuthTypeOK ==
  /\ conf \in [token : TokenIds \cup {None}, key : BOOLEAN] /\ generation \in Nat
  /\ flow \in [state : {"signedOut", "signedIn", "awaiting", "migrating", "error"},
               cancel : BOOLEAN]
  /\ orders \in Seq([command : {"signIn", "exchange", "logout"}, token : TokenIds \cup {None},
                     generation : Nat])
  /\ agent.at \in {"idle", "starting", "sleeping", "polling", "accepted", "saved", "exchanging",
                   "revoking", "gone"}
  /\ refresh.at \in {"none", "begun", "sent", "rejected", "answered", "applied", "over"}
  /\ asker \in [Refreshers -> {"idle", "leading", "waiting"}]
  /\ issued \in 0..MaxTokens /\ valid \subseteq 1..issued

\* A code is shown only while the worker polls for it.
CodeIsPolled == Is("awaiting") => agent.at \in {"sleeping", "polling", "accepted", "saved"}

\* A sign-in that was cancelled while its code was polled is not completed by a late approval.
CancelledIsNotCompleted ==
  voided => ~(agent.command = "signIn" /\ agent.at \in {"accepted", "saved"})

\* A refresh that began before a sign-out or another sign-in was complete does not write its
\* token over what that left.
OutdatedRefreshKeepsOut == [][refresh.at = "answered" /\ conf' # conf /\ agent' = agent /\ ui' = ui
                               => ~outdated]_authVars

\* The token a refresh did not keep is revoked, or its logout waits or is under way, unless a
\* new sign-in or the end of the program emptied the queue or the request failed.
DiscardedIsRevoked ==
  discarded \cap valid \subseteq
    Queued("logout") \cup dropped \cup (IF agent.at = "revoking" THEN {agent.token} ELSE {})

\* A thread that waits for another thread's refresh gets its result.
WaitersGetResult == \A t \in Refreshers : asker[t] = "waiting" ~> asker[t] = "idle"

\* Shutdown's join returns: a code that nobody approves holds it up no longer than it is valid.
AuthEnds == ending ~> agent.at = "gone"

\* "Refresh completing after logout stays signed out" (AccountClientTest).
LogoutIsFinal == signedOut => conf.token \notin kept
=============================================================================
