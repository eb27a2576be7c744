----------------------------- MODULE Parts_proofs -----------------------------
(***************************************************************************)
(* More proofs about the components that MCSafety checks together: signing *)
(* in, the uploads of replays and milestones, the overlay's keys, the      *)
(* updater, the settings, the start-up of the database, its queue, and the *)
(* history window.  Each has an inductive invariant of its own, kept by    *)
(* its own steps whatever the others do.                                   *)
(***************************************************************************)
EXTENDS Workers_proofs, WellFoundedInduction

-----------------------------------------------------------------------------
\* The account.

FlowStates == {"signedOut", "signedIn", "awaiting", "migrating", "error"}
AnyToken == TokenIds \cup {None}
Commands == {"signIn", "exchange", "logout"}
Orders == [command : Commands, token : AnyToken, generation : Nat]
Configs == [token : AnyToken, key : BOOLEAN]
Flows == [state : FlowStates, cancel : BOOLEAN]
Agents ==
  [at : {"idle", "starting", "sleeping", "polling", "accepted", "saved", "exchanging", "revoking",
         "gone"}, command : Commands \cup {"none"}, token : AnyToken, generation : Nat]
Refreshes ==
  [at : {"none", "begun", "sent", "rejected", "answered", "applied", "over"},
   generation : Nat, old : AnyToken, new : AnyToken]
SettingsPlaces == [at : {"idle", "clearing", "cleared"}, token : AnyToken]

\* AuthTypeOK with the locals of the threads, which it leaves out.
AuthShape ==
  /\ conf \in Configs /\ generation \in Nat /\ flow \in Flows /\ orders \in Seq(Orders)
  /\ agent \in Agents /\ refresh \in Refreshes /\ ui \in SettingsPlaces
  /\ asker \in [Refreshers -> {"idle", "leading", "waiting"}]
  /\ issued \in 0..MaxTokens /\ valid \subseteq 1..issued
  /\ outdated \in BOOLEAN /\ voided \in BOOLEAN

\* A flow that was cancelled shows no code; and a poll of a code that was cancelled will see it.
CancelIsSeen ==
  /\ flow.cancel => ~Is("awaiting")
  /\ voided /\ agent.at \in {"sleeping", "polling"} => flow.cancel
  /\ agent.at = "exchanging" => agent.command = "exchange"

\* The saved API key is there only before the first session.
KeyComesFirst == conf.key => conf.token = None /\ refresh.at = "none"

\* A refresh knows whether a logout or a sign-in was completed since it began.
OutdatedIsKnown ==
  refresh.at # "none" =>
    refresh.generation <= generation /\ (outdated => refresh.generation < generation)

\* The token a refresh replaced is no longer accepted, and its own was given out.
TokensGivenOut ==
  /\ discarded \subseteq 1..issued
  /\ refresh.at = "answered" => refresh.old \notin valid /\ refresh.old <= issued
                                /\ refresh.new \in 1..issued

AuthInv ==
  /\ AuthShape /\ CancelIsSeen /\ KeyComesFirst /\ OutdatedIsKnown /\ TokensGivenOut
  /\ CodeIsPolled /\ CancelledIsNotCompleted /\ DiscardedIsRevoked

LEMMA ShapeIsTyped == AuthShape => AuthTypeOK
BY DEF AuthShape, AuthTypeOK, Configs, Flows, FlowStates, Orders, Commands, AnyToken, Agents, Refreshes

\* The values that steps give to the locals.
LEMMA AuthConstants ==
  /\ None \in AnyToken /\ IdleAgent \in Agents /\ NoRefresh \in Refreshes
  /\ Cancelled \in Flows /\ [token |-> None, key |-> FALSE] \in Configs
  /\ \A t \in AnyToken : [token |-> t, key |-> FALSE] \in Configs
  /\ \A s \in FlowStates, c \in BOOLEAN : [state |-> s, cancel |-> c] \in Flows
  /\ \A t \in AnyToken, p \in {"idle", "clearing"} : [at |-> p, token |-> t] \in SettingsPlaces
BY DEF None, AnyToken, IdleAgent, Agents, Commands, NoRefresh, Refreshes, Cancelled, Flows,
       FlowStates, Configs, SettingsPlaces

LEMMA AuthInitially == AuthInit => AuthInv
<1> SUFFICES ASSUME AuthInit PROVE AuthInv
  OBVIOUS
<1>1. orders \in Seq(Orders)
  BY EmptySeq DEF AuthInit
<1>2. /\ conf \in Configs /\ issued \in 0..MaxTokens /\ valid \subseteq 1..issued
      /\ (conf.key => conf.token = None)
  <2>1. CASE conf = [token |-> None, key |-> TRUE] /\ issued = 0 /\ valid = {}
    BY <2>1, AccountAuthAssumption DEF AnyToken, TokenIds, None, Configs
  <2>2. CASE conf = [token |-> 1, key |-> FALSE] /\ issued = 1 /\ valid = {1}
    BY <2>2, AccountAuthAssumption DEF AnyToken, TokenIds, None, Configs
  <2>3. QED
    BY <2>1, <2>2 DEF AuthInit
<1>3. flow.cancel = FALSE /\ flow.state \in {"signedOut", "signedIn"} /\ flow \in Flows
  BY DEF AuthInit, Flows, FlowStates
<1>4. agent.at = "idle" /\ refresh.at = "none"
  BY DEF AuthInit, IdleAgent, NoRefresh
<1>5. AuthShape
  BY <1>1, <1>2, <1>3, AuthConstants DEF AuthInit, AuthShape
<1>6. CancelIsSeen /\ KeyComesFirst /\ OutdatedIsKnown /\ TokensGivenOut
  BY <1>2, <1>3, <1>4
     DEF AuthInit, CancelIsSeen, KeyComesFirst, OutdatedIsKnown, TokensGivenOut, Is
<1>7. CodeIsPolled /\ CancelledIsNotCompleted /\ DiscardedIsRevoked
  BY <1>3, <1>4 DEF AuthInit, CodeIsPolled, CancelledIsNotCompleted, DiscardedIsRevoked, Is
<1>8. QED
  BY <1>5, <1>6, <1>7 DEF AuthInv

\* What is appended to the worker's queue comes after what waits there.
LEMMA QueuedTokens ==
  ASSUME NEW waiting \in Seq(Orders), NEW order \in Orders
  PROVE  /\ Append(waiting, order) \in Seq(Orders) /\ <<order>> \in Seq(Orders)
         /\ \A i \in DOMAIN waiting : i \in DOMAIN Append(waiting, order)
                                      /\ Append(waiting, order)[i] = waiting[i]
         /\ Len(waiting) + 1 \in DOMAIN Append(waiting, order)
         /\ Append(waiting, order)[Len(waiting) + 1] = order
  BY AppendProperties

\* Of some positions of a sequence one is the first.
LEMMA FirstOfSome ==
  ASSUME NEW S \in SUBSET Nat, S # {}
  PROVE  LET first == CHOOSE i \in S : \A j \in S : i <= j
         IN first \in S /\ \A j \in S : first <= j
<1>1. IsWellFoundedOn(OpToRel(<, Nat), Nat)
  BY NatLessThanWellFounded, Zenon
<1>2. PICK i \in S : \A j \in S : <<j, i>> \notin OpToRel(<, Nat)
  BY <1>1, WFMin, Zenon
<1>3. \A j \in S : ~(j < i)
  BY <1>2, Zenon DEF OpToRel
<1>4. \A j \in S : i <= j
  BY <1>3
<1>5. QED
  BY <1>4

LEMMA OrderIsOrder ==
  ASSUME NEW token \in AnyToken, NEW command \in Commands, generation \in Nat
  PROVE  /\ Order(command, token) \in Orders
         /\ Order(command, token).command = command /\ Order(command, token).token = token
         /\ \A g \in Nat : [Order(command, token) EXCEPT !.generation = g] \in Orders
BY DEF Order, Orders

LEMMA OrderWithToken ==
  ASSUME NEW order \in Orders, NEW token \in AnyToken
  PROVE  /\ [order EXCEPT !.token = token] \in Orders
         /\ [order EXCEPT !.token = token].command = order.command
         /\ [order EXCEPT !.token = token].token = token
BY DEF Orders

\* QueueLogoutForRotatedToken gives a waiting logout of the old token the new one, or adds one:
\* the logouts of other tokens stay, and one of the new token waits.
LEMMA RotatedOrders ==
  ASSUME orders \in Seq(Orders), NEW was \in AnyToken, NEW new \in AnyToken, generation \in Nat
  PROVE  /\ LogoutForRotated(was, new) \in Seq(Orders)
         /\ \A i \in DOMAIN orders :
              orders[i].command = "logout" /\ orders[i].token # was
                => /\ i \in DOMAIN LogoutForRotated(was, new)
                   /\ LogoutForRotated(was, new)[i] = orders[i]
         /\ \E i \in DOMAIN LogoutForRotated(was, new) :
              /\ LogoutForRotated(was, new)[i].command = "logout"
              /\ LogoutForRotated(was, new)[i].token = new
<1> DEFINE waiting == {i \in DOMAIN orders : orders[i].command = "logout" /\ orders[i].token = was}
           first == CHOOSE i \in waiting : \A j \in waiting : i <= j
           order == Order("logout", new)
<1>1. order \in Orders /\ order.command = "logout" /\ order.token = new
  BY OrderIsOrder DEF Commands
<1>2. CASE waiting = {}
  <2>1. LogoutForRotated(was, new) = Append(orders, order)
    BY <1>2 DEF LogoutForRotated
  <2> HIDE DEF order
  <2>2. QED
    BY <1>1, <2>1, QueuedTokens
<1>3. CASE waiting # {}
  <2>1. LogoutForRotated(was, new) = [orders EXCEPT ![first].token = new]
    BY <1>3 DEF LogoutForRotated
  <2>2. waiting \subseteq Nat
    BY SeqDef
  <2>3. first \in waiting
    BY <1>3, <2>2, FirstOfSome
  <2> HIDE DEF first, order
  <2>4. first \in DOMAIN orders /\ orders[first].command = "logout" /\ orders[first].token = was
    BY <2>3
  <2> DEFINE renamed == [orders[first] EXCEPT !.token = new]
  <2>5. orders[first] \in Orders
    BY <2>4, ElementOfSeq
  <2>6. renamed \in Orders /\ renamed.command = "logout" /\ renamed.token = new
    BY <2>4, <2>5, OrderWithToken
  <2>7. LogoutForRotated(was, new) = [orders EXCEPT ![first] = renamed]
    BY <2>1, Zenon
  <2> HIDE DEF renamed
  <2>8. [orders EXCEPT ![first] = renamed] \in Seq(Orders)
    BY <2>4, <2>6, ExceptSeq
  <2>9. /\ DOMAIN [orders EXCEPT ![first] = renamed] = DOMAIN orders
        /\ [orders EXCEPT ![first] = renamed][first] = renamed
        /\ \A i \in DOMAIN orders \ {first} : [orders EXCEPT ![first] = renamed][i] = orders[i]
    BY <2>4
  <2>10. QED
    BY <2>4, <2>6, <2>7, <2>8, <2>9
<1>4. QED
  BY <1>2, <1>3

\* The shape of the state is kept by every step.
LEMMA AuthShapeKept ==
  ASSUME AuthShape, AuthNext
  PROVE  AuthShape'
<1>0. /\ conf \in Configs /\ generation \in Nat /\ flow \in Flows /\ orders \in Seq(Orders)
      /\ agent \in Agents /\ refresh \in Refreshes /\ ui \in SettingsPlaces
      /\ conf.token \in AnyToken /\ ui.token \in AnyToken /\ agent.token \in AnyToken
      /\ refresh.old \in AnyToken /\ refresh.new \in AnyToken
  BY DEF AuthShape, Configs, SettingsPlaces, Agents, Refreshes
<1>1. ASSUME Issue
      PROVE  /\ issued' \in 0..MaxTokens /\ issued' \in AnyToken
             /\ issued' \in 1..issued' /\ 1..issued \subseteq 1..issued'
  BY <1>1, AccountAuthAssumption DEF Issue, AuthShape, AnyToken, TokenIds
<1>2. generation + 1 \in Nat /\ "logout" \in Commands /\ "exchange" \in Commands
      /\ "signIn" \in Commands /\ <<>> \in Seq(Orders)
  BY <1>0, EmptySeq DEF Commands
<1>3. \A s \in FlowStates : [flow EXCEPT !.state = s] \in Flows
  BY <1>0 DEF Flows
<1>4. \A s \in {"signedOut", "signedIn", "awaiting", "migrating", "error"} : s \in FlowStates
  BY DEF FlowStates
<1>5. ASSUME BeginSignIn PROVE AuthShape'
  <2>1. orders' \in Seq(Orders)
    BY <1>0, <1>2, <1>5, QueuedTokens, OrderIsOrder, AuthConstants DEF BeginSignIn
  <2>2. QED
    BY <1>2, <1>5, <2>1, AuthConstants DEF BeginSignIn, AuthShape, serverVars
<1>6. ASSUME CancelAuthorization \/ Logout \/ ClearConfig PROVE AuthShape'
  <2>1. CASE CancelAuthorization
    BY <2>1, AuthConstants DEF CancelAuthorization, AuthShape, serverVars
  <2>2. CASE Logout
    BY <1>0, <2>2, AuthConstants DEF Logout, AuthShape, serverVars, historyVars
  <2>3. CASE ClearConfig
    <3>1. [ui EXCEPT !.at = "cleared"] \in SettingsPlaces
      BY <1>0 DEF SettingsPlaces
    <3>2. QED
      BY <2>3, <3>1, AuthConstants DEF ClearConfig, AuthShape, serverVars, historyVars
  <2>4. QED
    BY <1>6, <2>1, <2>2, <2>3
<1>7. ASSUME FinishLogout PROVE AuthShape'
  <2>1. orders' \in Seq(Orders)
    BY <1>0, <1>2, <1>7, QueuedTokens, OrderIsOrder DEF FinishLogout, NextGeneration
  <2>2. QED
    BY <1>2, <1>3, <1>4, <1>7, <2>1, AuthConstants
       DEF FinishLogout, NextGeneration, AuthShape, serverVars
<1>8. ASSUME SyncFromConfig PROVE AuthShape'
  <2>1. Append(orders, Order("exchange", None)) \in Seq(Orders)
    BY <1>0, <1>2, QueuedTokens, OrderIsOrder, AuthConstants
  <2>2. [conf EXCEPT !.key = FALSE] \in Configs
    BY <1>0 DEF Configs
  <2>3. /\ conf' \in {conf, [conf EXCEPT !.key = FALSE]}
        /\ generation' \in {generation, generation + 1} /\ outdated' \in {outdated, TRUE}
        /\ orders' \in {orders, Append(orders, Order("exchange", None))}
        /\ \/ flow' = flow
           \/ \E s \in {"signedOut", "signedIn", "migrating"} : flow' = [flow EXCEPT !.state = s]
    BY <1>8 DEF SyncFromConfig
  <2>4. conf' \in Configs
    BY <1>0, <2>2, <2>3
  <2>5. flow' \in Flows
    BY <1>0, <1>3, <1>4, <2>3, Zenon
  <2>6. generation' \in Nat /\ orders' \in Seq(Orders)
    BY <1>0, <1>2, <2>1, <2>3, Zenon
  <2>7. outdated' \in BOOLEAN
    BY <2>3, Zenon DEF AuthShape
  <2>8. QED
    BY <1>8, <2>4, <2>5, <2>6, <2>7 DEF SyncFromConfig, AuthShape, serverVars
<1>9. ASSUME Shutdown PROVE AuthShape'
  BY <1>2, <1>9 DEF Shutdown, AuthShape, serverVars
<1>10. ASSUME TakeOrder PROVE AuthShape'
  <2>1. Head(orders) \in Orders /\ Tail(orders) \in Seq(Orders)
    BY <1>0, <1>10, HeadTailProperties DEF TakeOrder
  <2>2. agent' \in Agents
    BY <1>10, <2>1, AuthConstants DEF TakeOrder, Agents, Orders, Commands
  <2>3. QED
    BY <1>10, <2>1, <2>2 DEF TakeOrder, WorkerOnly, AskedOnly, AuthShape, serverVars
<1>11. ASSUME StartAnswer \/ Poll \/ Expire \/ SetConfigTokens \/ SignedIn \/ Leave PROVE AuthShape'
  <2>1. agent' \in Agents
    BY <1>0, <1>11, AuthConstants
       DEF StartAnswer, Poll, Expire, SetConfigTokens, SignedIn, Leave, Agents
  <2>2. flow' \in Flows /\ conf' \in Configs
    BY <1>0, <1>3, <1>4, <1>11, AuthConstants
       DEF StartAnswer, Poll, Expire, SetConfigTokens, SignedIn, Leave
  <2>3. QED
    BY <1>2, <1>11, <2>1, <2>2
       DEF StartAnswer, Poll, Expire, SetConfigTokens, SignedIn, Leave, WorkerOnly,
           AskedOnly, AuthShape, serverVars
<1>12. ASSUME PollAnswer \/ ExchangeAnswer PROVE AuthShape'
  <2>1. issued' \in 0..MaxTokens /\ valid' \subseteq 1..issued'
    BY <1>1, <1>12 DEF PollAnswer, ExchangeAnswer, serverVars, AuthShape
  <2>2. agent' \in Agents
    BY <1>0, <1>1, <1>12, AuthConstants DEF PollAnswer, ExchangeAnswer, Agents
  <2>3. flow' \in Flows
    BY <1>0, <1>3, <1>4, <1>12 DEF PollAnswer, ExchangeAnswer, Denied
  <2>4. QED
    BY <1>12, <2>1, <2>2, <2>3 DEF PollAnswer, ExchangeAnswer, WorkerOnly, AskedOnly, AuthShape
<1>13. ASSUME RevokeAnswer PROVE AuthShape'
  BY <1>13, AuthConstants DEF RevokeAnswer, WorkerOnly, AskedOnly, AuthShape
<1>14. ASSUME NEW t \in Refreshers, AskRefresh(t) PROVE AuthShape'
  <2>1. refresh' \in Refreshes
    BY <1>0, <1>14, AuthConstants DEF AskRefresh, Refreshes
  <2>2. QED
    BY <1>14, <2>1 DEF AskRefresh, RefreshOnly, AuthShape, serverVars
<1>15. ASSUME RefreshAnswer PROVE AuthShape'
  <2>1. issued' \in 0..MaxTokens /\ valid' \subseteq 1..issued'
    BY <1>1, <1>15 DEF RefreshAnswer, serverVars, AuthShape
  <2>2. refresh' \in Refreshes
    BY <1>0, <1>1, <1>15 DEF RefreshAnswer, Refreshes
  <2>3. QED
    BY <1>15, <2>1, <2>2 DEF RefreshAnswer, RefreshOnly, AuthShape
<1>16. ASSUME SendRefresh \/ MarkSignedOut \/ RefreshSucceeded \/ FinishRefresh PROVE AuthShape'
  <2>1. refresh' \in Refreshes
    BY <1>0, <1>16, AuthConstants
       DEF SendRefresh, MarkSignedOut, RefreshSucceeded, FinishRefresh, Refreshes
  <2>2. flow' \in Flows /\ conf' \in Configs
    BY <1>0, <1>3, <1>4, <1>16, AuthConstants
       DEF SendRefresh, MarkSignedOut, RefreshSucceeded, FinishRefresh
  <2>3. QED
    BY <1>2, <1>16, <2>1, <2>2
       DEF SendRefresh, MarkSignedOut, RefreshSucceeded, FinishRefresh, AllWoken, RefreshOnly,
           AuthShape, serverVars
<1>17. ASSUME ApplyRefresh PROVE AuthShape'
  <2>1. LogoutForRotated(refresh.old, refresh.new) \in Seq(Orders)
    BY <1>0, RotatedOrders
  <2>2. refresh' \in Refreshes /\ conf' \in Configs
    BY <1>0, <1>17, AuthConstants DEF ApplyRefresh, Refreshes
  <2>3. QED
    BY <1>17, <2>1, <2>2 DEF ApplyRefresh, RefreshOnly, AuthShape, serverVars
<1>18. QED
  BY <1>5, <1>6, <1>7, <1>8, <1>9, <1>10, <1>11, <1>12, <1>13, <1>14, <1>15, <1>16, <1>17
     DEF AuthNext, UserStep, LogoutStep, AgentStep, RefreshStep

\* Which tokens wait to be revoked, when an order is added, taken or renamed.
LEMMA QueuedIs ==
  \A t : t \in Queued("logout")
           <=> \E i \in DOMAIN orders : orders[i].command = "logout" /\ orders[i].token = t
BY DEF Queued

LEMMA TakenTokens ==
  ASSUME orders \in Seq(Orders), orders # <<>>, orders' = Tail(orders)
  PROVE  \A t \in Queued("logout") :
           \/ t \in Queued("logout")'
           \/ Head(orders).command = "logout" /\ Head(orders).token = t
<1> SUFFICES ASSUME NEW t \in Queued("logout"),
                    ~(Head(orders).command = "logout" /\ Head(orders).token = t)
             PROVE  t \in Queued("logout")'
  OBVIOUS
<1>1. PICK i \in DOMAIN orders : orders[i].command = "logout" /\ orders[i].token = t
  BY QueuedIs
<1>2. /\ Head(orders) = orders[1] /\ Tail(orders) \in Seq(Orders)
      /\ Len(Tail(orders)) = Len(orders) - 1
      /\ \A j \in 1 .. Len(Tail(orders)) : Tail(orders)[j] = orders[j + 1]
  BY HeadTailProperties
<1>3. i \in 2 .. Len(orders)
  BY <1>1, <1>2, LenProperties
<1>4. i - 1 \in DOMAIN Tail(orders) /\ Tail(orders)[i - 1] = orders[i]
  BY <1>2, <1>3, LenProperties
<1>5. QED
  BY <1>1, <1>4 DEF Queued

LEMMA AddedTokens ==
  ASSUME orders \in Seq(Orders), NEW order \in Orders, orders' = Append(orders, order)
  PROVE  Queued("logout") \subseteq Queued("logout")'
<1> SUFFICES ASSUME NEW t \in Queued("logout") PROVE t \in Queued("logout")'
  OBVIOUS
<1>1. PICK i \in DOMAIN orders : orders[i].command = "logout" /\ orders[i].token = t
  BY QueuedIs
<1>2. i \in DOMAIN orders' /\ orders'[i] = orders[i]
  BY QueuedTokens
<1>3. QED
  BY <1>1, <1>2 DEF Queued

LEMMA RenamedTokens ==
  ASSUME orders \in Seq(Orders), NEW was \in AnyToken, NEW new \in AnyToken, generation \in Nat,
         orders' = LogoutForRotated(was, new)
  PROVE  (Queued("logout") \ {was}) \cup {new} \subseteq Queued("logout")'
<1>1. /\ \A i \in DOMAIN orders :
           orders[i].command = "logout" /\ orders[i].token # was
             => i \in DOMAIN orders' /\ orders'[i] = orders[i]
      /\ \E i \in DOMAIN orders' : orders'[i].command = "logout" /\ orders'[i].token = new
  BY RotatedOrders
<1>2. ASSUME NEW t \in Queued("logout"), t # was PROVE t \in Queued("logout")'
  <2>1. PICK i \in DOMAIN orders : orders[i].command = "logout" /\ orders[i].token = t
    BY QueuedIs
  <2>2. QED
    BY <1>1, <1>2, <2>1 DEF Queued
<1>3. new \in Queued("logout")'
  BY <1>1 DEF Queued
<1>4. QED
  BY <1>2, <1>3

\* What changing a field leaves.
LEMMA AuthFields ==
  ASSUME AuthShape
  PROVE  /\ \A s : /\ [flow EXCEPT !.state = s].state = s
                   /\ [flow EXCEPT !.state = s].cancel = flow.cancel
         /\ \A p : /\ [agent EXCEPT !.at = p].at = p
                   /\ [agent EXCEPT !.at = p].command = agent.command
                   /\ [agent EXCEPT !.at = p].token = agent.token
         /\ \A p, t : /\ [agent EXCEPT !.token = t, !.at = p].at = p
                      /\ [agent EXCEPT !.at = p, !.token = t].at = p
                      /\ [agent EXCEPT !.token = t, !.at = p].command = agent.command
                      /\ [agent EXCEPT !.at = p, !.token = t].command = agent.command
         /\ \A p : /\ [refresh EXCEPT !.at = p].at = p
                   /\ [refresh EXCEPT !.at = p].generation = refresh.generation
                   /\ [refresh EXCEPT !.at = p].old = refresh.old
                   /\ [refresh EXCEPT !.at = p].new = refresh.new
         /\ \A p, t : /\ [refresh EXCEPT !.at = p, !.old = t].at = p
                      /\ [refresh EXCEPT !.at = p, !.old = t].generation = refresh.generation
                      /\ [refresh EXCEPT !.at = p, !.new = t].at = p
                      /\ [refresh EXCEPT !.at = p, !.new = t].generation = refresh.generation
                      /\ [refresh EXCEPT !.at = p, !.new = t].old = refresh.old
                      /\ [refresh EXCEPT !.at = p, !.new = t].new = t
         /\ [conf EXCEPT !.key = FALSE].key = FALSE
         /\ [conf EXCEPT !.key = FALSE].token = conf.token
         /\ generation \in Nat /\ refresh.generation \in Nat
<1>1. flow \in Flows /\ agent \in Agents /\ refresh \in Refreshes /\ conf \in Configs
      /\ generation \in Nat
  BY DEF AuthShape
<1>2. \A s : /\ [flow EXCEPT !.state = s].state = s
             /\ [flow EXCEPT !.state = s].cancel = flow.cancel
  BY <1>1 DEF Flows
<1>3. /\ \A p : /\ [agent EXCEPT !.at = p].at = p
                /\ [agent EXCEPT !.at = p].command = agent.command
                /\ [agent EXCEPT !.at = p].token = agent.token
      /\ \A p, t : /\ [agent EXCEPT !.token = t, !.at = p].at = p
                   /\ [agent EXCEPT !.at = p, !.token = t].at = p
                   /\ [agent EXCEPT !.token = t, !.at = p].command = agent.command
                   /\ [agent EXCEPT !.at = p, !.token = t].command = agent.command
  BY <1>1 DEF Agents
<1>4. /\ \A p : /\ [refresh EXCEPT !.at = p].at = p
                /\ [refresh EXCEPT !.at = p].generation = refresh.generation
                /\ [refresh EXCEPT !.at = p].old = refresh.old
                /\ [refresh EXCEPT !.at = p].new = refresh.new
      /\ \A p, t : /\ [refresh EXCEPT !.at = p, !.old = t].at = p
                   /\ [refresh EXCEPT !.at = p, !.old = t].generation = refresh.generation
                   /\ [refresh EXCEPT !.at = p, !.new = t].at = p
                   /\ [refresh EXCEPT !.at = p, !.new = t].generation = refresh.generation
                   /\ [refresh EXCEPT !.at = p, !.new = t].old = refresh.old
                   /\ [refresh EXCEPT !.at = p, !.new = t].new = t
      /\ refresh.generation \in Nat
  BY <1>1 DEF Refreshes
<1>5. /\ [conf EXCEPT !.key = FALSE].key = FALSE
      /\ [conf EXCEPT !.key = FALSE].token = conf.token
  BY <1>1 DEF Configs
<1>6. QED
  BY <1>1, <1>2, <1>3, <1>4, <1>5

\* No step lets an earlier sign-in, code or refresh count for a later one.
LEMMA AuthFlowKept ==
  ASSUME AuthInv, AuthNext
  PROVE  (CancelIsSeen /\ KeyComesFirst /\ OutdatedIsKnown /\ CodeIsPolled
            /\ CancelledIsNotCompleted)'
<1> DEFINE Kept == (CancelIsSeen /\ KeyComesFirst /\ OutdatedIsKnown /\ CodeIsPolled
                      /\ CancelledIsNotCompleted)'
<1>a. AuthShape /\ AuthShape'
  BY AuthShapeKept DEF AuthInv
<1>t. flow \in Flows /\ agent \in Agents /\ refresh \in Refreshes /\ conf \in Configs
  BY <1>a DEF AuthShape
<1>b. {flow.cancel, conf.key, voided, outdated} \subseteq BOOLEAN
  BY <1>a DEF AuthShape, Flows, Configs
<1>c. {flow'.cancel, conf'.key, voided', outdated'} \subseteq BOOLEAN
  BY <1>a DEF AuthShape, Flows, Configs
<1>0. /\ AuthShape /\ generation \in Nat /\ refresh.generation \in Nat
      /\ CancelIsSeen /\ KeyComesFirst /\ OutdatedIsKnown /\ CodeIsPolled
      /\ CancelledIsNotCompleted
      /\ flow.cancel \in BOOLEAN /\ conf.key \in BOOLEAN
      /\ voided \in BOOLEAN /\ outdated \in BOOLEAN
      /\ flow'.cancel \in BOOLEAN /\ conf'.key \in BOOLEAN
      /\ voided' \in BOOLEAN /\ outdated' \in BOOLEAN
  BY <1>a, <1>b, <1>c, AuthFields DEF AuthInv
<1> USE DEF CancelIsSeen, KeyComesFirst, OutdatedIsKnown, CodeIsPolled, CancelledIsNotCompleted, Is
<1>1. ASSUME BeginSignIn PROVE Kept
  <2>1. /\ flow'.cancel /\ flow'.state = "signedOut" /\ generation' = generation + 1
        /\ outdated' = TRUE /\ voided' = FALSE /\ UNCHANGED <<conf, agent, refresh>>
    BY <1>1 DEF BeginSignIn, Cancelled
  <2>2. QED
    BY <1>0, <2>1
<1>2. ASSUME CancelAuthorization \/ Logout \/ ClearConfig \/ Shutdown PROVE Kept
  <2>1. /\ UNCHANGED <<agent, refresh, generation, outdated>>
        /\ conf' = conf \/ ~conf'.key
        /\ \/ flow'.cancel /\ flow'.state = "signedOut"
           \/ UNCHANGED flow
        /\ \/ UNCHANGED voided
           \/ voided' = (agent.at \in {"sleeping", "polling"}) /\ flow'.cancel
    BY <1>2 DEF CancelAuthorization, Logout, ClearConfig, Shutdown, Cancelled, historyVars
  <2>2. QED
    BY <1>0, <2>1
<1>3. ASSUME FinishLogout PROVE Kept
  <2>1. /\ flow'.cancel = flow.cancel /\ flow'.state = "signedOut"
        /\ generation' = generation + 1 /\ UNCHANGED <<conf, agent, refresh, voided>>
    BY <1>0, <1>3, AuthFields DEF FinishLogout, NextGeneration
  <2>2. QED
    BY <1>0, <2>1
<1>4. ASSUME SyncFromConfig PROVE Kept
  <2>1. /\ UNCHANGED <<agent, refresh, voided>>
        /\ conf' = conf \/ ~conf'.key
        /\ \/ generation' = generation /\ outdated' = outdated
           \/ generation' = generation + 1 /\ outdated' = TRUE
        /\ \/ flow' = flow
           \/ \E s \in {"signedOut", "signedIn", "migrating"} : flow' = [flow EXCEPT !.state = s]
    BY <1>0, <1>4, AuthFields DEF SyncFromConfig
  <2>2. flow'.cancel = flow.cancel /\ (flow'.state = "awaiting" => flow.state = "awaiting")
    <3>1. CASE flow' = flow
      BY <3>1
    <3>2. ASSUME NEW s \in {"signedOut", "signedIn", "migrating"}, flow' = [flow EXCEPT !.state = s]
          PROVE  flow'.cancel = flow.cancel /\ flow'.state # "awaiting"
      BY <1>0, <3>2, AuthFields
    <3>3. QED
      BY <2>1, <3>1, <3>2
  <2>3. QED
    BY <1>0, <2>1, <2>2
<1>5. ASSUME TakeOrder PROVE Kept
  <2>1. /\ UNCHANGED <<conf, generation, flow, refresh, outdated, voided>> /\ agent.at = "idle"
    BY <1>5 DEF TakeOrder, WorkerOnly, AskedOnly
  <2>2. Head(orders).command \in Commands
    <3>1. Head(orders) \in Orders
      BY <1>0, <1>5, HeadTailProperties DEF TakeOrder, AuthShape
    <3>2. QED
      BY <3>1 DEF Orders
  <2>3. /\ agent'.at \in {"idle", "starting", "exchanging", "revoking"}
        /\ agent'.at = "exchanging" => agent'.command = "exchange"
    BY <1>5, <2>2 DEF TakeOrder, IdleAgent, Commands
  <2>4. QED
    BY <1>0, <2>1, <2>3
<1>6. ASSUME StartAnswer PROVE Kept
  <2>1. UNCHANGED <<conf, generation, refresh, outdated>> /\ voided' = FALSE
    BY <1>6 DEF StartAnswer, AskedOnly
  <2>2. CASE agent' = IdleAgent /\ flow' = [flow EXCEPT !.state = "error"]
    <3>1. agent'.at = "idle" /\ flow'.state = "error"
      BY <1>0, <2>2, AuthFields DEF IdleAgent
    <3>2. QED
      BY <1>0, <2>1, <3>1
  <2>3. CASE /\ agent' = [agent EXCEPT !.at = "sleeping"]
             /\ flow' = [state |-> "awaiting", cancel |-> FALSE]
    <3>1. agent'.at = "sleeping" /\ ~flow'.cancel
      BY <1>0, <2>3, AuthFields
    <3>2. QED
      BY <1>0, <2>1, <3>1
  <2>4. QED
    BY <1>6, <2>2, <2>3 DEF StartAnswer
<1>7. ASSUME Poll \/ Expire \/ PollAnswer PROVE Kept
  <2>1. /\ UNCHANGED <<conf, generation, refresh, outdated, voided>>
        /\ agent.at \in {"sleeping", "polling"}
        /\ flow' = flow \/ flow' = [flow EXCEPT !.state = "error"]
        /\ \/ agent' = IdleAgent /\ (flow.cancel \/ flow' = [flow EXCEPT !.state = "error"])
           \/ ~flow.cancel /\ agent' = [agent EXCEPT !.at = "sleeping"]
           \/ ~flow.cancel /\ agent' = [agent EXCEPT !.at = "polling"]
           \/ ~flow.cancel /\ agent' = [agent EXCEPT !.at = "accepted", !.token = issued']
    BY <1>7 DEF Poll, Expire, PollAnswer, CancelSeen, Denied, WorkerOnly, AskedOnly
  <2>2. /\ flow'.cancel = flow.cancel
        /\ flow'.state = flow.state \/ flow'.state = "error"
    BY <1>t, <2>1 DEF Flows
  <2>3. \/ agent'.at = "idle" /\ (flow.cancel \/ flow'.state = "error")
        \/ ~flow.cancel /\ agent'.at \in {"sleeping", "polling", "accepted"}
    <3>1. /\ [agent EXCEPT !.at = "sleeping"].at = "sleeping"
          /\ [agent EXCEPT !.at = "polling"].at = "polling"
          /\ [agent EXCEPT !.at = "accepted", !.token = issued'].at = "accepted"
          /\ IdleAgent.at = "idle"
      BY <1>t DEF IdleAgent, Agents
    <3>2. QED
      BY <2>1, <2>2, <3>1, <1>t DEF Flows
  <2>4. QED
    BY <1>0, <2>1, <2>2, <2>3
<1>8. ASSUME ExchangeAnswer PROVE Kept
  <2>1. /\ UNCHANGED <<conf, generation, refresh, outdated, voided>> /\ agent.at = "exchanging"
        /\ flow' = flow \/ flow' = [flow EXCEPT !.state = "error"]
        /\ \/ agent' = IdleAgent
           \/ \E p \in {"accepted", "revoking"} :
                agent' = [agent EXCEPT !.token = issued', !.at = p]
    BY <1>8 DEF ExchangeAnswer, WorkerOnly, AskedOnly
  <2>2. flow'.cancel = flow.cancel /\ (flow'.state = flow.state \/ flow'.state = "error")
    BY <1>t, <2>1 DEF Flows
  <2>3. \/ agent'.at = "idle"
        \/ agent'.at \in {"accepted", "revoking"} /\ agent'.command = agent.command
    <3>1. CASE agent' = IdleAgent
      BY <3>1 DEF IdleAgent
    <3>2. ASSUME NEW p \in {"accepted", "revoking"},
                 agent' = [agent EXCEPT !.token = issued', !.at = p]
          PROVE  agent'.at \in {"accepted", "revoking"} /\ agent'.command = agent.command
      BY <1>0, <3>2, AuthFields
    <3>3. QED
      BY <2>1, <3>1, <3>2
  <2>4. QED
    BY <1>0, <2>1, <2>2, <2>3
<1>9. ASSUME SetConfigTokens PROVE Kept
  <2>1. /\ UNCHANGED <<generation, refresh, outdated, voided, flow>>
        /\ agent.at = "accepted" /\ agent'.at = "saved" /\ agent'.command = agent.command
        /\ ~conf'.key
    BY <1>0, <1>9, AuthFields DEF SetConfigTokens, WorkerOnly, AskedOnly
  <2>2. QED
    BY <1>0, <2>1
<1>10. ASSUME SignedIn PROVE Kept
  <2>1. /\ UNCHANGED <<conf, refresh, voided>> /\ agent'.at = "idle"
        /\ flow'.cancel = flow.cancel /\ flow'.state = "signedIn"
        /\ generation' = generation + 1
    BY <1>0, <1>10, AuthFields DEF SignedIn, IdleAgent, WorkerOnly, AskedOnly
  <2>2. QED
    BY <1>0, <2>1
<1>11. ASSUME RevokeAnswer \/ Leave PROVE Kept
  <2>1. /\ UNCHANGED <<conf, generation, refresh, outdated, voided, flow>>
        /\ agent.at \in {"revoking", "idle"} /\ agent'.at \in {"idle", "gone"}
    BY <1>0, <1>11, AuthFields DEF RevokeAnswer, Leave, IdleAgent, WorkerOnly, AskedOnly
  <2>2. QED
    BY <1>0, <2>1
<1>12. ASSUME NEW t \in Refreshers, AskRefresh(t) PROVE Kept
  <2>1. /\ UNCHANGED <<conf, agent, generation, flow, voided>> /\ conf.token # None
        /\ \/ refresh'.generation = generation /\ outdated' = FALSE
           \/ UNCHANGED <<refresh, outdated>>
    BY <1>0, <1>12 DEF AskRefresh, NoRefresh, RefreshOnly
  <2>2. QED
    BY <1>0, <2>1
<1>13. ASSUME SendRefresh \/ RefreshAnswer PROVE Kept
  <2>1. /\ UNCHANGED <<conf, agent, generation, flow, voided, outdated>>
        /\ refresh.at # "none" /\ refresh'.generation = refresh.generation
    <3>1. /\ UNCHANGED <<conf, agent, generation, flow, voided, outdated>> /\ refresh.at # "none"
      BY <1>13 DEF SendRefresh, RefreshAnswer, RefreshOnly
    <3>2. \/ \E p : refresh' = [refresh EXCEPT !.at = p]
          \/ \E p, t : refresh' = [refresh EXCEPT !.at = p, !.old = t]
          \/ \E p, t : refresh' = [refresh EXCEPT !.at = p, !.new = t]
      BY <1>13, Zenon DEF SendRefresh, RefreshAnswer
    <3>3. refresh'.generation = refresh.generation
      BY <1>t, <3>2 DEF Refreshes
    <3>4. QED
      BY <3>1, <3>3
  <2>2. QED
    BY <1>0, <2>1
<1>14. ASSUME MarkSignedOut PROVE Kept
  <2>1. /\ UNCHANGED <<agent, voided>> /\ ~conf'.key
        /\ refresh.at # "none" /\ refresh'.generation = refresh.generation
        /\ generation' = generation + 1 /\ flow'.cancel /\ flow'.state = "error"
    BY <1>0, <1>14, AuthFields DEF MarkSignedOut, RefreshOnly
  <2>2. QED
    BY <1>0, <2>1
<1>15. ASSUME ApplyRefresh \/ RefreshSucceeded PROVE Kept
  <2>1. /\ UNCHANGED <<agent, voided, generation, outdated>> /\ refresh.at # "none"
        /\ refresh' \in {[refresh EXCEPT !.at = "applied"], [refresh EXCEPT !.at = "over"]}
        /\ conf' = conf \/ conf' = [token |-> refresh.new, key |-> FALSE]
        /\ flow' = flow \/ flow' = [flow EXCEPT !.state = "signedIn"]
    BY <1>15 DEF ApplyRefresh, RefreshSucceeded, RefreshOnly
  <2>2. /\ refresh'.generation = refresh.generation
        /\ conf' = conf \/ ~conf'.key
        /\ flow' = flow \/ (flow'.state = "signedIn" /\ flow'.cancel = flow.cancel)
    BY <1>t, <2>1 DEF Refreshes, Flows
  <2>3. QED
    BY <1>0, <2>1, <2>2
<1>16. ASSUME FinishRefresh PROVE Kept
  <2>1. UNCHANGED <<agent, voided, generation, outdated, conf, flow>> /\ refresh'.at = "none"
    BY <1>16 DEF FinishRefresh, NoRefresh, RefreshOnly
  <2>2. QED
    BY <1>0, <2>1
<1>17. QED
  BY <1>1, <1>2, <1>3, <1>4, <1>5, <1>6, <1>7, <1>8, <1>9, <1>10, <1>11, <1>12, <1>13, <1>14,
     <1>15, <1>16
     DEF AuthNext, UserStep, LogoutStep, AgentStep, RefreshStep

\* Whatever is done with them, the sessions that a refresh did not keep are revoked or on the way
\* to it: the queue, the request under way and what was dropped account for all of them.
LEMMA AuthTokensKept ==
  ASSUME AuthInv, AuthNext
  PROVE  TokensGivenOut' /\ DiscardedIsRevoked'
<1> DEFINE Owed == discarded \cap valid
           Revoking == IF agent.at = "revoking" THEN {agent.token} ELSE {}
           Kept == TokensGivenOut' /\ DiscardedIsRevoked'
<1>0. /\ AuthShape /\ AuthShape'
  BY AuthShapeKept DEF AuthInv
<1>1. /\ generation \in Nat /\ orders \in Seq(Orders) /\ issued \in Nat /\ valid \subseteq 1..issued
      /\ agent \in Agents /\ refresh \in Refreshes
      /\ refresh.old \in AnyToken /\ refresh.new \in AnyToken
  BY <1>0 DEF AuthShape, Refreshes
<1>2. /\ discarded \subseteq 1..issued
      /\ refresh.at = "answered" => /\ refresh.old \notin valid /\ refresh.old <= issued
                                    /\ refresh.new \in 1..issued
  BY DEF AuthInv, TokensGivenOut
<1>3. Owed \subseteq Queued("logout") \cup dropped \cup Revoking
  BY DEF AuthInv, DiscardedIsRevoked
<1>4. ASSUME BeginSignIn \/ Shutdown PROVE Kept
  <2>1. /\ UNCHANGED <<agent, refresh, issued, valid, discarded>>
        /\ dropped' = dropped \cup Queued("logout")
    BY <1>4 DEF BeginSignIn, Shutdown, serverVars
  <2>2. QED
    BY <1>2, <1>3, <2>1 DEF TokensGivenOut, DiscardedIsRevoked
<1>5. ASSUME CancelAuthorization \/ Logout \/ ClearConfig PROVE Kept
  <2>1. UNCHANGED <<agent, refresh, issued, valid, discarded, dropped, orders>>
    BY <1>5 DEF CancelAuthorization, Logout, ClearConfig, serverVars, historyVars
  <2>2. QED
    BY <1>2, <1>3, <2>1 DEF TokensGivenOut, DiscardedIsRevoked, Queued
<1>6. ASSUME FinishLogout \/ SyncFromConfig PROVE Kept
  <2>1. UNCHANGED <<agent, refresh, issued, valid, discarded, dropped>>
    BY <1>6 DEF FinishLogout, SyncFromConfig, serverVars
  <2>2. orders' = orders \/ \E o \in Orders : orders' = Append(orders, o)
    <3>1. CASE FinishLogout
      <4>1. ui.token \in AnyToken
        BY <1>0 DEF AuthShape, SettingsPlaces
      <4>2. [Order("logout", ui.token) EXCEPT !.generation = NextGeneration] \in Orders
        BY <1>1, <4>1, OrderIsOrder DEF NextGeneration, Commands
      <4>3. QED
        BY <3>1, <4>2 DEF FinishLogout
    <3>2. CASE SyncFromConfig
      <4>1. Order("exchange", None) \in Orders
        BY <1>1, OrderIsOrder, AuthConstants DEF Commands
      <4>2. QED
        BY <3>2, <4>1 DEF SyncFromConfig
    <3>3. QED
      BY <1>6, <3>1, <3>2
  <2>3. Queued("logout") \subseteq Queued("logout")'
    BY <1>1, <2>2, AddedTokens DEF Queued
  <2>4. QED
    BY <1>2, <1>3, <2>1, <2>3 DEF TokensGivenOut, DiscardedIsRevoked
<1>7. ASSUME TakeOrder PROVE Kept
  <2>1. /\ UNCHANGED <<refresh, issued, valid, discarded, dropped>>
        /\ agent.at = "idle" /\ orders # <<>> /\ orders' = Tail(orders)
    BY <1>7 DEF TakeOrder, WorkerOnly, AskedOnly, serverVars
  <2>2. Head(orders).command = "logout"
          => agent'.at = "revoking" /\ agent'.token = Head(orders).token
    BY <1>7 DEF TakeOrder
  <2>3. QED
    BY <1>1, <1>2, <1>3, <2>1, <2>2, TakenTokens DEF TokensGivenOut, DiscardedIsRevoked
<1>8. ASSUME StartAnswer \/ Poll \/ Expire \/ SetConfigTokens \/ SignedIn \/ Leave PROVE Kept
  <2>1. UNCHANGED <<refresh, issued, valid, discarded, dropped, orders>> /\ agent.at # "revoking"
    BY <1>8 DEF StartAnswer, Poll, Expire, SetConfigTokens, SignedIn, Leave, WorkerOnly, AskedOnly,
                serverVars
  <2>2. QED
    BY <1>2, <1>3, <2>1 DEF TokensGivenOut, DiscardedIsRevoked, Queued
<1>9. ASSUME PollAnswer \/ ExchangeAnswer PROVE Kept
  <2>1. UNCHANGED <<refresh, discarded, dropped, orders>> /\ agent.at # "revoking"
    BY <1>9 DEF PollAnswer, ExchangeAnswer, WorkerOnly, AskedOnly
  <2>2. \/ issued' = issued /\ valid' = valid
        \/ issued' = issued + 1 /\ valid' = valid \cup {issued + 1}
    BY <1>9 DEF PollAnswer, ExchangeAnswer, serverVars, Issue
  <2>3. Owed' = Owed /\ discarded' \subseteq 1..issued'
        /\ (refresh.at = "answered" => refresh'.old \notin valid' /\ refresh'.old <= issued'
                                       /\ refresh'.new \in 1..issued')
    <3>1. CASE issued' = issued /\ valid' = valid
      BY <1>2, <2>1, <3>1
    <3>2. CASE issued' = issued + 1 /\ valid' = valid \cup {issued + 1}
      <4>1. issued + 1 \notin discarded /\ 1..issued \subseteq 1..(issued + 1)
        BY <1>1, <1>2
      <4>2. Owed' = Owed /\ discarded' \subseteq 1..issued'
        BY <1>2, <2>1, <3>2, <4>1
      <4>3. refresh.at = "answered" => refresh.old \notin valid' /\ refresh.old <= issued + 1
        <5>1. refresh.old \in Nat
          BY <1>1, AccountAuthAssumption DEF AnyToken, TokenIds, None
        <5>2. QED
          BY <1>1, <1>2, <3>2, <5>1
      <4>4. QED
        BY <1>2, <2>1, <3>2, <4>1, <4>2, <4>3
    <3>3. QED
      BY <2>2, <3>1, <3>2
  <2>4. QED
    BY <1>3, <2>1, <2>3 DEF TokensGivenOut, DiscardedIsRevoked, Queued
<1>10. ASSUME RevokeAnswer PROVE Kept
  <2>1. /\ UNCHANGED <<refresh, discarded, issued, orders>> /\ agent.at = "revoking"
        /\ \/ valid' = valid \ {agent.token} /\ UNCHANGED dropped
           \/ dropped' = dropped \cup {agent.token} /\ UNCHANGED valid
    BY <1>10 DEF RevokeAnswer, WorkerOnly, AskedOnly
  <2>2. QED
    BY <1>2, <1>3, <2>1 DEF TokensGivenOut, DiscardedIsRevoked, Queued
<1>11. ASSUME NEW t \in Refreshers, AskRefresh(t) PROVE Kept
  <2>1. /\ UNCHANGED <<agent, discarded, dropped, issued, valid, orders>>
        /\ refresh' = refresh \/ refresh'.at = "begun"
    BY <1>11 DEF AskRefresh, NoRefresh, RefreshOnly, serverVars
  <2>2. QED
    BY <1>2, <1>3, <2>1 DEF TokensGivenOut, DiscardedIsRevoked, Queued
<1>12. ASSUME SendRefresh \/ MarkSignedOut \/ RefreshSucceeded \/ FinishRefresh PROVE Kept
  <2>1. UNCHANGED <<agent, discarded, dropped, issued, valid, orders>>
    BY <1>12 DEF SendRefresh, MarkSignedOut, RefreshSucceeded, FinishRefresh, RefreshOnly, serverVars
  <2>2. refresh'.at # "answered"
    <3>1. /\ [refresh EXCEPT !.at = "over"].at = "over"
          /\ [refresh EXCEPT !.at = "sent", !.old = conf.token].at = "sent"
          /\ NoRefresh.at = "none"
      BY <1>1 DEF Refreshes, NoRefresh
    <3>2. refresh' \in {[refresh EXCEPT !.at = "over"], NoRefresh,
                        [refresh EXCEPT !.at = "sent", !.old = conf.token]}
      BY <1>12 DEF SendRefresh, MarkSignedOut, RefreshSucceeded, FinishRefresh
    <3>3. QED
      BY <3>1, <3>2
  <2>3. QED
    BY <1>2, <1>3, <2>1, <2>2 DEF TokensGivenOut, DiscardedIsRevoked, Queued
<1>13. ASSUME RefreshAnswer PROVE Kept
  <2>1. UNCHANGED <<agent, discarded, dropped, orders>>
    BY <1>13 DEF RefreshAnswer, RefreshOnly
  <2>2. CASE refresh'.at # "answered" /\ UNCHANGED serverVars
    BY <1>2, <1>3, <2>1, <2>2 DEF TokensGivenOut, DiscardedIsRevoked, Queued, serverVars
  <2>3. CASE /\ refresh.old \in valid /\ Issue
             /\ valid' = (valid \ {refresh.old}) \cup {issued'}
             /\ refresh' = [refresh EXCEPT !.at = "answered", !.new = issued']
    <3>1. refresh'.old = refresh.old /\ refresh'.new = issued'
      BY <1>1, <2>3 DEF Refreshes
    <3>2. /\ Owed' \subseteq Owed /\ discarded' \subseteq 1..issued'
          /\ refresh'.old \notin valid' /\ refresh'.old <= issued' /\ refresh'.new \in 1..issued'
      BY <1>1, <1>2, <2>1, <2>3, <3>1 DEF Issue
    <3>3. QED
      BY <1>3, <2>1, <3>2 DEF TokensGivenOut, DiscardedIsRevoked, Queued
  <2>4. QED
    BY <1>1, <1>13, <2>2, <2>3 DEF RefreshAnswer, Refreshes
<1>14. ASSUME ApplyRefresh PROVE Kept
  <2>1. UNCHANGED <<agent, dropped, issued, valid>> /\ refresh.at = "answered"
    BY <1>14 DEF ApplyRefresh, RefreshOnly, serverVars
  <2>2. refresh'.at # "answered"
    BY <1>1, <1>14 DEF ApplyRefresh, Refreshes
  <2>3. \/ UNCHANGED <<orders, discarded>>
        \/ /\ orders' = LogoutForRotated(refresh.old, refresh.new)
           /\ discarded' = discarded \cup {refresh.new}
    BY <1>14 DEF ApplyRefresh
  <2>4. CASE UNCHANGED <<orders, discarded>>
    BY <1>2, <1>3, <2>1, <2>2, <2>4 DEF TokensGivenOut, DiscardedIsRevoked, Queued
  <2>5. CASE /\ orders' = LogoutForRotated(refresh.old, refresh.new)
             /\ discarded' = discarded \cup {refresh.new}
    <3>1. (Queued("logout") \ {refresh.old}) \cup {refresh.new} \subseteq Queued("logout")'
      BY <1>1, <2>5, RenamedTokens
    <3>2. QED
      BY <1>2, <1>3, <2>1, <2>2, <2>5, <3>1 DEF TokensGivenOut, DiscardedIsRevoked
  <2>6. QED
    BY <2>3, <2>4, <2>5
<1>15. QED
  BY <1>4, <1>5, <1>6, <1>7, <1>8, <1>9, <1>10, <1>11, <1>12, <1>13, <1>14
     DEF AuthNext, UserStep, LogoutStep, AgentStep, RefreshStep

LEMMA AuthStep == AuthInv /\ [AuthNext]_authVars => AuthInv'
<1> SUFFICES ASSUME AuthInv, [AuthNext]_authVars PROVE AuthInv'
  OBVIOUS
<1>1. CASE AuthNext
  BY <1>1, AuthShapeKept, AuthFlowKept, AuthTokensKept DEF AuthInv
<1>2. CASE UNCHANGED authVars
  BY <1>2 DEF authVars, serverVars, historyVars, AuthInv, AuthShape, CancelIsSeen, KeyComesFirst,
              OutdatedIsKnown, TokensGivenOut, CodeIsPolled, CancelledIsNotCompleted,
              DiscardedIsRevoked, Queued, Is
<1>3. QED
  BY <1>1, <1>2

LEMMA PartHasAccount ==
  /\ PartInit => AuthInit
  /\ [PartNext]_allVars => [AuthNext]_authVars
<1>1. PartInit => AuthInit
  BY DEF PartInit
<1>2. [PartNext]_allVars => [AuthNext]_authVars
  BY DEF PartNext, allVars, thirdVars, InWorkQueue, InReaders, InDatabase, InSessions, InMatches,
         InMigrations, InPaging, InReplays, InAccount, InUpdateCheck, InUpdate, InHotkeys,
         InOverlay, InConfig, InTelemetry, InRemote, InTournaments
<1>3. QED
  BY <1>1, <1>2

\* While a sign-in awaits approval its code is polled, a sign-in that was cancelled is not
\* completed by a late approval, and a session that a refresh did not keep is revoked, whatever
\* the user, the worker and the refreshes do in between.
THEOREM AccountIsRight == PartSpec => []AccountRight
<1>1. AuthInv => AccountRight
  BY ShapeIsTyped DEF AuthInv, AccountRight
<1>2. QED
  BY <1>1, AuthInitially, AuthStep, PartHasAccount, PTL DEF PartSpec

\* A refresh that began before a sign-out or another sign-in was complete does not write its token
\* over what that left.
THEOREM OldRefreshKeepsOut == PartSpec => OutdatedRefreshKeepsOut
<1>1. ASSUME AuthInv, [AuthNext]_authVars
      PROVE  refresh.at = "answered" /\ conf' # conf /\ agent' = agent /\ ui' = ui => ~outdated
  <2> SUFFICES ASSUME refresh.at = "answered", conf' # conf, agent' = agent, ui' = ui
               PROVE  ~outdated
    OBVIOUS
  <2>1. ~conf.key
    BY <1>1 DEF AuthInv, KeyComesFirst
  <2>2. refresh.generation = generation => ~outdated
    BY <1>1, AuthFields DEF AuthInv, OutdatedIsKnown
  <2>3. ~SyncFromConfig
    <3>1. SyncFromConfig => conf' = conf \/ conf' = [conf EXCEPT !.key = FALSE]
      BY DEF SyncFromConfig
    <3>2. conf.key = FALSE /\ conf \in Configs
      BY <1>1, <2>1 DEF AuthInv, AuthShape, Configs
    <3>3. [conf EXCEPT !.key = FALSE] = conf
      BY <3>2 DEF Configs
    <3>4. QED
      BY <3>1, <3>3
  <2>4. ~ClearConfig
    <3>1. ui \in SettingsPlaces
      BY <1>1 DEF AuthInv, AuthShape
    <3>2. QED
      BY <3>1 DEF ClearConfig, SettingsPlaces
  <2>5. ~SetConfigTokens
    <3>1. agent \in Agents
      BY <1>1 DEF AuthInv, AuthShape
    <3>2. QED
      BY <3>1 DEF SetConfigTokens, Agents
  <2>6. ApplyRefresh
    BY <1>1, <2>3, <2>4, <2>5
       DEF authVars, AuthNext, UserStep, LogoutStep, AgentStep, RefreshStep, BeginSignIn,
           CancelAuthorization, Logout, FinishLogout, Shutdown, TakeOrder, StartAnswer, Poll,
           Expire, PollAnswer, ExchangeAnswer, SignedIn, RevokeAnswer, Leave, AskRefresh,
           SendRefresh, RefreshAnswer, MarkSignedOut, RefreshSucceeded, FinishRefresh
  <2>7. QED
    BY <2>2, <2>6 DEF ApplyRefresh
<1>2. QED
  BY <1>1, AuthInitially, AuthStep, PartHasAccount, PTL DEF PartSpec, OutdatedRefreshKeepsOut

-----------------------------------------------------------------------------
\* The uploads of replays.

ReplayRecords ==
  [state : States, attempts : 0..(MaxAttempts + MaxChanges), guid : BOOLEAN, id : Nat]

\* What is left of the attempts: each retry the user asks for allows one more.
AttemptsBounded ==
  \A f \in Files :
    /\ record[f].attempts <= MaxAttempts + changes
    /\ record[f].state \in {"unknown", "pending", "uploading"}
         => record[f].attempts < MaxAttempts + changes

\* The upload thread has a file exactly while it is busy, and that one is marked.
UploadIsMarked ==
  /\ step = "idle" <=> uploadOf = NoReplay
  /\ uploadOf # NoReplay => record[uploadOf].state = "uploading"

\* What the upload thread has taken stays pending until it comes to it.
BatchIsPending == \A f \in batch : record[f].state = "pending"

ReplayInv ==
  /\ ReplayTypeOK /\ changes \in 0..MaxChanges /\ AttemptsBounded /\ UploadIsMarked
  /\ BatchIsPending /\ UploadedIsOnServer /\ UploadingIsUploaded

LEMMA ReplayInitially == ReplayInit => ReplayInv
<1> SUFFICES ASSUME ReplayInit PROVE ReplayInv
  OBVIOUS
<1>1. Undiscovered \in ReplayRecords
  BY ReplayUploadAssumption DEF Undiscovered, ReplayRecords, States
<1>2. \A f \in Files : record[f].state = "unknown" /\ record[f].attempts = 0
  BY DEF ReplayInit, Undiscovered
<1>3. ReplayTypeOK
  <2>1. {disk, batch, due, old, server, left} \subseteq SUBSET Files /\ locked \subseteq disk
    BY DEF ReplayInit
  <2>2. record \in [Files -> ReplayRecords] /\ touches \in 0..MaxTouches
    BY <1>1, ReplayUploadAssumption DEF ReplayInit
  <2>3. settings \in [upload : BOOLEAN, filters : BOOLEAN, token : TokenStates]
    BY DEF ReplayInit, TokenStates
  <2>4. QED
    BY <2>1, <2>2, <2>3 DEF ReplayInit, ReplayTypeOK, ReplayRecords
<1>4. changes \in 0..MaxChanges /\ AttemptsBounded
  BY <1>2, ReplayUploadAssumption DEF ReplayInit, AttemptsBounded
<1>5. UploadIsMarked /\ BatchIsPending /\ UploadedIsOnServer /\ UploadingIsUploaded
  BY <1>2 DEF ReplayInit, UploadIsMarked, BatchIsPending, UploadedIsOnServer, UploadingIsUploaded
<1>6. QED
  BY <1>3, <1>4, <1>5 DEF ReplayInv

LEMMA StateSet ==
  ASSUME record \in [Files -> ReplayRecords], NEW f \in Files, NEW s \in States,
         NEW n \in 0..(MaxAttempts + MaxChanges), SetState(f, s, n)
  PROVE  /\ record' \in [Files -> ReplayRecords]
         /\ record'[f].state = s /\ record'[f].attempts = n
         /\ \A g \in Files \ {f} : record'[g] = record[g]
<1> DEFINE new == [record[f] EXCEPT !.state = s, !.attempts = n]
<1>1. record[f] \in ReplayRecords
  OBVIOUS
<1>2. new \in ReplayRecords /\ new.state = s /\ new.attempts = n
  BY <1>1 DEF ReplayRecords
<1>3. record' = [record EXCEPT ![f] = new]
  BY Zenon DEF SetState
<1> HIDE DEF new
<1>4. QED
  BY <1>2, <1>3

LEMMA ReplayStep == ReplayInv /\ [ReplayNext]_replayVars => ReplayInv'
<1> SUFFICES ASSUME ReplayInv, [ReplayNext]_replayVars PROVE ReplayInv'
  OBVIOUS
<1>0. /\ {disk, batch, due, old, server, left} \subseteq SUBSET Files /\ locked \subseteq disk
      /\ record \in [Files -> ReplayRecords] /\ verdict \in [Files -> {"none", "fits", "unfit"}]
      /\ settings \in [upload : BOOLEAN, filters : BOOLEAN, token : TokenStates]
      /\ uploadOf \in Files \cup {NoReplay} /\ step \in {"idle", "marked", "sent"}
      /\ {scanned, rejected} \subseteq BOOLEAN /\ touches \in 0..MaxTouches
      /\ changes \in 0..MaxChanges
  BY DEF ReplayInv, ReplayTypeOK, ReplayRecords
<1>1. /\ AttemptsBounded /\ UploadIsMarked /\ BatchIsPending
      /\ UploadedIsOnServer /\ UploadingIsUploaded
  BY DEF ReplayInv
<1>2. /\ MaxAttempts \in Nat \ {0} /\ MaxChanges \in Nat /\ MaxTouches \in Nat /\ NoReplay \notin Files
      /\ MaxAttempts + changes <= MaxAttempts + MaxChanges
  BY <1>0, ReplayUploadAssumption
<1>3. /\ Undiscovered \in ReplayRecords /\ Undiscovered.state = "unknown"
      /\ Undiscovered.attempts = 0
  BY <1>2 DEF Undiscovered, ReplayRecords, States
<1>4. \A f \in Files : /\ record[f] \in ReplayRecords /\ record[f].attempts \in Nat
                       /\ record[f].state \in States /\ record[f].guid \in BOOLEAN
  BY <1>0, <1>2 DEF ReplayRecords
<1> USE DEF ReplayInv, ReplayTypeOK, AttemptsBounded, UploadIsMarked, BatchIsPending,
            UploadedIsOnServer, UploadingIsUploaded
<1>5. ASSUME NEW f \in Files, \/ NewFile(f) \/ LockOrUnlock(f) \/ DeleteFile(f)
                               \/ MatchSaved(f) \/ BecomesDue(f) \/ BecomesOld(f)
      PROVE  ReplayInv'
  <2>1. UNCHANGED <<record, threadVars, settings, rejected, server, countVars>>
    BY <1>5 DEF NewFile, LockOrUnlock, DeleteFile, MatchSaved, BecomesDue, BecomesOld
  <2>2. /\ {disk', due', old'} \subseteq SUBSET Files /\ locked' \subseteq disk'
        /\ verdict' \in [Files -> {"none", "fits", "unfit"}] /\ touches' \in 0..MaxTouches
    <3>1. CASE NewFile(f) \/ MatchSaved(f) \/ BecomesDue(f) \/ BecomesOld(f)
      BY <1>0, <3>1 DEF NewFile, MatchSaved, BecomesDue, BecomesOld, fileVars
    <3>2. CASE LockOrUnlock(f)
      BY <1>0, <1>2, <3>2 DEF LockOrUnlock, Touch
    <3>3. CASE DeleteFile(f)
      BY <1>0, <1>2, <3>3 DEF DeleteFile, Touch
    <3>4. QED
      BY <1>5, <3>1, <3>2, <3>3
  <2>3. QED
    BY <1>0, <1>1, <2>1, <2>2 DEF threadVars, countVars, ReplayRecords
<1>6. ASSUME NEW f \in Files, Scan(f) PROVE ReplayInv'
  <2>1. UNCHANGED <<fileVars, due, old, verdict, threadVars, settings, rejected, server, changes>>
        /\ record[f] = Undiscovered
    BY <1>6 DEF Scan, worldVars, countVars
  <2>2. PICK s \in {"pending", "skipped"}, g \in BOOLEAN :
          record' = [record EXCEPT ![f] =
                       [state |-> s, attempts |-> 0, guid |-> g, id |-> NextReplayId]]
    BY <1>6, Zenon DEF Scan
  <2> DEFINE new == [state |-> s, attempts |-> 0, guid |-> g, id |-> NextReplayId]
  <2>3. new \in ReplayRecords /\ new.attempts = 0 /\ new.state \in {"pending", "skipped"}
    <3>1. NextReplayId \in Nat
      <4>1. IsFiniteSet({h \in Files : record[h] # Undiscovered})
        BY ReplayUploadAssumption, FS_Subset
      <4>2. QED
        BY <4>1, FS_CardinalityType DEF NextReplayId
    <3> HIDE DEF ReplayInv
    <3>2. QED
      BY <1>2, <3>1 DEF ReplayRecords, States
  <2> HIDE DEF new
  <2>4. /\ record' \in [Files -> ReplayRecords]
        /\ record'[f].attempts = 0 /\ record'[f].state \in {"pending", "skipped"}
        /\ \A h \in Files \ {f} : record'[h] = record[h]
    BY <1>0, <2>2, <2>3 DEF new
  <2>5. uploadOf # f /\ f \notin batch
    BY <1>1, <1>2, <1>3, <2>1
  <2>6. /\ AttemptsBounded' /\ UploadIsMarked' /\ BatchIsPending'
        /\ UploadedIsOnServer' /\ UploadingIsUploaded'
    BY <1>0, <1>1, <1>2, <2>1, <2>4, <2>5 DEF threadVars
  <2>7. QED
    BY <1>0, <2>1, <2>4, <2>6 DEF fileVars, threadVars, ReplayRecords
<1>7. ASSUME TakeBatch PROVE ReplayInv'
  <2>1. /\ UNCHANGED <<worldVars, record, scanned, uploadOf, step, left, settings, rejected, server,
                       changes>>
        /\ batch' \subseteq Pending
    BY <1>7 DEF TakeBatch, countVars
  <2>2. batch' \in SUBSET Files /\ \A f \in batch' : record[f].state = "pending"
    BY <2>1 DEF Pending
  <2>3. QED
    BY <1>0, <1>1, <2>1, <2>2 DEF worldVars, fileVars, ReplayRecords
<1>8. ASSUME NEW f \in Files, ProcessPendingUploads(f) PROVE ReplayInv'
  <2>1. /\ UNCHANGED <<fileVars, old, verdict, scanned, left, settings, rejected, server, changes>>
        /\ uploadOf = NoReplay /\ f \in batch /\ batch' = batch \ {f} /\ due' \in SUBSET Files
    BY <1>0, <1>8 DEF ProcessPendingUploads, countVars
  <2>0. record[f].state = "pending"
    BY <1>1, <2>1
  <2>2. record[f].attempts < MaxAttempts + changes
        /\ record[f].attempts \in 0..(MaxAttempts + MaxChanges)
    BY <1>1, <1>2, <1>4, <2>0
  <2>3. CASE SetState(f, "skipped", record[f].attempts) /\ UNCHANGED <<uploadOf, step>>
    <3>1. /\ record' \in [Files -> ReplayRecords]
          /\ record'[f].state = "skipped" /\ record'[f].attempts = record[f].attempts
          /\ \A g \in Files \ {f} : record'[g] = record[g]
      BY <1>0, <2>2, <2>3, StateSet DEF States
    <3>2. /\ AttemptsBounded' /\ UploadIsMarked' /\ BatchIsPending'
          /\ UploadedIsOnServer' /\ UploadingIsUploaded'
      BY <1>0, <1>1, <1>2, <2>1, <2>2, <2>3, <3>1
    <3>3. QED
      BY <1>0, <2>1, <2>3, <3>1, <3>2 DEF fileVars, ReplayRecords
  <2>4. CASE UNCHANGED <<record, uploadOf, step>>
    BY <1>0, <1>1, <2>1, <2>4 DEF fileVars, ReplayRecords
  <2>5. CASE SetState(f, "uploading", record[f].attempts) /\ uploadOf' = f /\ step' = "marked"
    <3>1. /\ record' \in [Files -> ReplayRecords]
          /\ record'[f].state = "uploading" /\ record'[f].attempts = record[f].attempts
          /\ \A g \in Files \ {f} : record'[g] = record[g]
      BY <1>0, <2>2, <2>5, StateSet DEF States
    <3>2. /\ AttemptsBounded' /\ UploadIsMarked' /\ BatchIsPending'
          /\ UploadedIsOnServer' /\ UploadingIsUploaded'
      BY <1>0, <1>1, <1>2, <2>1, <2>2, <2>5, <3>1
    <3>3. QED
      BY <1>0, <2>1, <2>5, <3>1, <3>2 DEF fileVars, ReplayRecords
  <2>6. QED
    BY <1>8, <2>3, <2>4, <2>5 DEF ProcessPendingUploads
<1>9. ASSUME BeginUpload PROVE ReplayInv'
  <2>1. /\ UNCHANGED <<worldVars, record, scanned, batch, settings, rejected, server, changes>>
        /\ uploadOf \in Files
        /\ \/ left' = left \cup {uploadOf} /\ uploadOf' = NoReplay /\ step' = "idle"
           \/ step' = "sent" /\ left' = left /\ uploadOf' = uploadOf
    BY <1>0, <1>1, <1>9 DEF BeginUpload, countVars
  <2>2. AttemptsBounded' /\ UploadedIsOnServer'
    BY <1>1, <2>1
  <2>3. UploadIsMarked' /\ BatchIsPending' /\ UploadingIsUploaded'
    BY <1>1, <1>2, <2>1
  <2>4. QED
    BY <1>0, <2>1, <2>2, <2>3 DEF worldVars, fileVars, ReplayRecords
<1>10. ASSUME FinishUpload PROVE ReplayInv'
  <2> DEFINE f == uploadOf
             After(answer) == EvaluateUploadResponse(answer, record[f].attempts)
             Tried(answer) == record[f].attempts + (IF answer = "token" THEN 0 ELSE 1)
  <2>1. /\ UNCHANGED <<fileVars, old, verdict, scanned, batch, left, settings, changes>>
        /\ f \in Files /\ uploadOf' = NoReplay /\ step' = "idle"
    BY <1>0, <1>1, <1>10 DEF FinishUpload, countVars
  <2>2. PICK answer \in Answers(f) :
          /\ SetState(f, After(answer), Tried(answer))
          /\ rejected' = (rejected \/ answer = "token")
          /\ due' = IF After(answer) = "pending" /\ answer # "token" THEN due \ {f} ELSE due
          /\ Arrives(answer)
    BY <1>10 DEF FinishUpload
  <2>3. /\ answer \in {"refused", "broken", "token", "conflict", "created"}
        /\ answer = "conflict" => f \in server
    BY <2>2 DEF Answers
  <2>4. record[f].attempts < MaxAttempts + changes /\ record[f].state = "uploading"
    BY <1>1, <1>2, <2>1
  <2>5. /\ After(answer) \in {"done", "duplicate", "pending", "failed"}
        /\ After(answer) = "duplicate" => answer = "conflict"
        /\ After(answer) = "done" => answer = "created"
        /\ After(answer) = "pending" => Tried(answer) < MaxAttempts + changes
    BY <1>0, <1>2, <1>4, <2>1, <2>3, <2>4 DEF EvaluateUploadResponse
  <2>6. Tried(answer) \in 0..(MaxAttempts + MaxChanges) /\ Tried(answer) <= MaxAttempts + changes
    BY <1>0, <1>2, <1>4, <2>1, <2>4
  <2>7. /\ server \subseteq server' /\ server' \subseteq Files
        /\ answer = "created" => f \in server'
    BY <1>0, <2>1, <2>2 DEF Arrives
  <2>8. /\ record' \in [Files -> ReplayRecords]
        /\ record'[f].state = After(answer) /\ record'[f].attempts = Tried(answer)
        /\ \A g \in Files \ {f} : record'[g] = record[g]
    <3>1. After(answer) \in States
      BY <2>5 DEF States
    <3> HIDE DEF After, Tried
    <3>2. QED
      BY <1>0, <2>1, <2>2, <2>6, <3>1, StateSet
  <2>9. rejected' \in BOOLEAN /\ due' \subseteq Files
    BY <1>0, <2>2
  <2> HIDE DEF After, Tried
  <2>10. AttemptsBounded' /\ UploadIsMarked' /\ BatchIsPending'
    BY <1>1, <2>1, <2>4, <2>5, <2>6, <2>8
  <2>11. UploadedIsOnServer' /\ UploadingIsUploaded'
    BY <1>1, <1>2, <2>1, <2>3, <2>5, <2>7, <2>8
  <2>12. QED
    BY <1>0, <2>1, <2>7, <2>8, <2>9, <2>10, <2>11 DEF fileVars, ReplayRecords
<1>11. ASSUME InitialScan PROVE ReplayInv'
  <2>1. /\ UNCHANGED <<worldVars, batch, uploadOf, step, left, settings, rejected, server, changes>>
        /\ scanned' = TRUE
    BY <1>11 DEF InitialScan, countVars
  <2>2. [Undiscovered EXCEPT !.state = "skipped"] \in ReplayRecords
        /\ [Undiscovered EXCEPT !.state = "skipped"].state = "skipped"
        /\ [Undiscovered EXCEPT !.state = "skipped"].attempts = 0
    BY <1>3 DEF ReplayRecords, States
  <2> DEFINE skipped == [Undiscovered EXCEPT !.state = "skipped"]
  <2>3. /\ record' \in [Files -> ReplayRecords]
        /\ \A f \in Files :
             record'[f] = record[f] \/ (record[f] = Undiscovered /\ record'[f] = skipped)
    <3>1. record' = [f \in Files |-> IF f \in disk THEN Discovered(f, skipped) ELSE record[f]]
      BY <1>11, Zenon DEF InitialScan
    <3> HIDE DEF skipped
    <3>2. \A f \in Files : \/ Discovered(f, skipped) = skipped /\ record[f] = Undiscovered
                           \/ Discovered(f, skipped) = record[f]
      BY DEF Discovered
    <3>3. skipped \in ReplayRecords
      BY <2>2 DEF skipped
    <3>4. record' \in [Files -> ReplayRecords]
      BY <1>0, <3>1, <3>2, <3>3
    <3>5. \A f \in Files :
            record'[f] = record[f] \/ (record[f] = Undiscovered /\ record'[f] = skipped)
      <4>1. \A f \in Files : record'[f] = IF f \in disk THEN Discovered(f, skipped) ELSE record[f]
        BY <3>1
      <4>2. QED
        BY <3>2, <4>1, Zenon
    <3>6. QED
      BY <3>4, <3>5
  <2> HIDE DEF skipped
  <2>4. AttemptsBounded'
    BY <1>1, <1>0, <1>2, <2>1, <2>2, <2>3 DEF skipped
  <2>5. UploadIsMarked' /\ BatchIsPending' /\ UploadedIsOnServer' /\ UploadingIsUploaded'
    BY <1>1, <1>0, <1>3, <2>1, <2>2, <2>3 DEF skipped
  <2>6. QED
    BY <1>0, <2>1, <2>3, <2>4, <2>5 DEF worldVars, fileVars, ReplayRecords
<1>12. ASSUME ChangeSettings PROVE ReplayInv'
  <2>1. /\ UNCHANGED <<worldVars, record, batch, uploadOf, step, left, server>>
        /\ changes' = changes + 1 /\ changes < MaxChanges
    BY <1>12 DEF ChangeSettings, Change
  <2>2. settings' \in [upload : BOOLEAN, filters : BOOLEAN, token : TokenStates]
    BY <1>0, <1>12 DEF ChangeSettings
  <2>3. rejected' \in BOOLEAN /\ scanned' \in BOOLEAN
    BY <1>0, <1>12 DEF ChangeSettings
  <2>4. AttemptsBounded'
    BY <1>0, <1>1, <1>2, <1>4, <2>1
  <2>5. QED
    <3>1. ReplayTypeOK'
      BY <1>0, <2>1, <2>2, <2>3 DEF worldVars, fileVars, ReplayRecords
    <3>2. UploadIsMarked' /\ BatchIsPending' /\ UploadedIsOnServer' /\ UploadingIsUploaded'
      BY <1>1, <2>1
    <3>3. changes' \in 0..MaxChanges
      BY <1>0, <1>2, <2>1
    <3> HIDE DEF ReplayTypeOK, AttemptsBounded, UploadIsMarked, BatchIsPending,
                 UploadedIsOnServer, UploadingIsUploaded
    <3>4. QED
      BY <2>4, <3>1, <3>2, <3>3
<1>13. ASSUME RetryFailed PROVE ReplayInv'
  <2>1. /\ UNCHANGED <<fileVars, old, verdict, threadVars, settings, rejected, server>>
        /\ changes' = changes + 1 /\ changes < MaxChanges /\ due' \in SUBSET Files
    BY <1>0, <1>13 DEF RetryFailed, Change
  <2>2. \A f \in Files : /\ [record[f] EXCEPT !.state = "pending"] \in ReplayRecords
                         /\ [record[f] EXCEPT !.state = "pending"].state = "pending"
                         /\ [record[f] EXCEPT !.state = "pending"].attempts = record[f].attempts
    BY <1>4 DEF ReplayRecords, States
  <2>3. /\ record' \in [Files -> ReplayRecords]
        /\ \A f \in Files :
             \/ record'[f] = record[f]
             \/ /\ record[f].state = "failed" /\ record'[f].state = "pending"
                /\ record'[f].attempts = record[f].attempts
    BY <1>0, <1>13, <2>2 DEF RetryFailed
  <2>4. AttemptsBounded'
    BY <1>0, <1>1, <1>2, <1>4, <2>1, <2>3
  <2>5. UploadIsMarked' /\ BatchIsPending' /\ UploadedIsOnServer' /\ UploadingIsUploaded'
    BY <1>0, <1>1, <2>1, <2>3 DEF threadVars
  <2>6. QED
    <3>1. ReplayTypeOK'
      BY <1>0, <2>1, <2>3 DEF fileVars, threadVars, ReplayRecords
    <3>2. changes' \in 0..MaxChanges
      BY <1>0, <1>2, <2>1
    <3> HIDE DEF ReplayTypeOK, AttemptsBounded, UploadIsMarked, BatchIsPending,
                 UploadedIsOnServer, UploadingIsUploaded
    <3>3. QED
      BY <2>4, <2>5, <3>1, <3>2
<1>14. ASSUME CrashAndRestart PROVE ReplayInv'
  <2>1. /\ UNCHANGED <<worldVars, settings, changes>>
        /\ scanned' = FALSE /\ batch' = {} /\ uploadOf' = NoReplay /\ step' = "idle" /\ rejected' = FALSE
        /\ left' = {} /\ server \subseteq server' /\ server' \subseteq server \cup {uploadOf}
        /\ (server' = server \/ step = "sent")
    BY <1>14 DEF CrashAndRestart
  <2>2. server' \subseteq Files
    BY <1>0, <1>1, <2>1
  <2>3. \A f \in Files : /\ [record[f] EXCEPT !.state = "pending"] \in ReplayRecords
                         /\ [record[f] EXCEPT !.state = "pending"].state = "pending"
                         /\ [record[f] EXCEPT !.state = "pending"].attempts = record[f].attempts
    BY <1>4 DEF ReplayRecords, States
  <2>4. /\ record' \in [Files -> ReplayRecords]
        /\ \A f \in Files :
             \/ record'[f] = record[f] /\ record[f].state # "uploading"
             \/ /\ record[f].state = "uploading" /\ record'[f].state = "pending"
                /\ record'[f].attempts = record[f].attempts
    BY <1>0, <1>14, <2>3 DEF CrashAndRestart, Recovered
  <2>5. /\ AttemptsBounded' /\ UploadIsMarked' /\ BatchIsPending'
        /\ UploadedIsOnServer' /\ UploadingIsUploaded'
    BY <1>0, <1>1, <2>1, <2>4
  <2>6. QED
    BY <1>0, <2>1, <2>2, <2>4, <2>5 DEF worldVars, fileVars, ReplayRecords
<1>15. CASE UNCHANGED replayVars
  BY <1>0, <1>1, <1>15 DEF replayVars, ReplayRecords
<1>16. QED
  BY <1>5, <1>6, <1>7, <1>8, <1>9, <1>10, <1>11, <1>12, <1>13, <1>14, <1>15 DEF ReplayNext, UploadThread

LEMMA PartHasReplays ==
  /\ PartInit => ReplayInit
  /\ [PartNext]_allVars => [ReplayNext]_replayVars
<1>1. PartInit => ReplayInit
  BY DEF PartInit
<1>2. [PartNext]_allVars => [ReplayNext]_replayVars
  BY DEF PartNext, allVars, secondVars, InWorkQueue, InReaders, InDatabase, InSessions, InMatches,
         InMigrations, InPaging, InReplays, InAccount, InUpdateCheck, InUpdate, InHotkeys,
         InOverlay, InConfig, InTelemetry, InRemote, InTournaments
<1>3. QED
  BY <1>1, <1>2

\* A restart, whose initial scan skips the files it finds, gives up no upload that was pending or
\* under way.
THEOREM UploadsSurviveRestarts == PartSpec => RestartKeepsUploads
<1>1. ASSUME ReplayInv, [ReplayNext]_replayVars, scanned' # scanned,
             NEW f \in Files, record[f].state \in {"pending", "uploading"}
      PROVE  record'[f].state \in {"pending", "uploading"}
  <2>1. record[f] \in ReplayRecords
    BY <1>1 DEF ReplayInv, ReplayTypeOK, ReplayRecords
  <2>2. CASE InitialScan
    BY <1>1, <2>2 DEF InitialScan, Discovered, Undiscovered
  <2>3. CASE ChangeSettings
    BY <1>1, <2>3 DEF ChangeSettings
  <2>4. CASE CrashAndRestart
    BY <1>1, <2>1, <2>4 DEF CrashAndRestart, Recovered, ReplayRecords
  <2>5. QED
    BY <1>1, <2>2, <2>3, <2>4
       DEF ReplayNext, replayVars, NewFile, LockOrUnlock, DeleteFile, MatchSaved, BecomesDue,
           BecomesOld, Scan, threadVars, UploadThread, TakeBatch, ProcessPendingUploads,
           BeginUpload, FinishUpload, RetryFailed
<1>2. ASSUME ReplayInv, [ReplayNext]_replayVars
      PROVE  [\A f \in Files : record[f].state \in {"pending", "uploading"} /\ scanned' # scanned
                => record'[f].state \in {"pending", "uploading"}]_replayVars
  BY <1>1, <1>2
<1>3. QED
  BY <1>2, ReplayInitially, ReplayStep, PartHasReplays, PTL DEF PartSpec, RestartKeepsUploads

-----------------------------------------------------------------------------
\* Milestones and heartbeats.

Masks == SUBSET Milestones
Stores == [reported : Masks, pending : Masks]
Flushes ==
  [at : {"idle", "sent", "reported", "pending"}, flushed : Masks, reported : Masks, pending : Masks]

\* TelemetryTypeOK with what the threads hold, which it leaves out.
TelemetryShape ==
  /\ reported \in Masks /\ unsent \in Masks /\ received \in Masks /\ recorded \in Masks
  /\ toStore \in [Recorders -> {NothingToStore} \cup {<<s>> : s \in Masks}]
  /\ writes \in Seq(Masks) /\ stored \in Stores /\ flush \in Flushes
  /\ {clock, lastAccounting, startedAt} \subseteq 0..LastTick /\ accounted \in Nat
  /\ starts \in 0..MaxStarts

\* What is stored as reported is reported in memory too, and so is what the worker is about to
\* store: it holds all of it.
ReportedInMemory ==
  /\ stored.reported \subseteq reported
  /\ flush.at = "reported" => flush.reported = reported

\* Time is accounted for up to some moment since the start.
AccountedSince == startedAt <= lastAccounting /\ lastAccounting <= clock

TelemetryInv ==
  /\ TelemetryShape /\ ReportedInMemory /\ ReportedWasReceived /\ AccountedSince
  /\ MinutesAreExact

LEMMA TelemetryTyped == TelemetryShape => TelemetryTypeOK
<1> SUFFICES ASSUME TelemetryShape PROVE TelemetryTypeOK
  OBVIOUS
<1>1. \A r \in Recorders : Len(toStore[r]) <= 1
  <2> SUFFICES ASSUME NEW r \in Recorders PROVE Len(toStore[r]) <= 1
    OBVIOUS
  <2>1. toStore[r] = <<>> \/ \E s \in Masks : toStore[r] = <<s>>
    BY DEF TelemetryShape, NothingToStore
  <2>2. CASE toStore[r] = <<>>
    BY <2>2
  <2>3. ASSUME NEW s \in Masks, toStore[r] = <<s>> PROVE Len(toStore[r]) <= 1
    BY <2>3
  <2>4. QED
    BY <2>1, <2>2, <2>3
<1>2. QED
  BY <1>1 DEF TelemetryShape, TelemetryTypeOK, Masks, Flushes

LEMMA TelemetryInitially == TelemetryInit => TelemetryInv
<1> SUFFICES ASSUME TelemetryInit PROVE TelemetryInv
  OBVIOUS
<1>1. <<>> \in Seq(Masks)
  BY EmptySeq
<1>2. stored \in Stores /\ flush \in Flushes /\ stored.reported = {} /\ flush.reported = {}
      /\ flush.at = "idle"
  BY DEF TelemetryInit, NoFlush, Stores, Flushes, Masks
<1>3. TelemetryShape
  BY <1>1, <1>2, TelemetryAssumption DEF TelemetryInit, TelemetryShape, Masks
<1>4. QED
  BY <1>2, <1>3, TelemetryAssumption
     DEF TelemetryInit, TelemetryInv, ReportedInMemory, ReportedWasReceived, AccountedSince,
         MinutesAreExact

\* CalculateHeartbeatMinutes leaves nothing out: what it does not count is what remains.
LEMMA MinutesAndRest ==
  ASSUME NEW elapsed \in Nat
  PROVE  /\ Remainder(elapsed) \in 0..elapsed /\ Minutes(elapsed) \in Nat
         /\ elapsed < MaxOpen * TicksAMinute
              => Minutes(elapsed) * TicksAMinute + Remainder(elapsed) = elapsed
<1> DEFINE m == elapsed \div TicksAMinute
           rest == elapsed % TicksAMinute
<1>1. TicksAMinute \in Nat /\ TicksAMinute > 0 /\ MaxOpen \in Nat
  BY TelemetryAssumption
<1>2. m \in Nat /\ rest \in 0..(TicksAMinute - 1) /\ elapsed = TicksAMinute * m + rest
  BY <1>1
<1> HIDE DEF m, rest
<1>3. TicksAMinute * m \in Nat /\ rest <= elapsed
  BY <1>1, <1>2
<1>4. ASSUME elapsed < MaxOpen * TicksAMinute PROVE m < MaxOpen
  <2> SUFFICES ASSUME MaxOpen <= m PROVE FALSE
    BY <1>1, <1>2
  <2>1. MaxOpen * TicksAMinute <= m * TicksAMinute
    BY <1>1, <1>2
  <2>2. QED
    BY <1>1, <1>2, <1>3, <1>4, <2>1
<1>5. Minutes(elapsed) = (IF m < MaxOpen THEN m ELSE MaxOpen) /\ Remainder(elapsed) = rest
  BY DEF Minutes, Remainder, m, rest
<1>6. QED
  BY <1>1, <1>2, <1>3, <1>4, <1>5

LEMMA TelemetryStep == TelemetryInv /\ [TelemetryNext]_telemetryVars => TelemetryInv'
<1> SUFFICES ASSUME TelemetryInv, [TelemetryNext]_telemetryVars PROVE TelemetryInv'
  OBVIOUS
<1>0. /\ TelemetryShape /\ ReportedInMemory /\ ReportedWasReceived /\ AccountedSince
      /\ MinutesAreExact /\ stored \in Stores /\ flush \in Flushes /\ writes \in Seq(Masks)
  BY DEF TelemetryInv, TelemetryShape
<1>1. /\ clock \in Nat /\ lastAccounting \in Nat /\ startedAt \in Nat /\ LastTick \in Nat
      /\ TicksAMinute \in Nat /\ MaxOpen \in Nat /\ MaxStarts \in Nat /\ accounted \in Nat
      /\ clock <= LastTick
  BY <1>0, TelemetryAssumption DEF TelemetryShape
<1>2. NoFlush \in Flushes /\ NoFlush.reported = {} /\ NoFlush.at = "idle"
      /\ {} \in Masks /\ NothingToStore \in {NothingToStore} \cup {<<s>> : s \in Masks}
  BY DEF NoFlush, Flushes, Masks
<1>3. UNCHANGED heartbeatVars => AccountedSince' /\ MinutesAreExact'
  BY <1>0 DEF heartbeatVars, AccountedSince, MinutesAreExact
<1>4. UNCHANGED milestoneVars => ReportedInMemory' /\ ReportedWasReceived'
  BY <1>0 DEF milestoneVars, ReportedInMemory, ReportedWasReceived
<1>5. ASSUME NEW r \in Recorders, NEW m \in Milestones, RecordMilestone(r, m) PROVE TelemetryInv'
  <2>1. unsent' \in Masks /\ recorded' \in Masks
    BY <1>0, <1>5 DEF RecordMilestone, TelemetryShape, Masks
  <2>2. toStore' \in [Recorders -> {NothingToStore} \cup {<<s>> : s \in Masks}]
    BY <1>0, <1>5, <2>1 DEF RecordMilestone, TelemetryShape
  <2>3. TelemetryShape'
    BY <1>0, <1>5, <2>1, <2>2 DEF RecordMilestone, TelemetryShape, heartbeatVars
  <2>4. ReportedInMemory' /\ ReportedWasReceived'
    BY <1>0, <1>5 DEF RecordMilestone, ReportedInMemory, ReportedWasReceived
  <2>5. QED
    BY <1>3, <1>5, <2>3, <2>4 DEF RecordMilestone, TelemetryInv
<1>6. ASSUME NEW r \in Recorders, AsyncSetSetting(r) PROVE TelemetryInv'
  <2>1. PICK s \in Masks : toStore[r] = <<s>>
    BY <1>0, <1>6 DEF AsyncSetSetting, TelemetryShape
  <2>2. <<s>> \in Seq(Masks)
    OBVIOUS
  <2>3. writes' \in Seq(Masks)
    BY <1>0, <1>6, <2>1, <2>2, ConcatProperties DEF AsyncSetSetting
  <2>4. toStore' \in [Recorders -> {NothingToStore} \cup {<<t>> : t \in Masks}]
    BY <1>0, <1>6 DEF AsyncSetSetting, TelemetryShape
  <2>5. TelemetryShape'
    BY <1>0, <1>6, <2>3, <2>4 DEF AsyncSetSetting, TelemetryShape, heartbeatVars
  <2>6. ReportedInMemory' /\ ReportedWasReceived'
    BY <1>0, <1>6 DEF AsyncSetSetting, ReportedInMemory, ReportedWasReceived
  <2>7. QED
    BY <1>3, <1>6, <2>5, <2>6 DEF AsyncSetSetting, TelemetryInv
<1>7. ASSUME StoreSetting PROVE TelemetryInv'
  <2>1. Head(writes) \in Masks /\ writes' \in Seq(Masks)
    BY <1>0, <1>7, HeadTailProperties DEF StoreSetting
  <2>2. stored' \in Stores /\ stored'.reported = stored.reported
    BY <1>0, <1>7, <2>1 DEF StoreSetting, Stores
  <2>3. TelemetryShape'
    BY <1>0, <1>7, <2>1, <2>2 DEF StoreSetting, TelemetryShape, heartbeatVars
  <2>4. ReportedInMemory' /\ ReportedWasReceived'
    BY <1>0, <1>7, <2>2 DEF StoreSetting, ReportedInMemory, ReportedWasReceived
  <2>5. QED
    BY <1>3, <1>7, <2>3, <2>4 DEF StoreSetting, TelemetryInv
<1>8. ASSUME SendMilestones PROVE TelemetryInv'
  <2>1. flush' \in Flushes /\ flush'.at = "sent" /\ flush'.reported = {}
    BY <1>0, <1>8 DEF SendMilestones, TelemetryShape, NoFlush, Flushes, Masks
  <2>2. TelemetryShape'
    BY <1>0, <1>8, <2>1 DEF SendMilestones, TelemetryShape, heartbeatVars
  <2>3. ReportedInMemory' /\ ReportedWasReceived'
    BY <1>0, <1>8, <2>1 DEF SendMilestones, ReportedInMemory, ReportedWasReceived
  <2>4. QED
    BY <1>3, <1>8, <2>2, <2>3 DEF SendMilestones, TelemetryInv
<1>9. ASSUME MilestonesAnswered PROVE TelemetryInv'
  <2>1. flush.flushed \in Masks
    BY <1>0 DEF Flushes
  <2>2. unsent' \in Masks /\ reported' \in Masks /\ received' \in Masks
    BY <1>0, <1>9, <2>1 DEF MilestonesAnswered, Flushed, TelemetryShape, Masks
  <2>3. flush' \in Flushes /\ flush'.reported = reported'
    BY <1>0, <1>9, <2>2 DEF MilestonesAnswered, Flushes
  <2>4. TelemetryShape'
    BY <1>0, <1>9, <2>2, <2>3 DEF MilestonesAnswered, TelemetryShape, heartbeatVars
  <2>5. ReportedInMemory' /\ ReportedWasReceived'
    BY <1>0, <1>9, <2>3 DEF MilestonesAnswered, Flushed, ReportedInMemory, ReportedWasReceived
  <2>6. QED
    BY <1>3, <1>9, <2>4, <2>5 DEF MilestonesAnswered, TelemetryInv
<1>10. ASSUME MilestonesFail PROVE TelemetryInv'
  <2>1. flush.flushed \in Masks
    BY <1>0 DEF Flushes
  <2>2. received' \in Masks /\ received \subseteq received' /\ flush' = NoFlush
    BY <1>0, <1>10, <2>1 DEF MilestonesFail, TelemetryShape, Masks
  <2>3. TelemetryShape'
    BY <1>0, <1>2, <1>10, <2>2 DEF MilestonesFail, TelemetryShape, heartbeatVars
  <2>4. ReportedInMemory' /\ ReportedWasReceived'
    BY <1>0, <1>2, <1>10, <2>2 DEF MilestonesFail, ReportedInMemory, ReportedWasReceived
  <2>5. QED
    BY <1>3, <1>10, <2>3, <2>4 DEF MilestonesFail, TelemetryInv
<1>11. ASSUME StoreReported PROVE TelemetryInv'
  <2>1. flush.reported \in Masks
    BY <1>0 DEF Flushes
  <2>2. flush' \in Flushes /\ flush'.at = "pending" /\ flush'.reported = flush.reported
    BY <1>0, <1>11 DEF StoreReported, Flushes
  <2>3. stored' \in Stores /\ stored'.reported = flush.reported
    BY <1>0, <1>11, <2>1 DEF StoreReported, Stores
  <2>4. TelemetryShape'
    BY <1>0, <1>11, <2>2, <2>3 DEF StoreReported, TelemetryShape, heartbeatVars
  <2>5. ReportedInMemory' /\ ReportedWasReceived'
    BY <1>0, <1>11, <2>2, <2>3 DEF StoreReported, ReportedInMemory, ReportedWasReceived
  <2>6. QED
    BY <1>3, <1>11, <2>4, <2>5 DEF StoreReported, TelemetryInv
<1>12. ASSUME StorePending PROVE TelemetryInv'
  <2>1. flush.pending \in Masks
    BY <1>0 DEF Flushes
  <2>2. stored' \in Stores /\ stored'.reported = stored.reported
    BY <1>0, <1>12, <2>1 DEF StorePending, Stores
  <2>3. TelemetryShape'
    BY <1>0, <1>2, <1>12, <2>2 DEF StorePending, TelemetryShape, heartbeatVars
  <2>4. ReportedInMemory' /\ ReportedWasReceived'
    BY <1>0, <1>2, <1>12, <2>2 DEF StorePending, ReportedInMemory, ReportedWasReceived
  <2>5. QED
    BY <1>3, <1>12, <2>3, <2>4 DEF StorePending, TelemetryInv
<1>13. ASSUME Tick PROVE TelemetryInv'
  <2>1. TelemetryShape'
    BY <1>0, <1>1, <1>13 DEF Tick, TelemetryShape, milestoneVars
  <2>2. AccountedSince' /\ MinutesAreExact'
    BY <1>0, <1>1, <1>13 DEF Tick, AccountedSince, MinutesAreExact
  <2>3. QED
    BY <1>4, <1>13, <2>1, <2>2 DEF Tick, TelemetryInv
<1>14. ASSUME Heartbeat PROVE TelemetryInv'
  <2> DEFINE elapsed == clock - lastAccounting
  <2>1. elapsed \in Nat /\ startedAt <= lastAccounting /\ lastAccounting <= clock
    BY <1>0, <1>1 DEF AccountedSince
  <2>2. accounted' = accounted + Minutes(elapsed) /\ lastAccounting' = clock - Remainder(elapsed)
        /\ UNCHANGED <<clock, startedAt, starts>> /\ UNCHANGED milestoneVars
    BY <1>14 DEF Heartbeat
  <2>3. /\ Remainder(elapsed) \in 0..elapsed /\ Minutes(elapsed) \in Nat
        /\ elapsed < MaxOpen * TicksAMinute
             => Minutes(elapsed) * TicksAMinute + Remainder(elapsed) = elapsed
    BY <2>1, MinutesAndRest
  <2>4. /\ lastAccounting' \in Nat /\ lastAccounting <= lastAccounting' /\ lastAccounting' <= clock
        /\ accounted' \in Nat /\ clock - lastAccounting' = Remainder(elapsed)
    BY <1>1, <2>1, <2>2, <2>3
  <2>5. TelemetryShape'
    BY <1>0, <1>1, <2>2, <2>4 DEF TelemetryShape, milestoneVars
  <2>6. AccountedSince'
    BY <1>1, <2>1, <2>2, <2>4 DEF AccountedSince
  <2>7. ASSUME clock - startedAt < MaxOpen * TicksAMinute
        PROVE  accounted' * TicksAMinute + (clock - lastAccounting') = clock - startedAt
    <3>1. MaxOpen * TicksAMinute \in Nat /\ elapsed <= clock - startedAt
      BY <1>1, <2>1
    <3>2. elapsed < MaxOpen * TicksAMinute
      BY <1>1, <2>1, <2>7, <3>1
    <3>3. accounted * TicksAMinute + elapsed = clock - startedAt
      BY <1>0, <2>7 DEF MinutesAreExact
    <3>4. accounted' * TicksAMinute = accounted * TicksAMinute + Minutes(elapsed) * TicksAMinute
      BY <1>1, <2>2, <2>3
    <3>5. /\ accounted * TicksAMinute \in Nat /\ Minutes(elapsed) * TicksAMinute \in Nat
          /\ accounted' * TicksAMinute \in Nat
      <4>1. \A a, b \in Nat : a * b \in Nat
        OBVIOUS
      <4>2. QED
        BY <1>1, <2>3, <2>4, <4>1, Zenon
    <3>6. Minutes(elapsed) * TicksAMinute + Remainder(elapsed) = elapsed
      BY <2>3, <3>2
    <3>7. elapsed \in Nat /\ Remainder(elapsed) \in Nat /\ clock - startedAt \in Nat
      BY <1>1, <2>1, <2>3
    <3> DEFINE before == accounted * TicksAMinute
               given == Minutes(elapsed) * TicksAMinute
               after == accounted' * TicksAMinute
               rest == Remainder(elapsed)
               open == clock - startedAt
    <3>8. /\ after = before + given /\ given + rest = elapsed /\ before + elapsed = open
          /\ {after, before, given, rest, elapsed, open} \subseteq Nat
      BY <3>3, <3>4, <3>5, <3>6, <3>7
    <3> HIDE DEF elapsed, before, given, after, rest, open
    <3>9. after + rest = open
      BY <3>8
    <3>10. accounted' * TicksAMinute + Remainder(elapsed) = clock - startedAt
      BY <3>9 DEF after, rest, open
    <3>11. QED
      BY <2>4, <3>10
  <2>8. MinutesAreExact'
    BY <2>2, <2>7 DEF MinutesAreExact
  <2>9. QED
    BY <1>4, <2>2, <2>5, <2>6, <2>8 DEF TelemetryInv
<1>15. ASSUME StartTelemetry PROVE TelemetryInv'
  <2>1. stored.reported \in Masks /\ stored.pending \in Masks /\ <<>> \in Seq(Masks)
    BY <1>0, EmptySeq DEF Stores
  <2>2. TelemetryShape'
    BY <1>0, <1>1, <1>2, <1>15, <2>1 DEF StartTelemetry, LoadMasks, TelemetryShape
  <2>3. ReportedInMemory' /\ ReportedWasReceived'
    BY <1>0, <1>2, <1>15 DEF StartTelemetry, LoadMasks, ReportedInMemory, ReportedWasReceived
  <2>4. AccountedSince' /\ MinutesAreExact'
    BY <1>1, <1>15 DEF StartTelemetry, AccountedSince, MinutesAreExact
  <2>5. QED
    BY <2>2, <2>3, <2>4 DEF TelemetryInv
<1>16. CASE UNCHANGED telemetryVars
  BY <1>0, <1>3, <1>4, <1>16
     DEF telemetryVars, TelemetryInv, TelemetryShape, heartbeatVars, milestoneVars
<1>17. QED
  BY <1>5, <1>6, <1>7, <1>8, <1>9, <1>10, <1>11, <1>12, <1>13, <1>14, <1>15, <1>16
     DEF TelemetryNext

LEMMA PartHasTelemetry ==
  /\ PartInit => TelemetryInit
  /\ [PartNext]_allVars => [TelemetryNext]_telemetryVars
<1>1. PartInit => TelemetryInit
  BY DEF PartInit
<1>2. [PartNext]_allVars => [TelemetryNext]_telemetryVars
  BY DEF PartNext, allVars, fourthVars, InWorkQueue, InReaders, InDatabase, InSessions, InMatches,
         InMigrations, InPaging, InReplays, InAccount, InUpdateCheck, InUpdate, InHotkeys,
         InOverlay, InConfig, InTelemetry, InRemote, InTournaments
<1>3. QED
  BY <1>1, <1>2

\* A replay marked as uploaded is on the server and one marked as uploading is being uploaded; a
\* milestone marked as reported was received; and the minutes sent are those spent, whatever
\* answers are lost and however often the program starts.
THEOREM UploadsAreRight == PartSpec => []UploadsRight
<1>1. ReplayInv /\ TelemetryInv => UploadsRight
  BY TelemetryTyped DEF ReplayInv, TelemetryInv, UploadsRight
<1>2. QED
  BY <1>1, ReplayInitially, ReplayStep, PartHasReplays, TelemetryInitially, TelemetryStep,
     PartHasTelemetry, PTL DEF PartSpec

\* What the database says was reported, it says for good, over any number of starts and whatever
\* writes are still under way.
THEOREM MilestonesReportedForGood == PartSpec => ReportedForGood
<1>1. ASSUME TelemetryInv, [TelemetryNext]_telemetryVars
      PROVE  stored.reported \subseteq stored'.reported
  <2>1. stored \in Stores /\ stored.reported \subseteq reported
        /\ (flush.at = "reported" => flush.reported = reported)
    BY <1>1 DEF TelemetryInv, TelemetryShape, ReportedInMemory
  <2>2. \/ stored' = stored
        \/ stored' = [stored EXCEPT !.pending = Head(writes)]
        \/ stored' = [stored EXCEPT !.pending = flush.pending]
        \/ flush.at = "reported" /\ stored' = [stored EXCEPT !.reported = flush.reported]
    BY <1>1 DEF TelemetryNext, telemetryVars, RecordMilestone, AsyncSetSetting, StoreSetting,
                SendMilestones, MilestonesAnswered, MilestonesFail, StoreReported, StorePending,
                Tick, Heartbeat, StartTelemetry, milestoneVars
  <2>3. QED
    BY <2>1, <2>2 DEF Stores
<1>2. QED
  BY <1>1, TelemetryInitially, TelemetryStep, PartHasTelemetry, PTL DEF PartSpec, ReportedForGood

-----------------------------------------------------------------------------
\* Hotkeys, the overlay's buttons and the updater.

KeyTables == [Ids -> KeyCodes \cup {Unbound}]
Overlays == [session : BOOLEAN, graph : BOOLEAN, lifetime : BOOLEAN]
Presses == [hotKey : Ids, during : 0..MaxRebinds]
Passes ==
  [at : {"top", "register", "messages", "acting"}, next : 1..3, capturing : BOOLEAN,
   press : Presses]

HotKeyShape ==
  /\ bound \in KeyTables /\ cached \in KeyTables /\ registered \in KeyTables
  /\ presses \in Seq(Presses) /\ overlay \in Overlays /\ loop \in Passes
  /\ capture \in Ids \cup {NoCapture} /\ pressedKey \in KeyCodes \cup {Unbound}
  /\ rebinds \in 0..MaxRebinds

\* A press is of a capture that was begun; and the one the thread acts on, which it took while no
\* capture was on, is of an earlier one than the capture that is.
PressesAreEarlier ==
  /\ \A n \in DOMAIN presses : presses[n].during <= rebinds
  /\ loop.at = "acting" =>
       /\ loop.press.during <= rebinds
       /\ capture # NoCapture => loop.press.during < rebinds

\* KeysAreConfigured, as far as the pass has come.
Registered(i) == registered[i] \in {Unbound, cached[i]}
RegisteredSoFar ==
  loop.at = "register" =>
    ~loop.capturing /\ \A n \in 1..3 : n < loop.next => Registered(HotKeyIds[n])

HotKeyInv == HotKeyShape /\ PressesAreEarlier /\ RegisteredSoFar /\ KeysAreConfigured

LEMMA NoPressIsOne == NoPress \in Presses /\ Top \in Passes
<1>1. NoPress \in Presses
  BY HotKeysAssumption DEF NoPress, Presses, Ids
<1>2. QED
  BY <1>1 DEF Top, Passes

LEMMA HotKeyInitially == HotKeyInit => HotKeyInv
<1> SUFFICES ASSUME HotKeyInit PROVE HotKeyInv
  OBVIOUS
<1>1. bound \in KeyTables /\ registered \in KeyTables
  BY HotKeysAssumption DEF HotKeyInit, KeyTables, AllUnregistered
<1>2. <<>> \in Seq(Presses)
  BY EmptySeq
<1>3. overlay \in Overlays /\ loop \in Passes /\ loop.at = "top"
  BY NoPressIsOne DEF HotKeyInit, Overlays, Top
<1>4. HotKeyShape
  BY <1>1, <1>2, <1>3, HotKeysAssumption DEF HotKeyInit, HotKeyShape
<1>5. QED
  BY <1>3, <1>4
     DEF HotKeyInit, HotKeyInv, PressesAreEarlier, RegisteredSoFar, KeysAreConfigured

\* What registers a hotkey leaves the others alone, and gives it its key or none.
LEMMA RegisteredOne ==
  ASSUME HotKeyShape, NEW i \in Ids,
         NEW new, new \in {RegisterHotKeyIfNeeded(i), [registered EXCEPT ![i] = Unbound]}
  PROVE  /\ new \in KeyTables /\ new[i] \in {Unbound, cached[i]}
         /\ \A j \in Ids \ {i} : new[j] = registered[j]
<1>1. registered \in KeyTables /\ cached[i] \in KeyCodes \cup {Unbound}
  BY DEF HotKeyShape, KeyTables
<1>2. /\ WithoutOld(i) \in KeyTables /\ WithoutOld(i)[i] = Unbound
      /\ \A j \in Ids \ {i} : WithoutOld(i)[j] = registered[j]
  BY <1>1 DEF WithoutOld, KeyTables
<1> DEFINE with == [WithoutOld(i) EXCEPT ![i] = cached[i]]
<1>3. /\ with \in KeyTables /\ with[i] = cached[i]
      /\ \A j \in Ids \ {i} : with[j] = registered[j]
  BY <1>1, <1>2 DEF KeyTables
<1>4. \/ /\ new \in {registered, with, WithoutOld(i)}
         /\ new = registered => registered[i] = cached[i]
      \/ new = WithoutOld(i)
  BY DEF RegisterHotKeyIfNeeded, WithoutOld
<1> HIDE DEF with
<1>5. QED
  BY <1>1, <1>2, <1>3, <1>4

LEMMA PressesAreOne ==
  ASSUME HotKeyShape, NEW n \in DOMAIN presses
  PROVE  /\ presses[n] \in Presses
         /\ presses[n].hotKey \in Ids /\ presses[n].during \in 0..MaxRebinds
<1>1. presses[n] \in Presses
  <2>1. presses \in Seq(Presses)
    BY DEF HotKeyShape
  <2>2. n \in 1..Len(presses)
    BY <2>1, LenProperties
  <2>3. QED
    BY <2>1, <2>2, ElementOfSeq
<1>2. QED
  BY <1>1 DEF Presses

LEMMA HotKeyStep == HotKeyInv /\ [HotKeyNext]_hotKeyVars => HotKeyInv'
<1> SUFFICES ASSUME HotKeyInv, [HotKeyNext]_hotKeyVars PROVE HotKeyInv'
  OBVIOUS
<1>0. /\ bound \in KeyTables /\ cached \in KeyTables /\ registered \in KeyTables
      /\ presses \in Seq(Presses) /\ overlay \in Overlays /\ loop \in Passes
      /\ capture \in Ids \cup {NoCapture} /\ pressedKey \in KeyCodes \cup {Unbound}
      /\ rebinds \in 0..MaxRebinds /\ MaxRebinds \in Nat
      /\ PressesAreEarlier /\ RegisteredSoFar /\ KeysAreConfigured
  BY HotKeysAssumption DEF HotKeyInv, HotKeyShape
<1>1. \A t \in KeyTables, i \in Ids, k \in KeyCodes \cup {Unbound} : [t EXCEPT ![i] = k] \in KeyTables
  BY DEF KeyTables
<1>a. ASSUME UNCHANGED <<registered, cached, loop>>
      PROVE  RegisteredSoFar' /\ KeysAreConfigured'
  BY <1>0, <1>a DEF RegisteredSoFar, Registered, KeysAreConfigured
<1>b. \A n \in DOMAIN presses : presses[n] \in Presses /\ presses[n].during \in 0..MaxRebinds
  BY PressesAreOne DEF HotKeyInv
<1>c. loop.press \in Presses /\ loop.press.during \in 0..MaxRebinds
  BY <1>0 DEF Passes, Presses
<1>2. ASSUME NEW k \in KeyCodes, PressKey(k) PROVE HotKeyInv'
  <2> DEFINE owners == {i \in Ids : registered[i] = k}
             new == [hotKey |-> CHOOSE i \in owners : TRUE, during |-> CaptureNumber]
  <2>1. CaptureNumber \in 0..MaxRebinds /\ CaptureNumber <= rebinds
    BY <1>0 DEF CaptureNumber
  <2>2. \/ presses' = presses
        \/ new \in Presses /\ new.during <= rebinds /\ presses' = Append(presses, new)
    BY <1>2, <2>1 DEF PressKey, Presses
  <2>3. UNCHANGED <<bound, cached, registered, overlay, capture, loop, rebinds>>
        /\ pressedKey' \in KeyCodes \cup {Unbound}
    BY <1>0, <1>2 DEF PressKey
  <2> HIDE DEF new
  <2>4. presses' \in Seq(Presses) /\ \A n \in DOMAIN presses' : presses'[n].during <= rebinds
    <3>1. CASE presses' = presses
      BY <1>0, <3>1 DEF PressesAreEarlier
    <3>2. CASE new \in Presses /\ new.during <= rebinds /\ presses' = Append(presses, new)
      <4>1. /\ presses' \in Seq(Presses) /\ DOMAIN presses' = 1..(Len(presses) + 1)
            /\ \A n \in 1..Len(presses) : presses'[n] = presses[n]
            /\ presses'[Len(presses) + 1] = new
        BY <1>0, <3>2, AppendProperties
      <4>2. DOMAIN presses = 1..Len(presses) /\ Len(presses) \in Nat
        BY <1>0, LenProperties
      <4>3. QED
        BY <1>0, <3>2, <4>1, <4>2 DEF PressesAreEarlier
    <3>3. QED
      BY <2>2, <3>1, <3>2
  <2>5. HotKeyShape' /\ PressesAreEarlier'
    BY <1>0, <2>3, <2>4 DEF HotKeyShape, PressesAreEarlier
  <2>6. QED
    BY <1>a, <2>3, <2>5 DEF HotKeyInv
<1>3. ASSUME NEW i \in Ids, BeginCapture(i) PROVE HotKeyInv'
  <2>1. HotKeyShape'
    BY <1>0, <1>3 DEF BeginCapture, HotKeyShape
  <2>2. PressesAreEarlier'
    BY <1>0, <1>b, <1>c, <1>3 DEF BeginCapture, PressesAreEarlier
  <2>3. QED
    BY <1>a, <1>3, <2>1, <2>2 DEF BeginCapture, HotKeyInv
<1>4. ASSUME NEW i \in Ids, ClearBind(i) PROVE HotKeyInv'
  <2>1. Unbound \in KeyCodes \cup {Unbound} /\ [bound EXCEPT ![i] = Unbound] \in KeyTables
    BY <1>0, <1>1
  <2>2. rebinds' \in 0..MaxRebinds
    BY <1>0, <1>4 DEF ClearBind
  <2>3. HotKeyShape'
    BY <1>0, <1>4, <2>1, <2>2 DEF ClearBind, HotKeyShape
  <2>4. PressesAreEarlier'
    BY <1>0, <1>b, <1>c, <1>4 DEF ClearBind, PressesAreEarlier
  <2>5. QED
    BY <1>a, <1>4, <2>3, <2>4 DEF ClearBind, HotKeyInv
<1>5. ASSUME FinishCapture PROVE HotKeyInv'
  <2>1. HotKeyShape'
    BY <1>0, <1>1, <1>5 DEF FinishCapture, HotKeyShape
  <2>2. PressesAreEarlier'
    BY <1>0, <1>5 DEF FinishCapture, PressesAreEarlier
  <2>3. QED
    BY <1>a, <1>5, <2>1, <2>2 DEF FinishCapture, HotKeyInv
<1>6. ASSUME CancelCapture PROVE HotKeyInv'
  <2>1. HotKeyShape'
    BY <1>0, <1>6 DEF CancelCapture, HotKeyShape
  <2>2. PressesAreEarlier'
    BY <1>0, <1>6 DEF CancelCapture, PressesAreEarlier
  <2>3. QED
    BY <1>a, <1>6, <2>1, <2>2 DEF CancelCapture, HotKeyInv
<1>7. ASSUME BeginPass PROVE HotKeyInv'
  <2>1. /\ Top \in Passes /\ Top.next = 1 /\ ~Top.capturing
    BY NoPressIsOne DEF Top
  <2>2. /\ loop' \in Passes /\ loop'.next = 1 /\ loop'.at \in {"register", "messages"}
        /\ loop'.at = "register" => ~loop'.capturing
        /\ loop'.at = "messages" => loop'.capturing /\ registered' = AllUnregistered
    BY <1>7, <2>1 DEF BeginPass, WhileCapturing, Passes
  <2>3. registered' \in KeyTables
    BY <1>0, <1>7 DEF BeginPass, WhileCapturing, AllUnregistered, KeyTables
  <2>4. HotKeyShape'
    BY <1>0, <1>7, <2>2, <2>3 DEF BeginPass, HotKeyShape
  <2>5. PressesAreEarlier'
    BY <1>0, <1>7, <2>2 DEF BeginPass, PressesAreEarlier
  <2>6. RegisteredSoFar'
    BY <2>2 DEF RegisteredSoFar
  <2>7. KeysAreConfigured'
    BY <2>2 DEF KeysAreConfigured, AllUnregistered
  <2>8. QED
    BY <2>4, <2>5, <2>6, <2>7 DEF HotKeyInv
<1>8. ASSUME RegisterNext PROVE HotKeyInv'
  <2> DEFINE i == HotKeyIds[loop.next]
  <2>1. /\ loop.next \in 1..3 /\ i \in Ids /\ Len(HotKeyIds) = 3
        /\ \A n \in 1..3 : HotKeyIds[n] \in Ids /\ (HotKeyIds[n] = i => n = loop.next)
        /\ \A j \in Ids : \E n \in 1..3 : j = HotKeyIds[n]
    <3>1. loop.next \in 1..3 /\ Len(HotKeyIds) = 3
      BY <1>0 DEF Passes, HotKeyIds
    <3>2. /\ HotKeyIds[1] = "session" /\ HotKeyIds[2] = "expand" /\ HotKeyIds[3] = "pan"
      BY DEF HotKeyIds
    <3>3. QED
      BY <3>1, <3>2 DEF Ids
  <2>2. /\ UNCHANGED <<bound, cached, presses, overlay, capture, pressedKey, rebinds>>
        /\ registered' \in {RegisterHotKeyIfNeeded(i), [registered EXCEPT ![i] = Unbound]}
        /\ loop.at = "register"
    BY <1>8 DEF RegisterNext
  <2>3. /\ registered' \in KeyTables /\ registered'[i] \in {Unbound, cached[i]}
        /\ \A j \in Ids \ {i} : registered'[j] = registered[j]
    BY <2>1, <2>2, RegisteredOne DEF HotKeyInv
  <2>4. /\ loop' \in Passes /\ ~loop'.capturing
        /\ \/ loop.next = 3 /\ loop'.at = "messages"
           \/ loop.next # 3 /\ loop'.at = "register" /\ loop'.next = loop.next + 1
    <3>1. /\ [loop EXCEPT !.at = "messages"] \in Passes
          /\ [loop EXCEPT !.at = "messages"].at = "messages"
          /\ [loop EXCEPT !.at = "messages"].capturing = loop.capturing
      BY <1>0 DEF Passes
    <3>2. loop.next # 3 => /\ [loop EXCEPT !.next = @ + 1] \in Passes
                           /\ [loop EXCEPT !.next = @ + 1].next = loop.next + 1
                           /\ [loop EXCEPT !.next = @ + 1].at = "register"
                           /\ [loop EXCEPT !.next = @ + 1].capturing = loop.capturing
      BY <1>0, <2>1, <2>2 DEF Passes
    <3>3. ~loop.capturing
      BY <1>0, <2>2 DEF RegisteredSoFar
    <3>4. QED
      BY <1>8, <2>1, <3>1, <3>2, <3>3 DEF RegisterNext
  <2>5. \A n \in 1..3 : n < loop.next \/ n = loop.next => Registered(HotKeyIds[n])'
    BY <1>0, <2>1, <2>2, <2>3 DEF RegisteredSoFar, Registered
  <2> HIDE DEF i
  <2>6. RegisteredSoFar'
    BY <2>1, <2>4, <2>5 DEF RegisteredSoFar
  <2>7. KeysAreConfigured'
    <3>1. CASE loop.next = 3
      <4>1. \A j \in Ids : Registered(j)'
        BY <2>1, <2>5, <3>1
      <4>2. QED
        BY <2>4, <4>1 DEF KeysAreConfigured, Registered
    <3>2. CASE loop.next # 3
      BY <2>4, <3>2 DEF KeysAreConfigured
    <3>3. QED
      BY <3>1, <3>2
  <2>8. HotKeyShape' /\ PressesAreEarlier'
    BY <1>0, <2>2, <2>3, <2>4 DEF HotKeyShape, PressesAreEarlier
  <2>9. QED
    BY <2>6, <2>7, <2>8 DEF HotKeyInv
<1>9. ASSUME TakePress PROVE HotKeyInv'
  <2>1. /\ presses # <<>> /\ presses' = Tail(presses) /\ loop.at = "messages"
        /\ UNCHANGED <<bound, cached, registered, overlay, capture, pressedKey, rebinds>>
        /\ \/ loop' = loop
           \/ capture = NoCapture /\ loop' = [loop EXCEPT !.at = "acting", !.press = Head(presses)]
    BY <1>9 DEF TakePress, MayAct
  <2>2. /\ Head(presses) \in Presses /\ Head(presses) = presses[1] /\ 1 \in DOMAIN presses
        /\ Tail(presses) \in Seq(Presses) /\ Len(Tail(presses)) = Len(presses) - 1
        /\ \A n \in 1..Len(Tail(presses)) : Tail(presses)[n] = presses[n + 1]
    BY <1>0, <2>1, HeadTailProperties, LenProperties
  <2>3. \A n \in DOMAIN presses' : presses'[n].during <= rebinds
    <3>1. DOMAIN presses = 1..Len(presses) /\ DOMAIN presses' = 1..(Len(presses) - 1)
          /\ Len(presses) \in Nat
      BY <1>0, <2>1, <2>2, LenProperties
    <3>2. QED
      BY <1>0, <2>1, <2>2, <3>1 DEF PressesAreEarlier
  <2>4. Head(presses).during <= rebinds
    BY <1>0, <2>2 DEF PressesAreEarlier
  <2>5. /\ loop' \in Passes /\ loop'.at \in {"messages", "acting"}
        /\ loop'.capturing = loop.capturing
        /\ loop'.at = "acting" => capture = NoCapture /\ loop'.press = Head(presses)
    BY <1>0, <2>1, <2>2 DEF Passes
  <2>6. HotKeyShape' /\ PressesAreEarlier'
    BY <1>0, <2>1, <2>2, <2>3, <2>4, <2>5 DEF HotKeyShape, PressesAreEarlier
  <2>7. RegisteredSoFar' /\ KeysAreConfigured'
    BY <1>0, <2>1, <2>5 DEF RegisteredSoFar, KeysAreConfigured
  <2>8. QED
    BY <2>6, <2>7 DEF HotKeyInv
<1>10. ASSUME HandleHotKey PROVE HotKeyInv'
  <2>1. loop.press.hotKey \in Ids
    BY <1>c DEF Presses
  <2>2. SessionToggled \in Overlays /\ Expanded \in Overlays
    BY <1>0 DEF SessionToggled, Expanded, Overlays
  <2>3. AfterHotKey(loop.press.hotKey) \in Overlays
    BY <1>0, <2>1, <2>2 DEF AfterHotKey, Ids
  <2>4. loop' \in Passes /\ loop'.at = "messages" /\ loop'.capturing = loop.capturing
    BY <1>0, <1>10, NoPressIsOne DEF HandleHotKey, Passes
  <2>5. HotKeyShape' /\ PressesAreEarlier'
    BY <1>0, <1>10, <2>3, <2>4 DEF HandleHotKey, HotKeyShape, PressesAreEarlier
  <2>6. RegisteredSoFar' /\ KeysAreConfigured'
    BY <1>0, <1>10, <2>4 DEF HandleHotKey, RegisteredSoFar, KeysAreConfigured
  <2>7. QED
    BY <2>5, <2>6 DEF HotKeyInv
<1>11. ASSUME EndPass PROVE HotKeyInv'
  <2>1. Top \in Passes /\ Top.at = "top"
    BY NoPressIsOne DEF Top
  <2>2. HotKeyShape' /\ PressesAreEarlier'
    BY <1>0, <1>11, <2>1 DEF EndPass, HotKeyShape, PressesAreEarlier
  <2>3. QED
    BY <1>11, <2>1, <2>2 DEF EndPass, HotKeyInv, RegisteredSoFar, KeysAreConfigured
<1>12. CASE UNCHANGED hotKeyVars
  <2>1. HotKeyShape' /\ PressesAreEarlier'
    BY <1>0, <1>12 DEF hotKeyVars, HotKeyShape, PressesAreEarlier
  <2>2. QED
    BY <1>a, <1>12, <2>1 DEF hotKeyVars, HotKeyInv
<1>13. QED
  BY <1>2, <1>3, <1>4, <1>5, <1>6, <1>7, <1>8, <1>9, <1>10, <1>11, <1>12
     DEF HotKeyNext, KeyboardThread

\* No view changes in a capture but by a press from before it.
LEMMA HotKeyActs ==
  ASSUME HotKeyInv, [HotKeyNext]_hotKeyVars, overlay' # overlay, capture # NoCapture
  PROVE  loop.press.during # CaptureNumber
<1>1. HandleHotKey
  BY DEF HotKeyNext, hotKeyVars, PressKey, BeginCapture, ClearBind, FinishCapture, CancelCapture,
         KeyboardThread, BeginPass, RegisterNext, TakePress, EndPass
<1>2. loop.press.during \in 0..MaxRebinds /\ rebinds \in 0..MaxRebinds
  BY DEF HotKeyInv, HotKeyShape, Passes, Presses
<1>3. QED
  BY <1>1, <1>2, HotKeysAssumption DEF HandleHotKey, HotKeyInv, PressesAreEarlier, CaptureNumber

LEMMA HotKeysTyped == HotKeyInv => HotKeyTypeOK /\ KeysAreConfigured
<1> SUFFICES ASSUME HotKeyInv PROVE HotKeyTypeOK
  BY DEF HotKeyInv
<1>1. \A n \in DOMAIN presses : presses[n].hotKey \in Ids /\ presses[n].during \in 0..MaxRebinds
  BY PressesAreOne DEF HotKeyInv
<1>2. QED
  BY <1>1 DEF HotKeyInv, HotKeyShape, HotKeyTypeOK, KeyTables, Overlays

\* The gamepad thread has read the buttons in its pass, and has not acted on them yet.
HasRead == padPass.at \in {"read", "held"}

\* A push that was not seen has not acted, nor one that the thread did not read, or that a gamepad
\* came with while the thread still had another ...
UnseenHaveNotActed ==
  /\ menuDown => 1 <= pushes
  /\ menuDown /\ (~seenDown \/ opened = "gone" \/ (HasRead /\ padPass.menu = 0)) => toggles < pushes
  /\ HasRead /\ padPass.menu # 0 =>
       /\ padPass.menu <= pushes /\ (~seenDown => toggles < padPass.menu)
       /\ opened = "gone" /\ menuDown => padPass.menu < pushes

\* ... one that a capture has, or that became a binding, was seen, or is the one of this pass ...
BoundAreSeen ==
  /\ lastButton <= pushes /\ boundBy <= pushes
  /\ menuDown /\ (lastButton = pushes \/ boundBy = pushes) =>
       opened = "yes" /\ IF HasRead THEN padPass.menu = pushes ELSE seenDown

\* ... and no binding was made since a pass looked that saw no capture, unless one has begun.
NoneSinceItLooked ==
  /\ padPass.began <= captures
  /\ padPass.at # "top" /\ ~padPass.captured /\ captures = padPass.began =>
       /\ ~capturing
       /\ HasRead /\ padPass.menu # 0 /\ ~seenDown => padPass.menu # boundBy

PadIsKnown == opened = "no" => padPass.at = "top" /\ ~holds.gamepad

HoldInv ==
  /\ HoldTypeOK /\ toggles \in Nat /\ PressActsOnce
  /\ UnseenHaveNotActed /\ BoundAreSeen /\ NoneSinceItLooked /\ PadIsKnown

PadPasses ==
  [at : {"top", "looked", "read", "held"}, captured : BOOLEAN, began : 0..MaxCaptures,
   hold : BOOLEAN, menu : 0..MaxPushes]

LEMMA HoldInitially == HoldInit => HoldInv
<1> SUFFICES ASSUME HoldInit PROVE HoldInv
  OBVIOUS
<1>1. MaxPushes \in Nat /\ MaxUnplugs \in Nat /\ MaxCaptures \in Nat
  BY OverlayHoldAssumption
<1>2. holds \in [{"keyboard", "gamepad"} -> BOOLEAN] /\ ~holds.gamepad
  BY DEF HoldInit
<1>3. padPass \in PadPasses /\ padPass.at = "top" /\ padPass.began = 0
  BY <1>1 DEF HoldInit, NoPass, PadPasses
<1>4. /\ UnseenHaveNotActed /\ BoundAreSeen /\ NoneSinceItLooked /\ PadIsKnown
      /\ PressActsOnce /\ toggles \in Nat
  BY <1>2, <1>3
     DEF HoldInit, HasRead, UnseenHaveNotActed, BoundAreSeen, NoneSinceItLooked, PadIsKnown,
         PressActsOnce
<1>5. HoldTypeOK
  <2>1. /\ keyDown = FALSE /\ holdDown = FALSE /\ menuDown = FALSE /\ seenDown = FALSE
        /\ shown = FALSE /\ menuShown = FALSE /\ capturing = FALSE /\ padPresent \in BOOLEAN
    BY DEF HoldInit
  <2>2. /\ opened = "no" /\ lastButton \in 0..MaxPushes /\ boundBy \in 0..MaxPushes
        /\ pushes \in 0..MaxPushes /\ unplugs \in 0..MaxUnplugs /\ captures \in 0..MaxCaptures
        /\ keyboardPass = "top"
    BY <1>1, SMTT(30) DEF HoldInit
  <2>3. QED
    BY <1>2, <1>3, <2>1, <2>2 DEF HoldTypeOK, PadPasses
<1>6. QED
  BY <1>4, <1>5 DEF HoldInv

LEMMA HoldStep == HoldInv /\ [HoldNext]_holdVars => HoldInv'
<1> SUFFICES ASSUME HoldInv, [HoldNext]_holdVars PROVE HoldInv'
  OBVIOUS
<1>0. /\ keyDown \in BOOLEAN /\ padPresent \in BOOLEAN /\ holdDown \in BOOLEAN
      /\ menuDown \in BOOLEAN /\ seenDown \in BOOLEAN /\ shown \in BOOLEAN
      /\ menuShown \in BOOLEAN /\ capturing \in BOOLEAN
      /\ opened \in {"no", "yes", "gone"} /\ holds \in [{"keyboard", "gamepad"} -> BOOLEAN]
      /\ keyboardPass \in {"top", "capturing", "free"} /\ padPass \in PadPasses
      /\ lastButton \in 0..MaxPushes /\ boundBy \in 0..MaxPushes
      /\ pushes \in 0..MaxPushes /\ unplugs \in 0..MaxUnplugs /\ captures \in 0..MaxCaptures
      /\ MaxPushes \in Nat /\ MaxUnplugs \in Nat /\ MaxCaptures \in Nat /\ toggles \in Nat
      /\ toggles <= pushes
      /\ UnseenHaveNotActed /\ BoundAreSeen /\ NoneSinceItLooked /\ PadIsKnown
  BY OverlayHoldAssumption DEF HoldInv, HoldTypeOK, PadPasses, PressActsOnce
<1>p. /\ padPass.at \in {"top", "looked", "read", "held"} /\ padPass.captured \in BOOLEAN
      /\ padPass.began \in 0..MaxCaptures /\ padPass.hold \in BOOLEAN
      /\ padPass.menu \in 0..MaxPushes
  BY <1>0 DEF PadPasses
<1>n. NoPass \in PadPasses /\ NoPass.at = "top" /\ NoPass.began = 0 /\ NoPass.menu = 0
  BY <1>0 DEF NoPass, PadPasses
<1> DEFINE Relations == UnseenHaveNotActed /\ BoundAreSeen /\ NoneSinceItLooked /\ PadIsKnown
           Others == /\ {keyDown, padPresent, holdDown, menuDown, seenDown, shown, menuShown,
                         capturing} \subseteq BOOLEAN
                     /\ opened \in {"no", "yes", "gone"}
                     /\ holds \in [{"keyboard", "gamepad"} -> BOOLEAN]
                     /\ keyboardPass \in {"top", "capturing", "free"}
                     /\ padPass \in PadPasses
                     /\ lastButton \in 0..MaxPushes /\ boundBy \in 0..MaxPushes
                     /\ pushes \in 0..MaxPushes /\ unplugs \in 0..MaxUnplugs
                     /\ captures \in 0..MaxCaptures
                     /\ toggles \in Nat /\ toggles <= pushes
<1>q. ASSUME Others', Relations' PROVE HoldInv'
  BY <1>q DEF HoldInv, HoldTypeOK, PadPasses, PressActsOnce
<1> USE DEF HasRead, UnseenHaveNotActed, BoundAreSeen, NoneSinceItLooked, PadIsKnown
<1>1. ASSUME NEW source \in {"keyboard", "gamepad"}, NEW holding \in BOOLEAN,
             SetOverlayHeld(source, holding)
      PROVE  /\ holds' \in [{"keyboard", "gamepad"} -> BOOLEAN] /\ shown' \in BOOLEAN
             /\ holds'.gamepad = IF source = "gamepad" THEN holding ELSE holds.gamepad
  BY <1>0, <1>1 DEF SetOverlayHeld, Visible
<1>2. ASSUME PressOverlayKey \/ PressHoldButton PROVE HoldInv'
  <2>1. keyDown' \in BOOLEAN /\ holdDown' \in BOOLEAN
    BY <1>0, <1>2 DEF PressOverlayKey, PressHoldButton
  <2>2. /\ UNCHANGED <<padPresent, menuDown, opened, seenDown, holds, shown, menuShown>>
        /\ UNCHANGED <<capturing, lastButton, boundBy, pushes, unplugs, captures, toggles>>
        /\ UNCHANGED <<keyboardPass, padPass>>
    BY <1>2 DEF PressOverlayKey, PressHoldButton, counters, passes
  <2>3. QED
    BY <1>0, <1>q, <2>1, <2>2
<1>3. ASSUME PressMenuButton PROVE HoldInv'
  <2>1. /\ UNCHANGED <<keyDown, padPresent, holdDown, opened, seenDown, holds, shown, menuShown>>
        /\ UNCHANGED <<capturing, lastButton, boundBy, unplugs, captures, toggles>>
        /\ UNCHANGED <<keyboardPass, padPass>>
    BY <1>3 DEF PressMenuButton, passes
  <2>2. /\ menuDown' = ~menuDown /\ pushes' \in 0..MaxPushes
        /\ pushes' = IF menuDown THEN pushes ELSE pushes + 1
    BY <1>0, <1>3 DEF PressMenuButton
  <2>3. Others'
    BY <1>0, <2>1, <2>2
  <2>4. Relations'
    BY <1>0, <1>p, <2>1, <2>2
  <2>5. QED
    BY <1>q, <2>3, <2>4
<1>4. ASSUME PlugOrUnplug PROVE HoldInv'
  <2>1. /\ UNCHANGED <<keyDown, seenDown, holds, shown, menuShown, keyboardPass, padPass>>
        /\ UNCHANGED <<capturing, lastButton, boundBy, captures, toggles>>
    BY <1>4 DEF PlugOrUnplug, passes
  <2>2. /\ padPresent' \in BOOLEAN /\ holdDown' \in BOOLEAN /\ menuDown' \in BOOLEAN
        /\ opened' = IF opened = "yes" THEN "gone" ELSE opened
    BY <1>0, <1>4 DEF PlugOrUnplug
  <2>3. /\ unplugs' \in 0..MaxUnplugs /\ pushes' \in 0..MaxPushes
        /\ pushes' = IF menuDown' THEN pushes + 1 ELSE pushes
    <3>1. CASE padPresent
      BY <1>0, <1>4, <3>1 DEF PlugOrUnplug
    <3>2. CASE ~padPresent
      BY <1>0, <1>4, <3>2 DEF PlugOrUnplug
    <3>3. QED
      BY <1>0, <3>1, <3>2
  <2>4. Others'
    BY <1>0, <2>1, <2>2, <2>3
  <2>5. Relations'
    BY <1>0, <1>p, <2>1, <2>2, <2>3
  <2>6. QED
    BY <1>q, <2>4, <2>5
<1>5. ASSUME Escape \/ HideOverlay PROVE HoldInv'
  <2>1. menuShown' \in BOOLEAN /\ shown' \in BOOLEAN
    BY <1>0, <1>5 DEF Escape, HideOverlay
  <2>2. /\ UNCHANGED <<keyDown, padPresent, holdDown, menuDown, opened, seenDown, holds>>
        /\ UNCHANGED <<capturing, lastButton, boundBy, pushes, unplugs, captures, toggles>>
        /\ UNCHANGED <<keyboardPass, padPass>>
    BY <1>5 DEF Escape, HideOverlay, buttons, counters, passes
  <2>3. QED
    BY <1>0, <1>q, <2>1, <2>2
<1>6. ASSUME BeginBinding PROVE HoldInv'
  <2>1. /\ UNCHANGED <<keyDown, padPresent, holdDown, menuDown, opened, seenDown, holds, shown>>
        /\ UNCHANGED <<menuShown, boundBy, pushes, unplugs, toggles, keyboardPass, padPass>>
    BY <1>6 DEF BeginBinding, buttons, passes
  <2>2. /\ capturing' \in BOOLEAN /\ lastButton' = 0 /\ captures' \in 0..MaxCaptures
        /\ captures' = captures + 1
    BY <1>0, <1>6 DEF BeginBinding
  <2>3. Others'
    BY <1>0, <2>1, <2>2
  <2>4. Relations'
    BY <1>0, <1>p, <2>1, <2>2
  <2>5. QED
    BY <1>q, <2>3, <2>4
<1>7. ASSUME FinishBinding PROVE HoldInv'
  <2>1. /\ UNCHANGED <<keyDown, padPresent, holdDown, menuDown, opened, seenDown, holds, shown>>
        /\ UNCHANGED <<menuShown, lastButton, pushes, unplugs, captures, toggles>>
        /\ UNCHANGED <<keyboardPass, padPass>>
    BY <1>7 DEF FinishBinding, buttons, counters, passes
  <2>2. capturing = TRUE /\ capturing' = FALSE /\ boundBy' \in {lastButton, boundBy}
    BY <1>7 DEF FinishBinding
  <2>3. Others'
    BY <1>0, <2>1, <2>2
  <2>4. Relations'
    BY <1>0, <1>p, <2>1, <2>2
  <2>5. QED
    BY <1>q, <2>3, <2>4
<1>8. ASSUME LookAtCapture \/ PollKeyboard PROVE HoldInv'
  <2>1. /\ keyboardPass' \in {"top", "capturing", "free"} /\ shown' \in BOOLEAN
        /\ holds' \in [{"keyboard", "gamepad"} -> BOOLEAN] /\ holds'.gamepad = holds.gamepad
    <3>1. CASE LookAtCapture
      BY <1>0, <3>1 DEF LookAtCapture
    <3>2. CASE PollKeyboard
      BY <1>0, <1>1, <3>2 DEF PollKeyboard
    <3>3. QED
      BY <1>8, <3>1, <3>2
  <2>2. /\ UNCHANGED <<keyDown, padPresent, holdDown, menuDown, opened, seenDown, menuShown>>
        /\ UNCHANGED <<capturing, lastButton, boundBy, pushes, unplugs, captures, toggles, padPass>>
    BY <1>8 DEF LookAtCapture, PollKeyboard, buttons, counters
  <2>3. Others'
    BY <1>0, <2>1, <2>2
  <2>4. QED
    BY <1>0, <1>q, <2>1, <2>2, <2>3
<1>9. ASSUME OpenGamepad PROVE HoldInv'
  <2>1. /\ UNCHANGED <<keyDown, padPresent, holdDown, menuDown, seenDown, holds, shown, menuShown>>
        /\ UNCHANGED <<capturing, lastButton, boundBy, pushes, unplugs, captures, toggles>>
        /\ UNCHANGED <<keyboardPass, padPass>> /\ opened = "no" /\ opened' = "yes"
    BY <1>9 DEF OpenGamepad, buttons, counters, passes
  <2>2. Others' /\ Relations'
    BY <1>0, <2>1
  <2>3. QED
    BY <1>q, <2>2
<1>10. ASSUME WaitForGamepad PROVE HoldInv'
  <2>1. /\ UNCHANGED <<keyDown, padPresent, holdDown, menuDown, opened, seenDown, menuShown>>
        /\ UNCHANGED <<capturing, lastButton, boundBy, pushes, unplugs, captures, toggles>>
        /\ UNCHANGED <<keyboardPass, padPass>>
    BY <1>10 DEF WaitForGamepad, buttons, counters, passes
  <2>2. /\ holds' \in [{"keyboard", "gamepad"} -> BOOLEAN] /\ shown' \in BOOLEAN
        /\ ~holds'.gamepad
    BY <1>0, <1>1, <1>10 DEF WaitForGamepad
  <2>3. Others' /\ Relations'
    BY <1>0, <2>1, <2>2
  <2>4. QED
    BY <1>q, <2>3
<1>11. ASSUME BeginPadPass PROVE HoldInv'
  <2>1. /\ UNCHANGED <<keyDown, padPresent, holdDown, menuDown, opened, seenDown, holds, shown>>
        /\ UNCHANGED <<menuShown, capturing, lastButton, boundBy, pushes, unplugs, captures>>
        /\ UNCHANGED <<toggles, keyboardPass>> /\ opened # "no" /\ padPass.at = "top"
    BY <1>11 DEF BeginPadPass, buttons, counters
  <2>2. /\ padPass' \in PadPasses /\ padPass'.at = "looked" /\ padPass'.captured = capturing
        /\ padPass'.began = captures
    BY <1>0, <1>11, <1>n DEF BeginPadPass, PadPasses, NoPass
  <2>3. Others' /\ Relations'
    BY <1>0, <1>p, <2>1, <2>2
  <2>4. QED
    BY <1>q, <2>3
<1>12. ASSUME LoseGamepad PROVE HoldInv'
  <2>1. /\ UNCHANGED <<keyDown, padPresent, holdDown, menuDown, menuShown, keyboardPass>>
        /\ UNCHANGED <<capturing, lastButton, boundBy, pushes, unplugs, captures, toggles>>
        /\ opened = "gone" /\ opened' = "no" /\ seenDown' = FALSE /\ padPass.at = "looked"
        /\ padPass' = NoPass
    BY <1>12 DEF LoseGamepad, buttons, counters
  <2>2. /\ holds' \in [{"keyboard", "gamepad"} -> BOOLEAN] /\ shown' \in BOOLEAN
        /\ ~holds'.gamepad
    BY <1>0, <1>1, <1>12 DEF LoseGamepad, HoldEnds
  <2>3. Others'
    BY <1>0, <1>n, <2>1, <2>2
  <2>4. padPass'.at = "top" /\ padPass'.began <= captures'
    BY <1>0, <1>n, <2>1
  <2>5. Relations'
    BY <1>0, <2>1, <2>2, <2>4
  <2>6. QED
    BY <1>q, <2>3, <2>5
<1>13. ASSUME ReadButtons PROVE HoldInv'
  <2>1. /\ UNCHANGED <<keyDown, padPresent, holdDown, menuDown, opened, seenDown, holds, shown>>
        /\ UNCHANGED <<menuShown, capturing, boundBy, pushes, unplugs, captures>>
        /\ UNCHANGED <<toggles, keyboardPass>> /\ opened = "yes" /\ padPass.at = "looked"
        /\ lastButton' = IF menuDown THEN pushes ELSE lastButton
    BY <1>13 DEF ReadButtons, buttons, counters
  <2>2. /\ padPass' \in PadPasses /\ padPass'.at = "read" /\ padPass'.captured = padPass.captured
        /\ padPass'.began = padPass.began /\ padPass'.menu = IF menuDown THEN pushes ELSE 0
    <3> DEFINE menu == IF menuDown THEN pushes ELSE 0
    <3>1. menu \in 0..MaxPushes
      BY <1>0
    <3>2. padPass' = [padPass EXCEPT !.at = "read", !.hold = holdDown, !.menu = menu]
      BY <1>13 DEF ReadButtons
    <3> HIDE DEF menu
    <3>3. /\ padPass' \in PadPasses /\ padPass'.at = "read" /\ padPass'.began = padPass.began
          /\ padPass'.captured = padPass.captured /\ padPass'.menu = menu
      BY <1>0, <3>1, <3>2 DEF PadPasses
    <3>4. QED
      BY <3>3 DEF menu
  <2>3. Others'
    BY <1>0, <2>1, <2>2
  <2>4. Relations'
    BY <1>0, <1>p, <2>1, <2>2
  <2>5. QED
    BY <1>q, <2>3, <2>4
<1>14. ASSUME HoldOverlay PROVE HoldInv'
  <2>1. /\ UNCHANGED <<keyDown, padPresent, holdDown, menuDown, opened, seenDown, menuShown>>
        /\ UNCHANGED <<capturing, lastButton, boundBy, pushes, unplugs, captures, toggles>>
        /\ UNCHANGED keyboardPass /\ padPass.at = "read"
    BY <1>14 DEF HoldOverlay, buttons, counters
  <2>2. /\ padPass' \in PadPasses /\ padPass'.at = "held" /\ padPass'.captured = padPass.captured
        /\ padPass'.began = padPass.began /\ padPass'.menu = padPass.menu
    BY <1>0, <1>14 DEF HoldOverlay, PadPasses
  <2>3. holds' \in [{"keyboard", "gamepad"} -> BOOLEAN] /\ shown' \in BOOLEAN
    BY <1>0, <1>p, <1>1, <1>14 DEF HoldOverlay
  <2>4. Others' /\ Relations'
    BY <1>0, <2>1, <2>2, <2>3
  <2>5. QED
    BY <1>q, <2>4
<1>15. ASSUME ActOnButtons PROVE HoldInv'
  <2>1. /\ UNCHANGED <<keyDown, padPresent, holdDown, menuDown, opened, holds, shown>>
        /\ UNCHANGED <<capturing, lastButton, boundBy, pushes, unplugs, captures, keyboardPass>>
        /\ padPass.at = "held" /\ padPass' = NoPass /\ seenDown' = (padPass.menu # 0)
    BY <1>15 DEF ActOnButtons, SeenNow, buttons, counters
  <2>2. /\ menuShown' \in BOOLEAN
        /\ toggles' = IF ~padPass.captured /\ padPass.menu # 0 /\ ~seenDown THEN toggles + 1
                      ELSE toggles
    BY <1>0, <1>15 DEF ActOnButtons, JustPressed
  <2>3. Others'
    BY <1>0, <1>n, <1>p, <2>1, <2>2
  <2>4. Relations'
    BY <1>0, <1>n, <1>p, <2>1, <2>2
  <2>5. QED
    BY <1>q, <2>3, <2>4
<1>16. CASE UNCHANGED holdVars
  BY <1>0, <1>q, <1>16 DEF holdVars, buttons, counters, passes
<1>17. QED
  BY <1>2, <1>3, <1>4, <1>5, <1>6, <1>7, <1>8, <1>9, <1>10, <1>11, <1>12, <1>13, <1>14, <1>15,
     <1>16 DEF HoldNext, KeyboardHold, GamepadThread, PadPass

\* A push that became a binding toggles the menu only in a pass that had looked before the capture.
LEMMA HoldActs ==
  ASSUME HoldInv, [HoldNext]_holdVars, toggles' # toggles
  PROVE  padPass.menu # boundBy \/ captures # padPass.began
<1>1. ActOnButtons
  BY DEF HoldNext, holdVars, PressOverlayKey, PressHoldButton, PressMenuButton, PlugOrUnplug,
         Escape, HideOverlay, BeginBinding, FinishBinding, KeyboardHold, LookAtCapture,
         PollKeyboard, GamepadThread, OpenGamepad, WaitForGamepad, PadPass, BeginPadPass,
         LoseGamepad, ReadButtons, HoldOverlay
<1>2. padPass.at = "held" /\ ~padPass.captured /\ padPass.menu # 0 /\ ~seenDown
  BY <1>1 DEF ActOnButtons, JustPressed
<1>3. QED
  BY <1>2 DEF HoldInv, NoneSinceItLooked, HasRead

LEMMA PartHasHotkeys ==
  /\ PartInit => HotKeyInit
  /\ [PartNext]_allVars => [HotKeyNext]_hotKeyVars
<1>1. PartInit => HotKeyInit
  BY DEF PartInit
<1>2. [PartNext]_allVars => [HotKeyNext]_hotKeyVars
  BY DEF PartNext, allVars, thirdVars, fourthVars, InWorkQueue, InReaders, InDatabase, InSessions,
         InMatches, InMigrations, InPaging, InReplays, InAccount, InUpdateCheck, InUpdate,
         InHotkeys, InOverlay, InConfig, InTelemetry, InRemote, InTournaments
<1>3. QED
  BY <1>1, <1>2

LEMMA PartHasOverlay ==
  /\ PartInit => HoldInit
  /\ [PartNext]_allVars => [HoldNext]_holdVars
<1>1. PartInit => HoldInit
  BY DEF PartInit
<1>2. [PartNext]_allVars => [HoldNext]_holdVars
  BY DEF PartNext, allVars, thirdVars, fourthVars, InWorkQueue, InReaders, InDatabase, InSessions,
         InMatches, InMigrations, InPaging, InReplays, InAccount, InUpdateCheck, InUpdate,
         InHotkeys, InOverlay, InConfig, InTelemetry, InRemote, InTournaments
<1>3. QED
  BY <1>1, <1>2

LEMMA PartHasUpdate ==
  /\ PartInit => InstallInit
  /\ [PartNext]_allVars => [InstallNext]_installVars
<1>1. PartInit => InstallInit
  BY DEF PartInit
<1>2. [PartNext]_allVars => [InstallNext]_installVars
  BY DEF PartNext, allVars, thirdVars, fourthVars, InWorkQueue, InReaders, InDatabase, InSessions,
         InMatches, InMigrations, InPaging, InReplays, InAccount, InUpdateCheck, InUpdate,
         InHotkeys, InOverlay, InConfig, InTelemetry, InRemote, InTournaments
<1>3. QED
  BY <1>1, <1>2

\* An updater that goes on does so after the program that asked for it, and only with a version it
\* accepted after it compared it with the installed one.
Updaters == [at : {"none", "waiting", "ready", "fetched", "downloaded", "installing"},
             version : Versions \cup {NoOffer}, got : Versions \cup {NoOffer},
             parent : {"none", "alive", "gone"}]

Accepting == updater.at \in {"fetched", "downloaded", "installing"}

UpdateInv ==
  /\ InstallTypeOK /\ updater \in Updaters
  /\ updater.parent = "alive" => updater.at = "waiting"
  /\ Accepting => updater.version \in Versions /\ Acceptable(updater.version)
  /\ updater.at = "downloaded" => updater.got \in Versions
  /\ updater.at = "installing" => updater.got = updater.version

LEMMA NoUpdaterIsOne == NoUpdater \in Updaters /\ NoUpdater.at = "none" /\ NoUpdater.parent = "none"
BY DEF NoUpdater, Updaters, NoOffer

LEMMA UpdateInitially == InstallInit => UpdateInv
<1> SUFFICES ASSUME InstallInit PROVE UpdateInv
  OBVIOUS
<1>1. updater \in Updaters /\ updater.at = "none" /\ updater.parent = "none"
  BY NoUpdaterIsOne DEF InstallInit
<1>2. InstallTypeOK
  BY <1>1, UpdateInstallAssumption DEF InstallInit, InstallTypeOK
<1>3. QED
  BY <1>1, <1>2 DEF UpdateInv, Accepting

LEMMA UpdateStep == UpdateInv /\ [InstallNext]_installVars => UpdateInv'
<1> SUFFICES ASSUME UpdateInv, [InstallNext]_installVars PROVE UpdateInv'
  OBVIOUS
<1>0. /\ installed \in Versions /\ manifest \in Versions /\ package \in Versions
      /\ releases \in 0..MaxReleases /\ MaxReleases \in Nat
      /\ offered \in Versions \cup {NoOffer} /\ app \in {"running", "exiting", "ended"}
      /\ updater \in Updaters
      /\ updater.parent = "alive" => updater.at = "waiting"
      /\ Accepting => updater.version \in Versions /\ Acceptable(updater.version)
      /\ updater.at = "downloaded" => updater.got \in Versions
      /\ updater.at = "installing" => updater.got = updater.version
  BY UpdateInstallAssumption DEF UpdateInv, InstallTypeOK
<1>1. /\ updater.at \in {"none", "waiting", "ready", "fetched", "downloaded", "installing"}
      /\ updater.parent \in {"none", "alive", "gone"}
  BY <1>0 DEF Updaters
<1>2. ASSUME UNCHANGED installed, UNCHANGED updater,
             {manifest', package'} \subseteq Versions, releases' \in 0..MaxReleases,
             offered' \in Versions \cup {NoOffer}, app' \in {"running", "exiting", "ended"}
      PROVE  UpdateInv'
  BY <1>0, <1>1, <1>2 DEF UpdateInv, InstallTypeOK, Acceptable, Accepting
<1>3. ASSUME UNCHANGED <<installed, manifest, package, releases>>,
             offered' \in Versions \cup {NoOffer}, app' \in {"running", "exiting", "ended"},
             updater' \in Updaters, updater'.at \in {"none", "waiting", "ready"},
             updater'.parent = "alive" => updater'.at = "waiting"
      PROVE  UpdateInv'
  <2>1. updater'.parent \in {"none", "alive", "gone"}
    BY <1>3 DEF Updaters
  <2>2. InstallTypeOK'
    BY <1>0, <1>3, <2>1 DEF InstallTypeOK
  <2>3. QED
    BY <1>3, <2>2 DEF UpdateInv, Accepting
<1>4. ASSUME NewRelease PROVE UpdateInv'
  BY <1>0, <1>2, <1>4 DEF NewRelease
<1>5. ASSUME LearnVersion PROVE UpdateInv'
  BY <1>0, <1>2, <1>5 DEF LearnVersion, serverState
<1>6. ASSUME StartInteractiveUpdate PROVE UpdateInv'
  <2>1. updater' \in Updaters /\ updater'.at = "waiting"
    BY <1>0, <1>6 DEF StartInteractiveUpdate, Updaters, NoOffer
  <2>2. QED
    BY <1>0, <1>3, <1>6, <2>1 DEF StartInteractiveUpdate, serverState
<1>7. ASSUME RunUpdaterByHand PROVE UpdateInv'
  <2>1. /\ [NoUpdater EXCEPT !.at = "waiting"] \in Updaters
        /\ [NoUpdater EXCEPT !.at = "waiting"].at = "waiting"
    BY NoUpdaterIsOne DEF Updaters
  <2>2. QED
    BY <1>0, <1>3, <1>7, <2>1 DEF RunUpdaterByHand, serverState
<1>8. ASSUME Exit PROVE UpdateInv'
  <2>1. UNCHANGED <<installed, manifest, package, releases>> /\ app' = "ended" /\ offered' = NoOffer
    BY <1>8 DEF Exit, serverState
  <2>2. CASE updater.parent = "alive"
    <3>1. /\ [updater EXCEPT !.parent = "gone"] \in Updaters
          /\ [updater EXCEPT !.parent = "gone"].at = updater.at
          /\ [updater EXCEPT !.parent = "gone"].parent = "gone"
      BY <1>0 DEF Updaters
    <3>2. updater' = [updater EXCEPT !.parent = "gone"] /\ updater.at = "waiting"
      BY <1>0, <1>8, <2>2 DEF Exit
    <3>3. QED
      BY <1>3, <2>1, <3>1, <3>2
  <2>3. CASE updater.parent # "alive"
    BY <1>0, <1>2, <1>8, <2>1, <2>3 DEF Exit
  <2>4. QED
    BY <2>2, <2>3
<1>9. ASSUME WaitForExit PROVE UpdateInv'
  <2>1. /\ [updater EXCEPT !.at = "ready"] \in Updaters
        /\ [updater EXCEPT !.at = "ready"].at = "ready"
        /\ [updater EXCEPT !.at = "ready"].parent = updater.parent
    BY <1>0 DEF Updaters
  <2>2. /\ updater' \in Updaters /\ updater'.at \in {"ready", "none"}
        /\ updater'.parent # "alive"
    BY <1>1, <1>9, <2>1, NoUpdaterIsOne DEF WaitForExit, AwaitProgram
  <2>3. QED
    BY <1>0, <1>3, <1>9, <2>2 DEF WaitForExit, UpdaterOnly, serverState
<1>10. ASSUME FetchManifest PROVE UpdateInv'
  <2> DEFINE new == [updater EXCEPT !.at = "fetched", !.version = manifest]
  <2>1. /\ new \in Updaters /\ new.at = "fetched" /\ new.version = manifest
        /\ new.parent = updater.parent
    BY <1>0 DEF Updaters
  <2>2. UNCHANGED <<installed, app, manifest, package, releases, offered>> /\ updater.at = "ready"
    BY <1>10 DEF FetchManifest, UpdaterOnly, serverState
  <2>3. CASE updater' = NoUpdater
    BY <1>0, <1>3, <2>2, <2>3, NoUpdaterIsOne
  <2>4. CASE Acceptable(manifest) /\ updater' = new
    <3> HIDE DEF new
    <3>1. updater'.parent # "alive"
      BY <1>0, <2>1, <2>2, <2>4
    <3>2. updater'.parent \in {"none", "alive", "gone"}
      BY <2>1, <2>4 DEF Updaters
    <3>3. InstallTypeOK'
      BY <1>0, <2>1, <2>2, <2>4, <3>2 DEF InstallTypeOK
    <3>4. Acceptable(updater.version)' /\ updater'.version \in Versions
      BY <1>0, <2>1, <2>2, <2>4 DEF Acceptable
    <3>5. QED
      BY <2>1, <2>4, <3>1, <3>3, <3>4 DEF UpdateInv
  <2>5. QED
    BY <1>10, <2>3, <2>4 DEF FetchManifest
<1>11. ASSUME Download PROVE UpdateInv'
  <2> DEFINE new == [updater EXCEPT !.at = "downloaded", !.got = package]
  <2>1. /\ new \in Updaters /\ new.at = "downloaded" /\ new.got = package
        /\ new.version = updater.version /\ new.parent = updater.parent
    BY <1>0 DEF Updaters
  <2>2. UNCHANGED <<installed, app, manifest, package, releases, offered>> /\ updater.at = "fetched"
    BY <1>11 DEF Download, UpdaterOnly, serverState
  <2>3. CASE updater' = NoUpdater
    BY <1>0, <1>3, <2>2, <2>3, NoUpdaterIsOne
  <2>4. CASE updater' = new
    <3> HIDE DEF new
    <3>1. updater'.parent # "alive"
      BY <1>0, <2>1, <2>2, <2>4
    <3>2. updater'.parent \in {"none", "alive", "gone"}
      BY <2>1, <2>4 DEF Updaters
    <3>3. InstallTypeOK'
      BY <1>0, <2>1, <2>2, <2>4, <3>2 DEF InstallTypeOK
    <3>4. Acceptable(updater.version)' /\ updater'.version \in Versions
      BY <1>0, <2>1, <2>2, <2>4 DEF Acceptable, Accepting
    <3>5. QED
      BY <1>0, <2>1, <2>4, <3>1, <3>3, <3>4 DEF UpdateInv
  <2>5. QED
    BY <1>11, <2>3, <2>4 DEF Download
<1>12. ASSUME LaunchInstaller PROVE UpdateInv'
  <2> DEFINE new == [updater EXCEPT !.at = "installing"]
  <2>1. /\ new \in Updaters /\ new.at = "installing" /\ new.got = updater.got
        /\ new.version = updater.version /\ new.parent = updater.parent
    BY <1>0 DEF Updaters
  <2>2. /\ UNCHANGED <<installed, app, manifest, package, releases, offered>>
        /\ updater.at = "downloaded"
    BY <1>12 DEF LaunchInstaller, UpdaterOnly, serverState
  <2>3. CASE updater' = NoUpdater
    BY <1>0, <1>3, <2>2, <2>3, NoUpdaterIsOne
  <2>4. CASE PackageFits /\ updater' = new
    <3> HIDE DEF new
    <3>1. updater'.parent # "alive"
      BY <1>0, <2>1, <2>2, <2>4
    <3>2. updater'.parent \in {"none", "alive", "gone"}
      BY <2>1, <2>4 DEF Updaters
    <3>3. InstallTypeOK'
      BY <1>0, <2>1, <2>2, <2>4, <3>2 DEF InstallTypeOK
    <3>4. Acceptable(updater.version)' /\ updater'.version \in Versions
      BY <1>0, <2>1, <2>2, <2>4 DEF Acceptable, Accepting
    <3>5. updater'.got = updater'.version
      BY <2>1, <2>4 DEF PackageFits
    <3>6. QED
      BY <2>1, <2>4, <3>1, <3>3, <3>4, <3>5 DEF UpdateInv
  <2>5. QED
    BY <1>12, <2>3, <2>4 DEF LaunchInstaller
<1>13. ASSUME Install PROVE UpdateInv'
  <2>1. updater' \in Updaters /\ updater'.at = "none" /\ updater'.parent = "none"
    BY <1>13, NoUpdaterIsOne DEF Install
  <2>2. installed' \in Versions /\ app' \in {"running", "exiting", "ended"}
    BY <1>0, <1>13 DEF Install, Accepting
  <2>3. InstallTypeOK'
    BY <1>0, <1>13, <2>1, <2>2 DEF Install, UpdaterOnly, serverState, InstallTypeOK
  <2>4. QED
    BY <2>1, <2>3 DEF UpdateInv, Accepting
<1>14. ASSUME StartProgram PROVE UpdateInv'
  BY <1>0, <1>2, <1>14 DEF StartProgram, UpdaterOnly, serverState
<1>15. CASE UNCHANGED installVars
  BY <1>0, <1>2, <1>15 DEF installVars, serverState
<1>16. QED
  BY <1>4, <1>5, <1>6, <1>7, <1>8, <1>9, <1>10, <1>11, <1>12, <1>13, <1>14, <1>15 DEF InstallNext

\* What the parts that handle keys, buttons and updates promise of every state: a hotkey listens on
\* no key but its own, a push of the gamepad's menu button acts once at most, however the passes
\* of the thread fall, and a gamepad that is gone holds the overlay no more.
THEOREM InputIsRight == PartSpec => []InputRight
<1>1. HotKeyInv /\ HoldInv /\ UpdateInv => InputRight
  BY HotKeysTyped DEF HoldInv, PadIsKnown, NoPadHoldsNothing, UpdateInv, InputRight
<1>2. QED
  BY <1>1, HotKeyInitially, HotKeyStep, PartHasHotkeys, HoldInitially, HoldStep, PartHasOverlay,
     UpdateInitially, UpdateStep, PartHasUpdate, PTL DEF PartSpec

\* While a key is wanted for a binding no press of that capture changes what is shown, though its
\* hotkey is still registered and the thread looks at the capture flag before it acts and not
\* while it does: a message it acts on in a capture is one it took before.
THEOREM CaptureActsOnNothing == PartSpec => NothingHappensInCapture
<1>1. HotKeyInv /\ [HotKeyNext]_hotKeyVars =>
        [overlay' # overlay /\ capture # NoCapture => loop.press.during # CaptureNumber]_hotKeyVars
  BY HotKeyActs
<1>2. QED
  BY <1>1, HotKeyInitially, HotKeyStep, PartHasHotkeys, PTL DEF PartSpec, NothingHappensInCapture

\* The press of a gamepad's button that became a binding does not also act on the menu, however
\* long the button stays down after the capture; unless the capture began after the pass that read
\* the button had looked for one.
THEOREM BoundPressActsOnNothing == PartSpec => BindingPressDoesNothing
<1>1. HoldInv /\ [HoldNext]_holdVars =>
        [toggles' # toggles => padPass.menu # boundBy \/ captures # padPass.began]_holdVars
  BY HoldActs
<1>2. QED
  BY <1>1, HoldInitially, HoldStep, PartHasOverlay, PTL DEF PartSpec, BindingPressDoesNothing

\* No update replaces the files under the program that asked for it, though the updater waits no
\* longer than 15 seconds, others may be run by hand and the user may start the program again.
THEOREM NeverUnderItsAsker == PartSpec => AskerHasEnded
<1>1. ASSUME UpdateInv, [InstallNext]_installVars, installed' # installed
      PROVE  updater.parent # "alive"
  <2>1. Install
    BY <1>1 DEF InstallNext, installVars, serverState, UpdaterOnly, NewRelease, LearnVersion,
                StartInteractiveUpdate, RunUpdaterByHand, Exit, WaitForExit, FetchManifest,
                Download, LaunchInstaller, StartProgram
  <2>2. QED
    BY <1>1, <2>1 DEF Install, UpdateInv
<1>2. QED
  BY <1>1, UpdateInitially, UpdateStep, PartHasUpdate, PTL DEF PartSpec, AskerHasEnded

\* Nor does an update ever replace it by a version that IsNewerVersion says is older, whatever the
\* server serves between the check, the manifest and the package.  (That IsNewerVersion compares
\* the numbers, NeverOlder, is left to TLC: the numbers are folds.)
THEOREM NeverReplacedByOlder ==
  PartSpec => [][installed' # installed => ~IsNewerVersion(installed', installed)]_installVars
<1>1. ASSUME UpdateInv, [InstallNext]_installVars, installed' # installed
      PROVE  ~IsNewerVersion(installed', installed)
  <2>1. Install
    BY <1>1 DEF InstallNext, installVars, serverState, UpdaterOnly, NewRelease, LearnVersion,
                StartInteractiveUpdate, RunUpdaterByHand, Exit, WaitForExit, FetchManifest,
                Download, LaunchInstaller, StartProgram
  <2>2. installed' = updater.version /\ Acceptable(updater.version)
    BY <1>1, <2>1 DEF Install, UpdateInv, Accepting
  <2>3. QED
    BY <2>2 DEF Acceptable
<1>2. QED
  BY <1>1, UpdateInitially, UpdateStep, PartHasUpdate, PTL DEF PartSpec

-----------------------------------------------------------------------------
\* The settings: the credential in memory, its ciphertext and the file.

AnyCredential == Credentials \cup {NoCredential}
Memories == [setting : 0..MaxUpdates, credential : AnyCredential]
ConfigFiles == [state : {"whole", "missing", "corrupt"}, setting : 0..MaxUpdates, cell : Cells]
OnDisk(credential) == IF credential = NoCredential THEN Blank ELSE Cell("user", credential)

ConfigShape ==
  /\ file \in ConfigFiles /\ inMemory \in Memories /\ cipher \in Cells /\ known \in AnyCredential
  /\ dpapi \in BOOLEAN /\ running \in {"off", "on", "stopping", "ended"}
  /\ saver \in {"waiting", "delaying", "writing", "wrote", "over"}
  /\ running = "off" => saver = "over"
  /\ pending \in BOOLEAN /\ behind \in BOOLEAN /\ failed \in BOOLEAN
  /\ configUpdates \in 0..MaxUpdates /\ configLaunches \in 0..MaxLaunches
  /\ writeFailures \in 0..MaxFailures

\* A file that cannot be read has no credential, and nothing in the clear is taken for a ciphertext.
FilesAreSound == (file.state # "whole" => file.cell = Blank) /\ cipher.form # "plain"

\* A session that can encrypt knows what its ciphertext is of ...
CipherIsKnown == dpapi => cipher = Blank \/ (known \in Credentials /\ cipher = Cell("user", known))

\* ... and one that cannot has the ciphertext of the file, and knows nothing of it.
CipherIsOfFile ==
  running # "off" /\ ~dpapi =>
    known = NoCredential /\ (file.cell.form \in {"user", "machine"} => cipher = file.cell)

FileIsUpToDate ==
  running # "off" /\ dpapi /\ ~behind /\ ~failed => file.cell = OnDisk(inMemory.credential)

ConfigInv == ConfigShape /\ FilesAreSound /\ CipherIsKnown /\ CipherIsOfFile /\ FileIsUpToDate

LEMMA CellFacts ==
  /\ Blank \in Cells /\ Blank.form = "blank" /\ Blank.of = NoCredential
  /\ \A c \in Credentials : /\ Cell("user", c) \in Cells /\ Cell("user", c).form = "user"
                            /\ Cell("user", c).of = c /\ Cell("user", c) # Blank
  /\ \A cell \in Cells : cell.form = "blank" => cell = Blank
  /\ \A cell \in Cells : cell.form = "user" => cell.of \in Credentials /\ cell = Cell("user", cell.of)
  /\ \A cell \in Cells : /\ cell.form \in {"blank", "user", "machine", "plain"}
                         /\ cell.of \in AnyCredential
                         /\ cell.form # "blank" => cell.of \in Credentials
<1>1. Blank \in Cells /\ Blank.form = "blank" /\ Blank.of = NoCredential
  BY DEF Cells, Cell, Blank
<1>2. \A form \in {"user", "machine", "plain"}, c \in Credentials :
        /\ Cell(form, c) \in Cells /\ Cell(form, c).form = form /\ Cell(form, c).of = c
        /\ Cell(form, c) # Blank
  BY DEF Cells, Cell, Blank
<1>3. \A cell \in Cells : cell = Blank
        \/ \E form \in {"user", "machine", "plain"}, c \in Credentials : cell = Cell(form, c)
  BY DEF Cells
<1>4. QED
  BY <1>1, <1>2, <1>3 DEF AnyCredential

LEMMA FileFacts ==
  /\ NoConfigFile \in ConfigFiles /\ NoConfigFile.cell = Blank /\ NoConfigFile.state = "missing"
  /\ Unreadable \in ConfigFiles /\ Unreadable.cell = Blank /\ Unreadable.state = "corrupt"
  /\ \A n \in 0..MaxUpdates, cell \in Cells :
       /\ File(n, cell) \in ConfigFiles /\ File(n, cell).cell = cell
       /\ File(n, cell).state = "whole"
BY ConfigStoreAssumption, CellFacts DEF NoConfigFile, Unreadable, File, ConfigFiles

\* What SaveInternal does, in each kind of session.
LEMMA SaveIsSound ==
  ASSUME NEW m \in Memories, NEW c \in Cells, NEW k \in AnyCredential,
         dpapi' \in BOOLEAN, file \in ConfigFiles, behind \in BOOLEAN,
         writeFailures \in 0..MaxFailures, c.form # "plain",
         dpapi' => c = Blank \/ (k \in Credentials /\ c = Cell("user", k)),
         ~dpapi' => k = NoCredential,
         SaveInternal(m, c, k)
  PROVE  /\ cipher' \in Cells /\ cipher'.form # "plain" /\ known' \in AnyCredential
         /\ file' \in ConfigFiles /\ failed' \in BOOLEAN /\ behind' \in BOOLEAN
         /\ writeFailures' \in 0..MaxFailures
         /\ dpapi' => cipher' = Blank \/ (known' \in Credentials /\ cipher' = Cell("user", known'))
         /\ ~dpapi' => known' = NoCredential /\ cipher' = c
         /\ file' = file \/ (file'.cell = Blank /\ "corrupt" \in {file.state, file'.state})
              \/ (file'.state = "whole" /\ file'.cell.form # "plain"
                    /\ file'.cell = IF dpapi' THEN OnDisk(m.credential) ELSE c)
         /\ ~failed' => file'.state = "whole"
                          /\ file'.cell = IF dpapi' THEN OnDisk(m.credential) ELSE c
<1> DEFINE text == Ciphertext(m.credential, c, k)
<1>1. m.credential \in AnyCredential /\ m.setting \in 0..MaxUpdates
  BY DEF Memories
<1>2. dpapi' => text = OnDisk(m.credential)
  <2>1. ASSUME dpapi', KeepsCipher(m.credential, c, k) PROVE c = OnDisk(m.credential)
    BY <2>1, ConfigStoreAssumption DEF KeepsCipher, OnDisk
  <2>2. QED
    BY <2>1 DEF Ciphertext, OnDisk
<1>3. ~dpapi' => text = c
  BY DEF Ciphertext, KeepsCipher, Unencrypted
<1>4. OnDisk(m.credential) \in Cells /\ OnDisk(m.credential).form # "plain"
  BY <1>1, CellFacts DEF OnDisk, AnyCredential
<1>5. text \in Cells /\ text.form # "plain"
  BY <1>2, <1>3, <1>4
<1>6. /\ cipher' = IF m.credential # NoCredential /\ ~dpapi' THEN c ELSE text
      /\ known' = KnownAs(m.credential, c, k)
      /\ \/ /\ file' = File(m.setting, text) /\ behind' = FALSE /\ failed' = FALSE
            /\ UNCHANGED writeFailures
         \/ /\ writeFailures < MaxFailures /\ writeFailures' = writeFailures + 1
            /\ failed' = TRUE /\ UNCHANGED behind
            /\ file' \in {IF file.state = "corrupt" THEN NoConfigFile ELSE file, Unreadable}
  BY DEF SaveInternal
<1> HIDE DEF text
<1>7. cipher' = text
  BY <1>3, <1>6
<1>8. known' \in AnyCredential /\ (~dpapi' => known' = k)
  BY <1>1, <1>6 DEF KnownAs
<1>9. dpapi' => cipher' = Blank \/ (known' \in Credentials /\ cipher' = Cell("user", known'))
  <2>1. ASSUME dpapi', m.credential # NoCredential PROVE known' = m.credential
    BY <2>1, <1>6 DEF KnownAs, KeepsCipher
  <2>2. QED
    BY <2>1, <1>1, <1>2, <1>7 DEF OnDisk, AnyCredential
<1>10. /\ File(m.setting, text) \in ConfigFiles /\ File(m.setting, text).cell = text
       /\ File(m.setting, text).state = "whole"
  BY <1>1, <1>5, FileFacts
<1>11. /\ file' \in ConfigFiles /\ failed' \in BOOLEAN /\ behind' \in BOOLEAN
       /\ writeFailures' \in 0..MaxFailures
  <2>1. file' \in {File(m.setting, text), NoConfigFile, Unreadable, file}
    BY <1>6
  <2>2. file' \in ConfigFiles
    BY <2>1, <1>10, FileFacts
  <2>3. failed' \in BOOLEAN /\ behind' \in BOOLEAN
    BY <1>6
  <2>4. writeFailures' \in 0..MaxFailures
    BY <1>6, ConfigStoreAssumption
  <2>5. QED
    BY <2>2, <2>3, <2>4
<1>12. \/ file' = file \/ file' = File(m.setting, text)
       \/ file'.cell = Blank /\ "corrupt" \in {file.state, file'.state}
  BY <1>6, FileFacts
<1>13. text = IF dpapi' THEN OnDisk(m.credential) ELSE c
  BY <1>2, <1>3
<1>14. ~failed' => file' = File(m.setting, text)
  BY <1>6
<1>15. QED
  BY <1>3, <1>5, <1>7, <1>8, <1>9, <1>10, <1>11, <1>12, <1>13, <1>14

LEMMA ConfigInitially == ConfigInit => ConfigInv
<1> SUFFICES ASSUME ConfigInit PROVE ConfigInv
  OBVIOUS
<1>1. file \in ConfigFiles /\ (file.state # "whole" => file.cell = Blank)
  BY FileFacts, ConfigStoreAssumption DEF ConfigInit
<1>2. inMemory \in Memories
  BY ConfigStoreAssumption DEF ConfigInit, Defaults, Memories, AnyCredential
<1>3. ConfigShape
  <2>1. cipher \in Cells /\ known \in AnyCredential
    BY CellFacts DEF ConfigInit, AnyCredential
  <2>2. /\ dpapi \in BOOLEAN /\ running = "off" /\ saver = "over" /\ pending \in BOOLEAN
        /\ behind \in BOOLEAN /\ failed \in BOOLEAN
    BY DEF ConfigInit
  <2>3. /\ configUpdates \in 0..MaxUpdates /\ configLaunches \in 0..MaxLaunches
        /\ writeFailures \in 0..MaxFailures
    BY ConfigStoreAssumption DEF ConfigInit
  <2>4. QED
    BY <1>1, <1>2, <2>1, <2>2, <2>3 DEF ConfigShape
<1>4. QED
  BY <1>1, <1>3, CellFacts
     DEF ConfigInit, ConfigInv, FilesAreSound, CipherIsKnown, CipherIsOfFile, FileIsUpToDate

LEMMA ConfigStep == ConfigInv /\ [ConfigNext]_configVars => ConfigInv'
<1> SUFFICES ASSUME ConfigInv, [ConfigNext]_configVars PROVE ConfigInv'
  OBVIOUS
<1>0. /\ file \in ConfigFiles /\ inMemory \in Memories /\ cipher \in Cells /\ known \in AnyCredential
      /\ dpapi \in BOOLEAN /\ running \in {"off", "on", "stopping", "ended"}
      /\ saver \in {"waiting", "delaying", "writing", "wrote", "over"}
      /\ running = "off" => saver = "over"
      /\ pending \in BOOLEAN /\ behind \in BOOLEAN /\ failed \in BOOLEAN
      /\ configUpdates \in 0..MaxUpdates /\ configLaunches \in 0..MaxLaunches
      /\ writeFailures \in 0..MaxFailures
  BY DEF ConfigInv, ConfigShape
<1>1. FilesAreSound /\ CipherIsKnown /\ CipherIsOfFile /\ FileIsUpToDate
  BY DEF ConfigInv
<1>2. MaxUpdates \in Nat /\ MaxLaunches \in Nat /\ MaxFailures \in Nat /\ NoCredential \notin Credentials
  BY ConfigStoreAssumption
<1>3. Defaults \in Memories /\ Defaults.credential = NoCredential
  BY <1>2 DEF Defaults, Memories, AnyCredential
\* A save of what is in memory in a session that goes on.
<1>4. ASSUME running # "off", UNCHANGED dpapi, UNCHANGED inMemory, SaveInternal(inMemory, cipher, known)
      PROVE  /\ cipher' \in Cells /\ known' \in AnyCredential /\ file' \in ConfigFiles
             /\ failed' \in BOOLEAN /\ behind' \in BOOLEAN /\ writeFailures' \in 0..MaxFailures
             /\ FilesAreSound' /\ CipherIsKnown' /\ CipherIsOfFile' /\ FileIsUpToDate'
  <2>1. /\ cipher.form # "plain" /\ (~dpapi => known = NoCredential)
        /\ dpapi => cipher = Blank \/ (known \in Credentials /\ cipher = Cell("user", known))
    BY <1>1, <1>4 DEF FilesAreSound, CipherIsKnown, CipherIsOfFile
  <2>2. /\ cipher' \in Cells /\ cipher'.form # "plain" /\ known' \in AnyCredential
        /\ file' \in ConfigFiles /\ failed' \in BOOLEAN /\ behind' \in BOOLEAN
        /\ writeFailures' \in 0..MaxFailures
        /\ dpapi' => cipher' = Blank \/ (known' \in Credentials /\ cipher' = Cell("user", known'))
        /\ ~dpapi' => known' = NoCredential /\ cipher' = cipher
        /\ file' = file \/ (file'.cell = Blank /\ "corrupt" \in {file.state, file'.state})
             \/ (file'.state = "whole" /\ file'.cell.form # "plain"
                   /\ file'.cell = IF dpapi' THEN OnDisk(inMemory.credential) ELSE cipher)
        /\ ~failed' => file'.state = "whole"
                         /\ file'.cell = IF dpapi' THEN OnDisk(inMemory.credential) ELSE cipher
    BY <1>0, <1>4, <2>1, SaveIsSound
  <2>3. FilesAreSound' /\ CipherIsKnown'
    BY <1>1, <2>2 DEF FilesAreSound, CipherIsKnown
  <2>4. CipherIsOfFile'
    BY <1>1, <1>4, <2>2, CellFacts DEF CipherIsOfFile
  <2>5. FileIsUpToDate'
    BY <1>4, <2>2 DEF FileIsUpToDate
  <2>6. QED
    BY <2>2, <2>3, <2>4, <2>5
<1>5. ASSUME LaunchWithConfig PROVE ConfigInv'
  <2>1. /\ configLaunches' \in 0..MaxLaunches /\ dpapi' \in BOOLEAN /\ running' = "on"
        /\ saver' = "waiting" /\ UNCHANGED configUpdates
    BY <1>0, <1>2, <1>5 DEF LaunchWithConfig
  <2>2. CASE LoadDefaults
    <3>1. /\ inMemory' = Defaults /\ pending' = FALSE /\ file.state # "whole"
          /\ SaveInternal(Defaults, Blank, NoCredential)
      BY <2>2 DEF LoadDefaults
    <3>2. NoCredential \in AnyCredential /\ Blank \in Cells /\ Blank.form # "plain"
      BY CellFacts DEF AnyCredential
    <3>3. /\ cipher' \in Cells /\ cipher'.form # "plain" /\ known' \in AnyCredential
          /\ file' \in ConfigFiles /\ failed' \in BOOLEAN /\ behind' \in BOOLEAN
          /\ writeFailures' \in 0..MaxFailures
          /\ dpapi' => cipher' = Blank \/ (known' \in Credentials /\ cipher' = Cell("user", known'))
          /\ ~dpapi' => known' = NoCredential /\ cipher' = Blank
          /\ file' = file \/ (file'.cell = Blank /\ "corrupt" \in {file.state, file'.state})
               \/ (file'.state = "whole" /\ file'.cell.form # "plain"
                     /\ file'.cell = IF dpapi' THEN OnDisk(Defaults.credential) ELSE Blank)
          /\ ~failed' => file'.state = "whole"
                           /\ file'.cell = IF dpapi' THEN OnDisk(Defaults.credential) ELSE Blank
      BY <1>0, <1>3, <2>1, <3>1, <3>2, SaveIsSound
    <3>4. file'.cell = Blank
      BY <1>1, <1>3, <3>1, <3>3 DEF FilesAreSound, OnDisk
    <3>5. ConfigShape'
      BY <1>0, <1>3, <2>1, <3>1, <3>3 DEF ConfigShape
    <3>6. FilesAreSound' /\ CipherIsKnown' /\ CipherIsOfFile' /\ FileIsUpToDate'
      BY <1>3, <3>1, <3>3, <3>4, CellFacts
         DEF FilesAreSound, CipherIsKnown, CipherIsOfFile, FileIsUpToDate, OnDisk
    <3>7. QED
      BY <3>5, <3>6 DEF ConfigInv
  <2>3. CASE LoadFile
    <3> DEFINE m == [setting |-> file.setting, credential |-> Decrypted(file.cell)]
    <3>1. file.cell \in Cells /\ file.setting \in 0..MaxUpdates
      BY <1>0 DEF ConfigFiles
    <3>2. /\ Decrypted(file.cell) \in AnyCredential
          /\ dpapi' => Decrypted(file.cell) = file.cell.of
      BY <3>1, CellFacts DEF Decrypted, AnyCredential
    <3>3. m \in Memories /\ m.credential = Decrypted(file.cell)
      BY <3>1, <3>2 DEF Memories
    <3>4. /\ file.state = "whole" /\ inMemory' = m /\ pending' \in BOOLEAN
          /\ IF file.cell.form \in {"machine", "plain"} /\ dpapi'
             THEN SaveInternal(m, Cell("user", m.credential), m.credential)
             ELSE /\ cipher' = CipherOf(file.cell) /\ known' = KnownOf(file.cell)
                  /\ behind' = FALSE /\ failed' = FALSE /\ UNCHANGED <<file, writeFailures>>
      BY <2>3 DEF LoadFile
    <3> HIDE DEF m
    <3>5. CASE file.cell.form \in {"machine", "plain"} /\ dpapi'
      <4>1. /\ m.credential \in Credentials /\ m.credential \in AnyCredential
            /\ Cell("user", m.credential) \in Cells /\ Cell("user", m.credential).form # "plain"
        BY <3>1, <3>2, <3>3, <3>5, CellFacts DEF AnyCredential
      <4>2. SaveInternal(m, Cell("user", m.credential), m.credential)
        BY <3>4, <3>5
      <4>3. /\ cipher' \in Cells /\ cipher'.form # "plain" /\ known' \in AnyCredential
            /\ file' \in ConfigFiles /\ failed' \in BOOLEAN /\ behind' \in BOOLEAN
            /\ writeFailures' \in 0..MaxFailures
            /\ cipher' = Blank \/ (known' \in Credentials /\ cipher' = Cell("user", known'))
            /\ \/ file' = file \/ file'.state = "whole"
               \/ file'.cell = Blank /\ "corrupt" \in {file.state, file'.state}
            /\ ~failed' => file'.cell = OnDisk(m.credential)
        BY <1>0, <2>1, <3>3, <3>5, <4>1, <4>2, SaveIsSound
      <4>4. ConfigShape'
        BY <1>0, <2>1, <3>3, <3>4, <4>3 DEF ConfigShape
      <4>5. FilesAreSound' /\ CipherIsKnown' /\ CipherIsOfFile' /\ FileIsUpToDate'
        BY <3>4, <3>5, <4>3 DEF FilesAreSound, CipherIsKnown, CipherIsOfFile, FileIsUpToDate
      <4>6. QED
        BY <4>4, <4>5 DEF ConfigInv
    <3>6. CASE ~(file.cell.form \in {"machine", "plain"} /\ dpapi')
      <4>1. /\ cipher' = CipherOf(file.cell) /\ known' = KnownOf(file.cell)
            /\ behind' = FALSE /\ failed' = FALSE /\ UNCHANGED <<file, writeFailures>>
        BY <3>4, <3>6
      <4>2. /\ cipher' \in Cells /\ cipher'.form # "plain" /\ known' \in AnyCredential
            /\ file.cell.form \in {"user", "machine"} => cipher' = file.cell
            /\ ~dpapi' => known' = NoCredential
        BY <3>1, <4>1, CellFacts DEF CipherOf, KnownOf, AnyCredential
      <4>3. dpapi' => file.cell.form \in {"blank", "user"}
        BY <3>1, <3>6, CellFacts
      <4>4. ASSUME dpapi', file.cell.form = "user"
            PROVE  cipher' = Cell("user", known') /\ known' \in Credentials
                     /\ m.credential = known'
        BY <3>1, <3>2, <3>3, <4>1, <4>2, <4>4, CellFacts DEF KnownOf
      <4>5. ASSUME dpapi', file.cell.form = "blank"
            PROVE  cipher' = Blank /\ m.credential = NoCredential /\ file.cell = Blank
        BY <3>1, <3>2, <3>3, <4>1, <4>5, CellFacts DEF CipherOf
      <4>6. ConfigShape'
        BY <1>0, <2>1, <3>3, <3>4, <4>1, <4>2 DEF ConfigShape
      <4>7. FilesAreSound' /\ CipherIsKnown' /\ CipherIsOfFile'
        BY <3>4, <4>1, <4>2, <4>3, <4>4, <4>5 DEF FilesAreSound, CipherIsKnown, CipherIsOfFile
      <4>8. FileIsUpToDate'
        BY <1>2, <3>4, <4>1, <4>2, <4>3, <4>4, <4>5 DEF FileIsUpToDate, OnDisk
      <4>9. QED
        BY <4>6, <4>7, <4>8 DEF ConfigInv
    <3>7. QED
      BY <3>5, <3>6
  <2>4. QED
    BY <1>5, <2>2, <2>3 DEF LaunchWithConfig
<1>6. ASSUME UpdateConfig PROVE ConfigInv'
  <2>1. inMemory' \in Memories /\ configUpdates' \in 0..MaxUpdates
    <3>1. configUpdates' \in 0..MaxUpdates
      BY <1>0, <1>2, <1>6 DEF UpdateConfig
    <3>2. [inMemory EXCEPT !.setting = configUpdates'] \in Memories
      BY <1>0, <3>1 DEF Memories
    <3>3. \A c \in AnyCredential : [inMemory EXCEPT !.credential = c] \in Memories
      BY <1>0 DEF Memories
    <3>4. QED
      BY <1>6, <3>1, <3>2, <3>3 DEF UpdateConfig, AnyCredential
  <2>2. /\ pending' = TRUE /\ behind' = (behind \/ inMemory' # inMemory) /\ running = "on"
        /\ UNCHANGED <<file, cipher, known, dpapi, running, saver, failed, configLaunches,
                       writeFailures>>
    BY <1>6 DEF UpdateConfig
  <2>3. ConfigShape'
    BY <1>0, <2>1, <2>2 DEF ConfigShape
  <2>4. QED
    BY <1>1, <2>2, <2>3
       DEF ConfigInv, FilesAreSound, CipherIsKnown, CipherIsOfFile, FileIsUpToDate
<1>7. ASSUME SaveNow PROVE ConfigInv'
  <2>1. /\ running # "off" /\ SaveInternal(inMemory, cipher, known)
        /\ UNCHANGED <<inMemory, dpapi, running, saver, pending, configUpdates, configLaunches>>
    BY <1>7 DEF SaveNow
  <2>2. QED
    BY <1>0, <1>4, <2>1 DEF ConfigInv, ConfigShape
<1>8. ASSUME WakeSaver \/ TakePending \/ SaverGoesOn \/ ShutdownSaver PROVE ConfigInv'
  <2>1. /\ UNCHANGED <<file, inMemory, cipher, known, dpapi, behind, failed, configUpdates>>
        /\ UNCHANGED <<configLaunches, writeFailures>>
        /\ running' = running \/ (running = "on" /\ running' = "stopping")
        /\ saver' \in {"waiting", "delaying", "writing", "wrote", "over"} /\ pending' \in BOOLEAN
        /\ running' = "off" => saver' = "over"
    BY <1>0, <1>8 DEF WakeSaver, TakePending, SaverGoesOn, MarkAfterWrite, ShutdownSaver
  <2>2. QED
    BY <1>0, <1>1, <2>1 DEF ConfigInv, ConfigShape, FilesAreSound, CipherIsKnown, CipherIsOfFile,
                            FileIsUpToDate
<1>9. ASSUME SaverWrites PROVE ConfigInv'
  <2>1. /\ running # "off" /\ saver' = "wrote" /\ SaveInternal(inMemory, cipher, known)
        /\ UNCHANGED <<inMemory, dpapi, running, pending, configUpdates, configLaunches>>
    BY <1>0, <1>9 DEF SaverWrites
  <2>2. QED
    BY <1>0, <1>4, <2>1 DEF ConfigInv, ConfigShape
<1>10. ASSUME SaverJoined PROVE ConfigInv'
  <2>1. /\ running = "stopping" /\ running' = "ended" /\ pending' = FALSE
        /\ UNCHANGED <<inMemory, dpapi, saver, configUpdates, configLaunches>>
    BY <1>10 DEF SaverJoined
  <2>2. CASE pending
    <3>1. SaveInternal(inMemory, cipher, known)
      BY <1>10, <2>2 DEF SaverJoined
    <3>2. QED
      BY <1>0, <1>4, <2>1, <3>1 DEF ConfigInv, ConfigShape
  <2>3. CASE ~pending
    <3>1. UNCHANGED <<file, cipher, known, behind, failed, writeFailures>>
      BY <1>10, <2>3 DEF SaverJoined
    <3>2. QED
      BY <1>0, <1>1, <2>1, <3>1 DEF ConfigInv, ConfigShape, FilesAreSound, CipherIsKnown,
                                    CipherIsOfFile, FileIsUpToDate
  <2>4. QED
    BY <1>0, <2>2, <2>3
<1>11. ASSUME Killed PROVE ConfigInv'
  <2>1. ConfigShape'
    BY <1>0, <1>3, <1>11, CellFacts DEF Killed, ConfigShape, AnyCredential
  <2>2. QED
    BY <1>1, <1>11, <2>1, CellFacts DEF Killed, ConfigInv, FilesAreSound, CipherIsKnown,
                                        CipherIsOfFile, FileIsUpToDate
<1>12. CASE UNCHANGED configVars
  BY <1>0, <1>1, <1>12 DEF configVars, ConfigInv, ConfigShape, FilesAreSound, CipherIsKnown,
                           CipherIsOfFile, FileIsUpToDate
<1>13. QED
  BY <1>5, <1>6, <1>7, <1>8, <1>9, <1>10, <1>11, <1>12 DEF ConfigNext, SaverThread

LEMMA PartHasConfig ==
  /\ PartInit => ConfigInit
  /\ [PartNext]_allVars => [ConfigNext]_configVars
<1>1. PartInit => ConfigInit
  BY DEF PartInit
<1>2. [PartNext]_allVars => [ConfigNext]_configVars
  BY ZenonT(60) DEF PartNext, allVars, fourthVars, InWorkQueue, InReaders, InDatabase, InSessions, InMatches,
         InMigrations, InPaging, InReplays, InAccount, InUpdateCheck, InUpdate, InHotkeys,
         InOverlay, InConfig, InTelemetry, InRemote, InTournaments
<1>3. QED
  BY <1>1, <1>2

\* What a step that changes the file does to the credential in it.
LEMMA ConfigWrites ==
  ASSUME ConfigInv, [ConfigNext]_configVars
  PROVE  /\ file'.cell.form = "plain" => file' = file
         /\ file.cell.form \in {"user", "machine"} /\ ~dpapi' =>
              file'.cell = file.cell \/ file'.state = "corrupt"
<1>0. /\ file \in ConfigFiles /\ file.cell \in Cells /\ inMemory \in Memories /\ cipher \in Cells
      /\ known \in AnyCredential /\ dpapi \in BOOLEAN /\ behind \in BOOLEAN
      /\ writeFailures \in 0..MaxFailures
      /\ FilesAreSound /\ CipherIsKnown /\ CipherIsOfFile
  BY DEF ConfigInv, ConfigShape, ConfigFiles
<1>1. ASSUME running # "off", UNCHANGED dpapi, SaveInternal(inMemory, cipher, known)
      PROVE  /\ file'.cell.form = "plain" => file' = file
             /\ file.cell.form \in {"user", "machine"} /\ ~dpapi' =>
                  file'.cell = file.cell \/ file'.state = "corrupt"
  <2>1. /\ cipher.form # "plain" /\ (~dpapi => known = NoCredential)
        /\ dpapi => cipher = Blank \/ (known \in Credentials /\ cipher = Cell("user", known))
    BY <1>0, <1>1 DEF FilesAreSound, CipherIsKnown, CipherIsOfFile
  <2>2. file' = file \/ (file'.cell = Blank /\ "corrupt" \in {file.state, file'.state})
          \/ (file'.cell.form # "plain"
                /\ file'.cell = IF dpapi' THEN OnDisk(inMemory.credential) ELSE cipher)
    BY <1>0, <1>1, <2>1, SaveIsSound
  <2>3. file.state = "corrupt" => file.cell = Blank
    BY <1>0 DEF FilesAreSound
  <2>4. file.cell.form \in {"user", "machine"} /\ ~dpapi' => cipher = file.cell
    BY <1>0, <1>1 DEF CipherIsOfFile
  <2>5. QED
    BY <2>2, <2>3, <2>4, CellFacts
<1>2. ASSUME LaunchWithConfig
      PROVE  /\ file'.cell.form = "plain" => file' = file
             /\ file.cell.form \in {"user", "machine"} /\ ~dpapi' =>
                  file'.cell = file.cell \/ file'.state = "corrupt"
  <2>1. CASE LoadDefaults
    <3>1. dpapi' \in BOOLEAN /\ file.cell = Blank /\ SaveInternal(Defaults, Blank, NoCredential)
      BY <1>0, <1>2, <2>1 DEF LaunchWithConfig, LoadDefaults, FilesAreSound
    <3>2. /\ Defaults \in Memories /\ NoCredential \in AnyCredential
          /\ Defaults.credential = NoCredential
      BY ConfigStoreAssumption DEF Defaults, Memories, AnyCredential
    <3>3. file' = file \/ file'.cell = Blank \/ file'.cell.form # "plain"
      BY <1>0, <3>1, <3>2, SaveIsSound, CellFacts
    <3>4. QED
      BY <3>1, <3>3, CellFacts
  <2>2. CASE LoadFile
    <3> DEFINE m == [setting |-> file.setting, credential |-> Decrypted(file.cell)]
    <3>1. /\ dpapi' \in BOOLEAN
          /\ IF file.cell.form \in {"machine", "plain"} /\ dpapi'
             THEN SaveInternal(m, Cell("user", m.credential), m.credential)
             ELSE UNCHANGED file
      BY <1>2, <2>2 DEF LaunchWithConfig, LoadFile
    <3>2. ASSUME file.cell.form \in {"machine", "plain"}, dpapi'
          PROVE  file' = file \/ file'.cell.form # "plain"
      <4>1. Decrypted(file.cell) = file.cell.of /\ file.cell.of \in Credentials
        BY <1>0, <3>2, CellFacts DEF Decrypted
      <4>2. m \in Memories /\ m.credential \in Credentials /\ m.credential \in AnyCredential
        BY <1>0, <4>1 DEF Memories, ConfigFiles, AnyCredential
      <4>3. Cell("user", m.credential) \in Cells /\ Cell("user", m.credential).form # "plain"
        BY <4>2, CellFacts
      <4>4. SaveInternal(m, Cell("user", m.credential), m.credential)
        BY <3>1, <3>2
      <4> HIDE DEF m
      <4>5. QED
        BY <1>0, <3>1, <3>2, <4>2, <4>3, <4>4, SaveIsSound, CellFacts
    <3>3. QED
      BY <3>1, <3>2
  <2>3. QED
    BY <1>2, <2>1, <2>2 DEF LaunchWithConfig
<1>3. ASSUME SaveNow \/ SaverWrites \/ SaverJoined
      PROVE  /\ file'.cell.form = "plain" => file' = file
             /\ file.cell.form \in {"user", "machine"} /\ ~dpapi' =>
                  file'.cell = file.cell \/ file'.state = "corrupt"
  <2>1. running # "off" /\ UNCHANGED dpapi
    BY <1>3 DEF SaveNow, SaverWrites, SaverJoined, ConfigInv, ConfigShape
  <2>2. SaveInternal(inMemory, cipher, known) \/ UNCHANGED file
    BY <1>3 DEF SaveNow, SaverWrites, SaverJoined
  <2>3. QED
    BY <1>1, <2>1, <2>2
<1>4. CASE WakeSaver \/ TakePending \/ SaverGoesOn \/ ShutdownSaver \/ UpdateConfig \/ Killed
             \/ UNCHANGED configVars
  BY <1>4 DEF WakeSaver, TakePending, SaverGoesOn, ShutdownSaver, UpdateConfig, Killed, configVars
<1>5. QED
  BY <1>2, <1>3, <1>4 DEF ConfigNext, SaverThread

\* No write puts a credential on disk in the clear, also where encryption fails.
THEOREM SecretsAreEncrypted == PartSpec => NeverInTheClear
BY ConfigWrites, ConfigInitially, ConfigStep, PartHasConfig, PTL DEF PartSpec, NeverInTheClear

\* A ciphertext this session can neither read nor replace outlives it, whatever is saved meanwhile,
\* unless a write that a full disk cuts off leaves a file that cannot be read at all.
THEOREM ForeignCiphertextsStay == PartSpec => CiphertextIsKept
BY ConfigWrites, ConfigInitially, ConfigStep, PartHasConfig, PTL DEF PartSpec, CiphertextIsKept

-----------------------------------------------------------------------------
\* The remote configuration: its cache, the notes put away and the table of seasons.

UsableConfig(c) ==
  /\ c.at \in Nat /\ c.at <= today /\ SeasonsInOrder(c.config.seasons)
  /\ \A s \in c.config.seasons :
       s.season \in DOMAIN RealStarts /\ s.start = RealStarts[s.season] /\ s.end \in Nat

RemoteShape ==
  /\ today \in 1..LastDay /\ body \in Bodies /\ UsableConfig(held) /\ UsableConfig(cacheFile)
  /\ fetcher \in [at : {"down", "fetching", "telling", "waiting"}, done : Nat]
  /\ fellBehind \in BOOLEAN

\* What is held is what the file has, or nothing when that is too old.
HeldIsCached ==
  /\ fetcher.at = "down" => held = NoConfig
  /\ fetcher.at # "down" => held = cacheFile \/ (held = NoConfig /\ ~IsFresh(cacheFile))

PutAwayIsStored ==
  /\ putAway \subseteq putAwayFile /\ dismissed \subseteq putAwayFile
  /\ fetcher.at # "down" => dismissed \subseteq putAway

AsServed(s) == [start |-> s.start, end |-> s.end, by |-> "server"]
Told(listed, table) ==
  \A s \in listed : s.season \in DOMAIN table /\ table[s.season] = AsServed(s)
SeasonsTold == fetcher.at \in {"fetching", "waiting"} => Told(held.config.seasons, seasons)

\* A season of the table has a start, the server's its real one; and while no provider was behind
\* it is one of the real seasons, which an observed one does not precede.
TabledSeason == [start : Nat, end : Nat, by : {"server", "observed"}]
SeasonsAreTabled ==
  \A n \in DOMAIN seasons :
    /\ seasons[n] \in TabledSeason
    /\ seasons[n].by = "server" =>
         /\ n \in DOMAIN RealStarts
         /\ seasons[n].start = RealStarts[n] /\ seasons[n].start < seasons[n].end
    /\ seasons[n].by = "observed" => seasons[n].start <= today
IsReal(n) == n \in DOMAIN RealStarts /\ RealStarts[n] <= seasons[n].start
SeasonsAreReal == SeasonsAreTabled /\ (~fellBehind => \A n \in DOMAIN seasons : IsReal(n))

\* A season has really begun since a day.
BeganSince(day) == \E n \in DOMAIN RealStarts : day < RealStarts[n] /\ RealStarts[n] <= today
Observed ==
  \A p \in DOMAIN observations :
    observations[p] \in [matches : {0, 1}, at : Nat] /\ observations[p].at <= today

RemoteInv ==
  /\ RemoteShape /\ HeldIsCached /\ PutAwayIsStored /\ ShownIsFresh /\ SeasonsTold
  /\ SeasonsAreReal /\ Observed

LEMMA CalendarFacts ==
  /\ LastDay \in Nat \ {0} /\ MaxAge \in Nat \ {0}
  /\ \A n \in DOMAIN RealStarts : n \in Nat /\ n <= Len(RealStarts) /\ RealStarts[n] \in Nat
  /\ Len(RealStarts) \in Nat /\ DOMAIN RealStarts = 1..Len(RealStarts)
  /\ \A m, n \in DOMAIN RealStarts : m < n => RealStarts[m] < RealStarts[n]
<1>1. RealStarts \in Seq(Nat)
  BY RemoteConfigAssumption
<1>2. DOMAIN RealStarts = 1..Len(RealStarts) /\ Len(RealStarts) \in Nat
  BY <1>1
<1>3. \A n \in DOMAIN RealStarts : RealStarts[n] \in Nat
  BY <1>1, ElementOfSeq
<1>4. QED
  BY <1>2, <1>3, RemoteConfigAssumption, CalendarAssumption

LEMMA NoConfigIsUsable ==
  /\ NoConfig.at = 0 /\ NoConfig.config.seasons = {} /\ ToSet(NoConfig.config.notes) = {}
  /\ today \in Nat => UsableConfig(NoConfig)
<1>1. NoConfig.at = 0 /\ NoConfig.config.seasons = {} /\ NoConfig.config.notes = <<>>
  BY DEF NoConfig
<1>2. ToSet(NoConfig.config.notes) = {}
  BY <1>1 DEF ToSet
<1>3. QED
  BY <1>1, <1>2 DEF UsableConfig, SeasonsInOrder

\* The server's seasons in the table, and those that were there.
LEMMA SeasonsUpserted ==
  ASSUME SeasonsAreReal, NEW c, UsableConfig(c), UNCHANGED <<today, fellBehind>>,
         seasons' = UpsertSeasons(c.config.seasons)
  PROVE  SeasonsAreReal' /\ Told(c.config.seasons, seasons')
<1> DEFINE listed == c.config.seasons
           Given(n) == CHOOSE s \in listed : s.season = n
<1>1. DOMAIN seasons' = DOMAIN seasons \cup {s.season : s \in listed}
  BY DEF UpsertSeasons
<1>2. \A n \in DOMAIN seasons' :
        seasons'[n] = IF \E s \in listed : s.season = n THEN AsServed(Given(n)) ELSE seasons[n]
  BY <1>1 DEF UpsertSeasons, AsServed
<1>3. \A s, t \in listed : s.season = t.season => s = t
  BY DEF UsableConfig, SeasonsInOrder
<1>4. ASSUME NEW n \in DOMAIN seasons', \E s \in listed : s.season = n
      PROVE  Given(n) \in listed /\ Given(n).season = n
  BY <1>4
<1>5. ASSUME NEW s \in listed
      PROVE  s.season \in DOMAIN seasons' /\ seasons'[s.season] = AsServed(s)
  <2>1. s.season \in DOMAIN seasons'
    BY <1>1
  <2>2. Given(s.season) = s
    BY <1>3, <1>4, <2>1
  <2>3. QED
    BY <1>2, <2>1, <2>2
<1>6. ASSUME NEW s \in listed
      PROVE  /\ AsServed(s) \in TabledSeason /\ AsServed(s).start = RealStarts[s.season]
             /\ AsServed(s).start < AsServed(s).end /\ AsServed(s).by = "server"
             /\ s.season \in DOMAIN RealStarts
  BY CalendarFacts DEF AsServed, TabledSeason, UsableConfig, SeasonsInOrder
<1>7. ASSUME NEW n \in DOMAIN seasons'
      PROVE  /\ seasons'[n] \in TabledSeason
             /\ seasons'[n].by = "server" =>
                  /\ n \in DOMAIN RealStarts
                  /\ seasons'[n].start = RealStarts[n] /\ seasons'[n].start < seasons'[n].end
             /\ seasons'[n].by = "observed" => seasons'[n].start <= today'
             /\ ~fellBehind' => IsReal(n)'
  <2>1. CASE \E s \in listed : s.season = n
    <3>1. PICK s \in listed : s.season = n
      BY <2>1
    <3>2. QED
      BY <3>1, <1>5, <1>6, CalendarFacts DEF IsReal
  <2>2. CASE ~(\E s \in listed : s.season = n)
    <3>1. n \in DOMAIN seasons /\ seasons'[n] = seasons[n]
      BY <1>1, <1>2, <2>2
    <3>2. QED
      BY <3>1 DEF SeasonsAreReal, SeasonsAreTabled, IsReal
  <2>3. QED
    BY <2>1, <2>2
<1>8. QED
  BY <1>5, <1>7 DEF SeasonsAreReal, SeasonsAreTabled, Told

\* The season that started last is one of those that have started, if any has.
LEMMA LatestExists ==
  ASSUME SeasonsAreReal, ~fellBehind, today \in Nat, StartedSeasons # {}
  PROVE  LatestSeason \in StartedSeasons
<1>1. \A n \in StartedSeasons : /\ n \in DOMAIN RealStarts /\ n \in Nat /\ n <= Len(RealStarts)
                                /\ seasons[n].start \in Nat /\ seasons[n].start <= today
  BY CalendarFacts DEF SeasonsAreReal, SeasonsAreTabled, IsReal, StartedSeasons, TabledSeason
<1> DEFINE ages == {today - seasons[n].start : n \in StartedSeasons}
<1>2. ages \in SUBSET Nat /\ ages # {}
  BY <1>1
<1>3. PICK age \in ages : \A other \in ages : age <= other
  BY <1>2, FirstOfSome
<1> DEFINE last == {n \in StartedSeasons : today - seasons[n].start = age}
           ranks == {Len(RealStarts) - n : n \in last}
<1>4. ranks \in SUBSET Nat /\ ranks # {}
  BY <1>1, <1>3, CalendarFacts
<1>5. PICK rank \in ranks : \A other \in ranks : rank <= other
  BY <1>4, FirstOfSome
<1>6. PICK n \in last : Len(RealStarts) - n = rank
  BY <1>5
<1>7. ASSUME NEW m \in last PROVE m <= n
  <2>1. Len(RealStarts) - m \in ranks
    OBVIOUS
  <2>2. rank <= Len(RealStarts) - m
    BY <1>5, <2>1
  <2>3. m \in StartedSeasons /\ n \in StartedSeasons
    OBVIOUS
  <2> HIDE DEF last, ranks, ages
  <2>4. m \in Nat /\ n \in Nat /\ Len(RealStarts) \in Nat
    BY <1>1, <2>3, CalendarFacts
  <2>5. QED
    BY <1>6, <2>2, <2>4
<1>8. \A m \in StartedSeasons :
        \/ seasons[m].start < seasons[n].start
        \/ seasons[m].start = seasons[n].start /\ m <= n
  <2> TAKE m \in StartedSeasons
  <2>1. age <= today - seasons[m].start /\ age = today - seasons[n].start
    BY <1>3, <1>6
  <2>2. age = today - seasons[m].start => m \in last
    OBVIOUS
  <2>3. n \in StartedSeasons
    BY <1>6
  <2> HIDE DEF last, ages
  <2>4. seasons[m].start <= seasons[n].start
    BY <1>1, <2>1, <2>3
  <2>5. QED
    BY <1>1, <1>7, <2>1, <2>2, <2>3, <2>4
<1>9. QED
  BY <1>6, <1>8 DEF LatestSeason

\* Fewer matches than at a time when the latest season had begun: the next one has begun too.
LEMMA NextHasBegun ==
  ASSUME SeasonsAreReal, ~fellBehind, today \in Nat, NEW was, was.at \in Nat,
         BeganSince(was.at), OfLatestSeason(was)
  PROVE  /\ LatestSeason + 1 \in DOMAIN RealStarts
         /\ RealStarts[LatestSeason + 1] <= today
<1>1. LatestSeason \in StartedSeasons /\ was.at >= seasons[LatestSeason].start
  BY LatestExists DEF OfLatestSeason
<1> DEFINE n == LatestSeason
<1>2. /\ n \in DOMAIN RealStarts /\ seasons[n].start \in Nat /\ RealStarts[n] <= seasons[n].start
      /\ n \in Nat /\ RealStarts[n] \in Nat /\ n >= 1
  BY <1>1, CalendarFacts
     DEF SeasonsAreReal, SeasonsAreTabled, IsReal, StartedSeasons, TabledSeason
<1>3. PICK m \in DOMAIN RealStarts : was.at < RealStarts[m] /\ RealStarts[m] <= today
  BY DEF BeganSince
<1>4. m \in Nat /\ m <= Len(RealStarts) /\ RealStarts[m] \in Nat /\ Len(RealStarts) \in Nat
  BY CalendarFacts
<1> HIDE DEF n
<1>5. RealStarts[n] < RealStarts[m]
  BY <1>1, <1>2, <1>3, <1>4 DEF n
<1>6. n < m
  <2>1. m < n => RealStarts[m] < RealStarts[n]
    BY <1>2, CalendarFacts
  <2>2. QED
    BY <1>2, <1>4, <1>5, <2>1
<1>7. n + 1 \in DOMAIN RealStarts
  BY <1>2, <1>4, <1>6, CalendarFacts
<1>8. RealStarts[n + 1] <= RealStarts[m] /\ RealStarts[n + 1] \in Nat
  BY <1>2, <1>4, <1>6, <1>7, CalendarFacts
<1>9. QED
  BY <1>3, <1>4, <1>7, <1>8 DEF n

LEMMA ParsedIsUsable ==
  ASSUME body \in Bodies, today \in Nat
  PROVE  UsableConfig([config |-> ParseConfigJson(body), at |-> today])
<1> DEFINE c == [config |-> ParseConfigJson(body), at |-> today]
<1>1. c.at = today /\ c.config = ParseConfigJson(body)
  OBVIOUS
<1>2. c.config.seasons = IF SeasonsInOrder(body.seasons) THEN body.seasons ELSE {}
  BY <1>1 DEF ParseConfigJson
<1>3. SeasonsInOrder(c.config.seasons) /\ c.config.seasons \subseteq body.seasons
  BY <1>2 DEF SeasonsInOrder
<1> HIDE DEF c
<1>4. UsableConfig(c)
  BY <1>1, <1>3, CalendarAssumption DEF UsableConfig
<1>5. QED
  BY <1>4 DEF c

LEMMA RemoteInitially == RemoteInit => RemoteInv
<1> SUFFICES ASSUME RemoteInit PROVE RemoteInv
  OBVIOUS
<1>1. today = 1 /\ held = NoConfig /\ cacheFile = NoConfig /\ fetcher.at = "down"
  BY DEF RemoteInit
<1>2. RemoteShape
  <2>1. today \in 1..LastDay /\ today \in Nat
    BY <1>1, CalendarFacts
  <2>2. fetcher \in [at : {"down", "fetching", "telling", "waiting"}, done : Nat]
    BY DEF RemoteInit
  <2>3. body \in Bodies /\ fellBehind \in BOOLEAN
    BY DEF RemoteInit
  <2>4. QED
    BY <1>1, <2>1, <2>2, <2>3, NoConfigIsUsable DEF RemoteShape
<1>3. DOMAIN seasons = {} /\ DOMAIN observations = {}
  BY DEF RemoteInit
<1>4. HeldIsCached /\ ShownIsFresh /\ SeasonsTold
  BY <1>1 DEF HeldIsCached, ShownIsFresh, SeasonsTold
<1>5. PutAwayIsStored
  BY DEF RemoteInit, PutAwayIsStored
<1>6. QED
  BY <1>2, <1>3, <1>4, <1>5 DEF RemoteInv, SeasonsAreReal, SeasonsAreTabled, Observed

\* A player has fewer matches than when last seen: a season has begun, or a provider was behind.
LEMMA BegunOrBehind ==
  ASSUME today \in Nat, NEW day \in Nat, day <= today, StartedBy(day) # StartedBy(today)
  PROVE  BeganSince(day)
BY CalendarFacts DEF StartedBy, BeganSince

\* An observation of a player's matches: what it adds to the table has begun.
LEMMA ObservedIsReal ==
  ASSUME RemoteInv, NEW p \in Players, NEW number \in 0..1, ObserveRankedSeason(p, number)
  PROVE  SeasonsAreReal' /\ Observed' /\ SeasonsTold' /\ fellBehind' \in BOOLEAN
<1>0. today \in Nat /\ SeasonsAreReal /\ Observed /\ SeasonsTold /\ fellBehind \in BOOLEAN
  BY DEF RemoteInv, RemoteShape
<1> DEFINE next == LatestSeason + 1
           fewer == p \in DOMAIN observations /\ number < observations[p].matches
           reset == fewer /\ OfLatestSeason(observations[p])
           found == [start |-> today, end |-> today, by |-> "observed"]
<1>1. /\ observations' = [q \in DOMAIN observations \cup {p} |->
                            IF q = p THEN [matches |-> number, at |-> today] ELSE observations[q]]
      /\ seasons' = IF ~reset \/ next \in DOMAIN seasons THEN seasons
                    ELSE [n \in DOMAIN seasons \cup {next} |->
                            IF n \in DOMAIN seasons THEN seasons[n] ELSE found]
      /\ UNCHANGED <<today, held, fetcher>>
      /\ fellBehind' = \/ fellBehind
                       \/ fewer /\ StartedBy(observations[p].at) = StartedBy(today)
  BY DEF ObserveRankedSeason, remoteServerVars
<1>2. Observed' /\ fellBehind' \in BOOLEAN
  <2> SUFFICES ASSUME NEW q \in DOMAIN observations'
               PROVE  /\ observations'[q] \in [matches : {0, 1}, at : Nat]
                      /\ observations'[q].at <= today
    BY <1>0, <1>1 DEF Observed
  <2>1. CASE q = p
    <3>1. observations'[q] = [matches |-> number, at |-> today]
      BY <1>1, <2>1
    <3>2. QED
      BY <1>0, <2>1, <3>1
  <2>2. CASE q # p
    <3>1. q \in DOMAIN observations /\ observations'[q] = observations[q]
      BY <1>1, <2>2
    <3>2. QED
      BY <1>0, <3>1 DEF Observed
  <2>3. QED
    BY <2>1, <2>2
<1>3. CASE ~reset \/ next \in DOMAIN seasons
  <2>1. seasons' = seasons /\ (~fellBehind' => ~fellBehind)
    BY <1>1, <1>3
  <2>2. QED
    BY <1>0, <1>1, <1>2, <2>1 DEF SeasonsAreReal, SeasonsAreTabled, IsReal, SeasonsTold
<1>4. CASE reset /\ next \notin DOMAIN seasons
  <2>1. /\ DOMAIN seasons' = DOMAIN seasons \cup {next} /\ seasons'[next] = found
        /\ \A n \in DOMAIN seasons : seasons'[n] = seasons[n]
    BY <1>1, <1>4
  <2>2. /\ observations[p].at \in Nat /\ observations[p].at <= today
        /\ OfLatestSeason(observations[p])
    BY <1>0, <1>4 DEF Observed
  <2>3. ASSUME ~fellBehind'
        PROVE  ~fellBehind /\ next \in DOMAIN RealStarts /\ RealStarts[next] <= today
    <3>1. ~fellBehind /\ StartedBy(observations[p].at) # StartedBy(today)
      BY <1>1, <1>4, <2>3
    <3>2. BeganSince(observations[p].at)
      BY <1>0, <2>2, <3>1, BegunOrBehind
    <3>3. QED
      BY <1>0, <2>2, <3>1, <3>2, NextHasBegun
  <2>4. found \in TabledSeason /\ found.start = today /\ found.by = "observed"
    BY <1>0 DEF TabledSeason
  <2> HIDE DEF next, found, fewer, reset
  <2>5. SeasonsAreTabled'
    BY <1>0, <1>1, <2>1, <2>4 DEF SeasonsAreReal, SeasonsAreTabled
  <2>6. SeasonsAreReal'
    BY <1>0, <2>1, <2>3, <2>4, <2>5 DEF SeasonsAreReal, IsReal
  <2>7. SeasonsTold'
    BY <1>0, <1>1, <2>1 DEF SeasonsTold, Told
  <2>8. QED
    BY <1>2, <2>6, <2>7
<1>5. QED
  BY <1>3, <1>4

LEMMA RemoteStep == RemoteInv /\ [RemoteNext]_remoteVars => RemoteInv'
<1> SUFFICES ASSUME RemoteInv, [RemoteNext]_remoteVars PROVE RemoteInv'
  OBVIOUS
<1>0. /\ today \in 1..LastDay /\ today \in Nat /\ body \in Bodies /\ UsableConfig(held)
      /\ UsableConfig(cacheFile) /\ fellBehind \in BOOLEAN
      /\ fetcher \in [at : {"down", "fetching", "telling", "waiting"}, done : Nat]
      /\ LastDay \in Nat /\ MaxAge \in Nat \ {0}
  BY CalendarFacts DEF RemoteInv, RemoteShape
<1>1. HeldIsCached /\ PutAwayIsStored /\ ShownIsFresh /\ SeasonsTold
  BY DEF RemoteInv
<1>2. SeasonsAreReal /\ Observed
  BY DEF RemoteInv
<1>3. ASSUME UNCHANGED <<today, observations>> PROVE Observed'
  BY <1>2, <1>3 DEF Observed
<1>4. ASSUME UNCHANGED <<today, seasons, fellBehind>> PROVE SeasonsAreReal'
  BY <1>2, <1>4 DEF SeasonsAreReal, SeasonsAreTabled, IsReal
<1>5. UsableConfig(NoConfig) /\ ~IsFresh(NoConfig) /\ NoConfig.config.seasons = {}
  BY <1>0, NoConfigIsUsable DEF IsFresh
<1>6. ASSUME StartRemote PROVE RemoteInv'
  <2> DEFINE c == LoadCachedConfig
  <2>1. /\ held' = c /\ seasons' = UpsertSeasons(c.config.seasons) /\ putAway' = putAwayFile
        /\ fetcher' = [at |-> "fetching", done |-> today]
        /\ UNCHANGED <<today, body, fellBehind, cacheFile, putAwayFile, dismissed, observations>>
    BY <1>6 DEF StartRemote, remoteServerVars, rankedCounts
  <2>2. /\ UsableConfig(c)
        /\ (c = cacheFile /\ IsFresh(cacheFile)) \/ (c = NoConfig /\ ~IsFresh(cacheFile))
    BY <1>0, <1>5 DEF LoadCachedConfig
  <2> HIDE DEF c
  <2>3. /\ fetcher' \in [at : {"down", "fetching", "telling", "waiting"}, done : Nat]
        /\ fetcher'.at = "fetching" /\ fetcher'.done = today
    BY <1>0, <2>1
  <2>4. RemoteShape'
    BY <1>0, <2>1, <2>2, <2>3 DEF RemoteShape, UsableConfig
  <2>5. HeldIsCached' /\ PutAwayIsStored' /\ ShownIsFresh'
    BY <1>1, <2>1, <2>2, <2>3 DEF HeldIsCached, PutAwayIsStored, ShownIsFresh, IsFresh
  <2>6. /\ SeasonsAreReal'
        /\ Told(c.config.seasons, seasons')
    BY <1>2, <2>1, <2>2, SeasonsUpserted
  <2>7. SeasonsTold'
    BY <2>1, <2>6 DEF SeasonsTold
  <2>8. QED
    BY <1>3, <2>1, <2>4, <2>5, <2>6, <2>7 DEF RemoteInv
<1>7. ASSUME FetchAnswered PROVE RemoteInv'
  <2> DEFINE c == [config |-> ParseConfigJson(body), at |-> today]
  <2>1. /\ held' = c /\ cacheFile' = c /\ fetcher' = [at |-> "telling", done |-> today]
        /\ UNCHANGED <<today, body, fellBehind, putAway, putAwayFile, dismissed, seasons,
                       observations>>
    BY <1>7 DEF FetchAnswered, SaveCachedConfig, remoteServerVars, putAwayVars, seasonTable,
                rankedCounts
  <2>2. UsableConfig(c) /\ c.at = today
    BY <1>0, ParsedIsUsable
  <2> HIDE DEF c
  <2>3. /\ fetcher' \in [at : {"down", "fetching", "telling", "waiting"}, done : Nat]
        /\ fetcher'.at = "telling" /\ fetcher'.done = today
    BY <1>0, <2>1
  <2>4. RemoteShape'
    BY <1>0, <2>1, <2>2, <2>3 DEF RemoteShape, UsableConfig
  <2>5. HeldIsCached' /\ ShownIsFresh' /\ SeasonsTold'
    BY <1>0, <2>1, <2>2, <2>3 DEF HeldIsCached, ShownIsFresh, SeasonsTold
  <2>6. PutAwayIsStored'
    BY <1>1, <1>7, <2>1, <2>3 DEF PutAwayIsStored, FetchAnswered
  <2>7. QED
    BY <1>3, <1>4, <2>1, <2>4, <2>5, <2>6 DEF RemoteInv
<1>8. ASSUME TellSeasons PROVE RemoteInv'
  <2>1. /\ fetcher.at = "telling" /\ seasons' = UpsertSeasons(held.config.seasons)
        /\ fetcher' = [fetcher EXCEPT !.at = "waiting"]
        /\ UNCHANGED <<today, body, fellBehind, held, cacheFile, putAway, putAwayFile, dismissed,
                       observations>>
    BY <1>8 DEF TellSeasons, remoteServerVars, putAwayVars, rankedCounts
  <2>2. /\ fetcher' \in [at : {"down", "fetching", "telling", "waiting"}, done : Nat]
        /\ fetcher'.at = "waiting" /\ fetcher'.done = fetcher.done
    BY <1>0, <2>1
  <2>3. RemoteShape'
    BY <1>0, <2>1, <2>2 DEF RemoteShape, UsableConfig
  <2>4. HeldIsCached' /\ PutAwayIsStored'
    BY <1>1, <2>1, <2>2 DEF HeldIsCached, PutAwayIsStored, IsFresh
  <2>5. ShownIsFresh'
    BY <1>0, <1>1, <2>1, <2>2 DEF ShownIsFresh, HeldIsCached
  <2>6. /\ SeasonsAreReal'
        /\ Told(held.config.seasons, seasons')
    BY <1>0, <1>2, <2>1, SeasonsUpserted
  <2>7. SeasonsTold'
    BY <2>1, <2>6 DEF SeasonsTold
  <2>8. QED
    BY <1>3, <2>1, <2>3, <2>4, <2>5, <2>6, <2>7 DEF RemoteInv
<1>9. ASSUME FetchUnavailable \/ WaitEnds PROVE RemoteInv'
  <2>1. /\ fetcher.at \in {"fetching", "waiting"}
        /\ \E at \in {"fetching", "waiting"} : fetcher' = [fetcher EXCEPT !.at = at]
        /\ UNCHANGED <<today, body, fellBehind, held, cacheFile, putAway, putAwayFile, dismissed,
                       seasons, observations>>
    BY <1>9 DEF FetchUnavailable, WaitEnds, remoteServerVars, putAwayVars, seasonTable, rankedCounts
  <2>2. /\ fetcher' \in [at : {"down", "fetching", "telling", "waiting"}, done : Nat]
        /\ fetcher'.at \in {"fetching", "waiting"} /\ fetcher'.done = fetcher.done
    BY <1>0, <2>1
  <2>3. RemoteShape'
    BY <1>0, <2>1, <2>2 DEF RemoteShape, UsableConfig
  <2>4. HeldIsCached' /\ PutAwayIsStored' /\ ShownIsFresh' /\ SeasonsTold'
    BY <1>1, <2>1, <2>2
       DEF HeldIsCached, PutAwayIsStored, ShownIsFresh, SeasonsTold, IsFresh
  <2>5. QED
    BY <1>3, <1>4, <2>1, <2>3, <2>4 DEF RemoteInv
<1>10. ASSUME FetchFailed PROVE RemoteInv'
  <2>1. /\ fetcher.at = "fetching" /\ fetcher' = [at |-> "waiting", done |-> today]
        /\ held' = IF IsFresh(held) THEN held ELSE LoadCachedConfig
        /\ UNCHANGED <<today, body, fellBehind, cacheFile, putAway, putAwayFile, dismissed, seasons,
                       observations>>
    BY <1>10 DEF FetchFailed, remoteServerVars, putAwayVars, seasonTable, rankedCounts
  <2>2. (held' = held /\ IsFresh(held)) \/ (held' = NoConfig /\ ~IsFresh(cacheFile))
    BY <1>1, <1>5, <2>1 DEF LoadCachedConfig, HeldIsCached
  <2>3. /\ fetcher' \in [at : {"down", "fetching", "telling", "waiting"}, done : Nat]
        /\ fetcher'.at = "waiting" /\ fetcher'.done = today
    BY <1>0, <2>1
  <2>4. RemoteShape'
    BY <1>0, <1>5, <2>1, <2>2, <2>3 DEF RemoteShape, UsableConfig
  <2>5. HeldIsCached' /\ PutAwayIsStored'
    BY <1>1, <2>1, <2>2, <2>3 DEF HeldIsCached, PutAwayIsStored, IsFresh
  <2>6. ShownIsFresh'
    BY <2>1, <2>2, <2>3 DEF ShownIsFresh, IsFresh
  <2>7. SeasonsTold'
    <3>1. Told(NoConfig.config.seasons, seasons)
      BY <1>5 DEF Told
    <3>2. QED
      BY <1>1, <2>1, <2>2, <3>1 DEF SeasonsTold
  <2>8. QED
    BY <1>3, <1>4, <2>1, <2>4, <2>5, <2>6, <2>7 DEF RemoteInv
<1>11. ASSUME RemoteStops \/ DismissCutOff PROVE RemoteInv'
  <2>1. /\ fetcher' = [at |-> "down", done |-> 0] /\ held' = NoConfig
        /\ cacheFile' = cacheFile \/ cacheFile' = NoConfig
        /\ putAway' = {} /\ dismissed' \subseteq putAwayFile'
        /\ UNCHANGED <<today, body, fellBehind, seasons, observations>>
    BY <1>1, <1>11
       DEF RemoteStops, DismissCutOff, remoteServerVars, seasonTable, rankedCounts, PutAwayIsStored
  <2>2. /\ fetcher' \in [at : {"down", "fetching", "telling", "waiting"}, done : Nat]
        /\ fetcher'.at = "down"
    BY <2>1
  <2>3. RemoteShape'
    BY <1>0, <1>5, <2>1, <2>2 DEF RemoteShape, UsableConfig
  <2>4. HeldIsCached' /\ PutAwayIsStored' /\ ShownIsFresh' /\ SeasonsTold'
    BY <2>1, <2>2 DEF HeldIsCached, PutAwayIsStored, ShownIsFresh, SeasonsTold
  <2>5. QED
    BY <1>3, <1>4, <2>1, <2>3, <2>4 DEF RemoteInv
<1>12. ASSUME NEW id, DismissAnnouncement(id) PROVE RemoteInv'
  <2>1. /\ fetcher.at # "down"
        /\ \E forgotten : /\ putAway' = (putAway \ forgotten) \cup {id}
                          /\ dismissed' = (dismissed \ forgotten) \cup {id}
        /\ putAwayFile' = putAway'
        /\ UNCHANGED <<today, body, fellBehind, held, cacheFile, fetcher, seasons, observations>>
    BY <1>12 DEF DismissAnnouncement, StoredPutAway, remoteServerVars, seasonTable, rankedCounts
  <2>2. PutAwayIsStored'
    BY <1>1, <2>1 DEF PutAwayIsStored
  <2>3. RemoteShape'
    BY <1>0, <2>1 DEF RemoteShape, UsableConfig
  <2>4. HeldIsCached' /\ ShownIsFresh' /\ SeasonsTold'
    BY <1>1, <2>1 DEF HeldIsCached, ShownIsFresh, SeasonsTold, IsFresh
  <2>5. QED
    BY <1>3, <1>4, <2>1, <2>2, <2>3, <2>4 DEF RemoteInv
<1>13. ASSUME NEW p \in Players, NEW number \in 0..1, ObserveRankedSeason(p, number)
       PROVE  RemoteInv'
  <2>1. UNCHANGED <<today, body, held, cacheFile, putAway, putAwayFile, dismissed, fetcher>>
    BY <1>13 DEF ObserveRankedSeason, remoteServerVars, putAwayVars
  <2>2. SeasonsAreReal' /\ Observed' /\ SeasonsTold' /\ fellBehind' \in BOOLEAN
    BY <1>13, ObservedIsReal
  <2>3. RemoteShape'
    BY <1>0, <2>1, <2>2 DEF RemoteShape, UsableConfig
  <2>4. HeldIsCached' /\ PutAwayIsStored' /\ ShownIsFresh'
    BY <1>1, <2>1 DEF HeldIsCached, PutAwayIsStored, ShownIsFresh, IsFresh
  <2>5. QED
    BY <2>2, <2>3, <2>4 DEF RemoteInv
<1>14. ASSUME DayPasses PROVE RemoteInv'
  <2>1. /\ today < LastDay /\ today' = today + 1
        /\ UNCHANGED <<body, fellBehind, held, cacheFile, putAway, putAwayFile, dismissed, fetcher, seasons,
                       observations>>
    BY <1>14 DEF DayPasses, putAwayVars, seasonTable, rankedCounts
  <2>2. today' \in 1..LastDay /\ today' \in Nat
    BY <1>0, <2>1
  <2>3. UsableConfig(held)' /\ UsableConfig(cacheFile)'
    BY <1>0, <2>1, <2>2 DEF UsableConfig
  <2>4. RemoteShape'
    BY <1>0, <2>1, <2>2, <2>3 DEF RemoteShape
  <2>5. ~IsFresh(cacheFile) => ~IsFresh(cacheFile)'
    <3>1. cacheFile.at \in Nat /\ cacheFile.at <= today
      BY <1>0 DEF UsableConfig
    <3>2. QED
      BY <1>0, <2>1, <3>1 DEF IsFresh
  <2>6. HeldIsCached' /\ PutAwayIsStored' /\ ShownIsFresh' /\ SeasonsTold'
    BY <1>1, <2>1, <2>5 DEF HeldIsCached, PutAwayIsStored, ShownIsFresh, SeasonsTold
  <2>7. SeasonsAreReal'
    BY <1>0, <1>2, <2>1 DEF SeasonsAreReal, SeasonsAreTabled, IsReal, TabledSeason
  <2>8. Observed'
    BY <1>0, <1>2, <2>1 DEF Observed
  <2>9. QED
    BY <2>4, <2>6, <2>7, <2>8 DEF RemoteInv
<1>15. ASSUME ServerChanges PROVE RemoteInv'
  <2>1. /\ body' \in Bodies
        /\ UNCHANGED <<today, fellBehind, held, cacheFile, putAway, putAwayFile, dismissed, fetcher,
                       seasons, observations>>
    BY <1>15 DEF ServerChanges, putAwayVars, seasonTable, rankedCounts
  <2>2. RemoteShape'
    BY <1>0, <2>1 DEF RemoteShape, UsableConfig
  <2>3. HeldIsCached' /\ PutAwayIsStored' /\ ShownIsFresh' /\ SeasonsTold'
    BY <1>1, <2>1 DEF HeldIsCached, PutAwayIsStored, ShownIsFresh, SeasonsTold, IsFresh
  <2>4. QED
    BY <1>3, <1>4, <2>1, <2>2, <2>3 DEF RemoteInv
<1>16. CASE UNCHANGED remoteVars
  <2>1. UNCHANGED <<today, body, fellBehind, held, cacheFile, putAway, putAwayFile, dismissed, fetcher,
                    seasons, observations>>
    BY <1>16 DEF remoteVars
  <2>2. RemoteShape'
    BY <1>0, <2>1 DEF RemoteShape, UsableConfig
  <2>3. HeldIsCached' /\ PutAwayIsStored' /\ ShownIsFresh' /\ SeasonsTold'
    BY <1>1, <2>1 DEF HeldIsCached, PutAwayIsStored, ShownIsFresh, SeasonsTold, IsFresh
  <2>4. QED
    BY <1>3, <1>4, <2>1, <2>2, <2>3 DEF RemoteInv
<1>17. QED
  BY <1>6, <1>7, <1>8, <1>9, <1>10, <1>11, <1>12, <1>13, <1>14, <1>15, <1>16 DEF RemoteNext

\* The seasons with a later start have a first one.
LEMMA NextStartIs ==
  ASSUME SeasonsAreReal, NEW n \in DOMAIN seasons, Newer(n) # {}
  PROVE  NextStart(n) \in Nat
<1> DEFINE later == {seasons[m].start : m \in Newer(n)}
<1>1. later \in SUBSET Nat /\ later # {}
  BY DEF SeasonsAreReal, SeasonsAreTabled, TabledSeason, Newer
<1> HIDE DEF later
<1>2. Min(later) \in later
  BY <1>1, FirstOfSome DEF Min
<1>3. QED
  BY <1>1, <1>2 DEF NextStart, later

LEMMA RemoteIsRight ==
  RemoteInv => /\ RemoteTypeOK /\ ShownIsFresh /\ DismissedStaysAway /\ ServerSeasonsHold
               /\ ObservedHasBegun /\ FilterIsSummary
<1> SUFFICES ASSUME RemoteInv
             PROVE  /\ RemoteTypeOK /\ ShownIsFresh /\ DismissedStaysAway /\ ServerSeasonsHold
                    /\ ObservedHasBegun /\ FilterIsSummary
  OBVIOUS
<1>1. RemoteTypeOK
  BY DEF RemoteInv, RemoteShape, RemoteTypeOK, UsableConfig, PutAwayIsStored, SeasonsAreReal,
         SeasonsAreTabled, TabledSeason
<1>2. DismissedStaysAway
  <2>1. CASE fetcher.at = "down"
    <3>1. ToSet(held.config.notes) = {}
      BY <2>1, NoConfigIsUsable DEF RemoteInv, HeldIsCached
    <3>2. QED
      BY <3>1 DEF DismissedStaysAway, Notices
  <2>2. CASE fetcher.at # "down"
    BY <2>2 DEF DismissedStaysAway, Notices, RemoteInv, PutAwayIsStored
  <2>3. QED
    BY <2>1, <2>2
<1>3. ServerSeasonsHold
  BY Zenon DEF RemoteInv, SeasonsTold, Told, AsServed, ServerSeasonsHold
<1>4. ObservedHasBegun
  <2> SUFFICES ASSUME ~fellBehind, NEW n \in DOMAIN seasons, seasons[n].by = "observed"
               PROVE  n \in StartedBy(today)
    BY DEF ObservedHasBegun
  <2>1. /\ n \in DOMAIN RealStarts /\ RealStarts[n] <= seasons[n].start
        /\ seasons[n].start <= today /\ seasons[n].start \in Nat
    BY DEF RemoteInv, SeasonsAreReal, SeasonsAreTabled, IsReal, TabledSeason
  <2>2. RealStarts[n] \in Nat /\ today \in Nat
    BY <2>1, CalendarFacts DEF RemoteInv, RemoteShape
  <2>3. QED
    BY <2>1, <2>2 DEF StartedBy
<1>5. FilterIsSummary
  <2> SUFFICES ASSUME NEW n \in DOMAIN seasons,
                      ~(Newer(n) = {} /\ seasons[n].by = "observed")
               PROVE  SummaryDays(n) = FilterDays(n) \cap (0 .. LastDay)
    BY DEF FilterIsSummary
  <2>1. /\ seasons[n].start \in Nat /\ seasons[n].end \in Nat /\ LastDay \in Nat
        /\ seasons[n].by \in {"server", "observed"}
        /\ seasons[n].by = "server" => seasons[n].start < seasons[n].end
    BY CalendarFacts DEF RemoteInv, SeasonsAreReal, SeasonsAreTabled, TabledSeason
  <2>2. CASE Newer(n) # {}
    <3>1. NextStart(n) \in Nat
      BY <2>2, NextStartIs DEF RemoteInv
    <3>2. QED
      BY <2>1, <2>2, <3>1 DEF SummaryDays, FilterDays
  <2>3. CASE Newer(n) = {}
    BY <2>1, <2>3 DEF SummaryDays, FilterDays
  <2>4. QED
    BY <2>2, <2>3
<1>6. QED
  BY <1>1, <1>2, <1>3, <1>4, <1>5 DEF RemoteInv

LEMMA PartHasRemote ==
  /\ PartInit => RemoteInit
  /\ [PartNext]_allVars => [RemoteNext]_remoteVars
<1>1. PartInit => RemoteInit
  BY DEF PartInit
<1>2. [PartNext]_allVars => [RemoteNext]_remoteVars
  BY ZenonT(60) DEF PartNext, allVars, fourthVars, InWorkQueue, InReaders, InDatabase, InSessions,
         InMatches, InMigrations, InPaging, InReplays, InAccount, InUpdateCheck, InUpdate,
         InHotkeys, InOverlay, InConfig, InTelemetry, InRemote, InTournaments
<1>3. QED
  BY <1>1, <1>2

-----------------------------------------------------------------------------
\* The tournaments: whose schedule is shown, and what has been announced of it.

AnyRegion == Regions \cup {NoRegion}
Statuses == {"signedOut", "disabled", "noRegion", "loading", "ready", "unavailable"}
Users == [signedIn : BOOLEAN, shown : BOOLEAN, region : AnyRegion, detected : AnyRegion,
          standardOnly : BOOLEAN]
SlotLists == {<<>>} \cup {Schedule[r] : r \in Regions}
Snapshots == [status : Statuses, region : AnyRegion, of : AnyRegion, slots : SlotLists,
              fetched : BOOLEAN]

Workers == [at : {"looking", "fetching"}, signedIn : BOOLEAN, shown : BOOLEAN,
            region : AnyRegion, refresh : BOOLEAN, next : Nat, began : Nat]

\* The tournaments of a snapshot are those of its region, and were fetched if it says so.
OfItsRegion(v) ==
  /\ v \in Snapshots /\ v.of \in {NoRegion, v.region}
  /\ v.slots # <<>> => v.of # NoRegion
  /\ v.fetched => v.of = v.region
  /\ v.status = "ready" => v.fetched

ScheduleShape ==
  /\ user \in Users /\ minute \in Nat /\ OfItsRegion(schedule) /\ OfItsRegion(fetching)
  /\ scheduler \in Workers
  /\ scheduler.at = "fetching" =>
       scheduler.shown /\ fetching.region # NoRegion /\ fetching.status = "loading"
  /\ scheduler.shown \/ ~schedule.fetched

\* A start that is still to come has been announced if it is among those that fired, and only then.
RemindersFired ==
  /\ reminded \in [Starts -> {0, 1}] /\ fired \subseteq Starts /\ imminent \subseteq Starts
  /\ \A t \in Starts : t > minute /\ reminded[t] = 1 => t \in fired
  /\ \A t \in fired : reminded[t] = 1
  /\ \A t \in imminent : reminded[t] = 1

TournamentsInv == ScheduleShape /\ RemindersFired

LEMMA SlotFacts ==
  /\ Starts \subseteq Nat
  /\ \A slots \in SlotLists :
       /\ DOMAIN slots \subseteq Nat
       /\ \A i \in DOMAIN slots : slots[i].start \in Starts
       /\ \A i, j \in DOMAIN slots : i <= j => slots[i].start <= slots[j].start
<1> DEFINE Slot == [start : Nat, standard : BOOLEAN]
<1>1. ASSUME NEW r \in Regions, NEW i \in DOMAIN Schedule[r]
      PROVE  i \in Nat /\ Schedule[r][i].start \in Nat /\ Schedule[r][i] \in ToSet(Schedule[r])
  <2>1. Schedule[r] \in Seq(Slot)
    BY ScheduleAssumption
  <2> HIDE DEF Slot
  <2>2. Schedule[r][i] \in Slot
    BY <2>1, ElementOfSeq
  <2>3. i \in Nat
    BY <2>1
  <2> USE DEF Slot
  <2>4. QED
    BY <2>2, <2>3 DEF ToSet
<1>2. ASSUME NEW r \in Regions, NEW i \in DOMAIN Schedule[r] PROVE Schedule[r][i].start \in Starts
  BY <1>1 DEF Starts
<1>3. Starts \subseteq Nat
  BY <1>1 DEF Starts, ToSet
<1>4. DOMAIN <<>> = {}
  OBVIOUS
<1>5. ASSUME NEW slots \in SlotLists
      PROVE  /\ DOMAIN slots \subseteq Nat
             /\ \A i \in DOMAIN slots : slots[i].start \in Starts
             /\ \A i, j \in DOMAIN slots : i <= j => slots[i].start <= slots[j].start
  <2>1. CASE slots = <<>>
    BY <1>4, <2>1
  <2>2. CASE slots # <<>>
    <3>1. PICK r \in Regions : slots = Schedule[r]
      BY <2>2 DEF SlotLists
    <3>2. QED
      BY <1>1, <1>2, <3>1, ScheduleAssumption
  <2>3. QED
    BY <2>1, <2>2
<1>6. QED
  BY <1>3, <1>5

LEMMA EmptyScheduleIs ==
  /\ EmptySchedule \in Snapshots /\ EmptySchedule.of = NoRegion /\ EmptySchedule.region = NoRegion
  /\ EmptySchedule.slots = <<>> /\ ~EmptySchedule.fetched /\ EmptySchedule.status = "disabled"
BY DEF EmptySchedule, Snapshots, SlotLists, Statuses, AnyRegion

LEMMA SignedOutIs ==
  ASSUME NEW v, v = [EmptySchedule EXCEPT !.status = "signedOut"]
  PROVE  OfItsRegion(v) /\ ~v.fetched
<1>1. "signedOut" \in Statuses
  BY DEF Statuses
<1>2. /\ v \in Snapshots /\ v.of = NoRegion /\ v.region = NoRegion /\ v.slots = <<>>
      /\ ~v.fetched /\ v.status = "signedOut"
  BY <1>1, EmptyScheduleIs DEF Snapshots
<1>3. QED
  BY <1>2 DEF OfItsRegion

LEMMA TournamentsInitially == TournamentsInit => TournamentsInv
<1> SUFFICES ASSUME TournamentsInit PROVE TournamentsInv
  OBVIOUS
<1>1. user \in Users /\ minute \in Nat
  BY DEF TournamentsInit, Users, AnyRegion
<1>2. OfItsRegion(EmptySchedule)
  BY EmptyScheduleIs DEF OfItsRegion
<1>3. /\ scheduler \in Workers /\ scheduler.at = "looking" /\ schedule = EmptySchedule
      /\ fetching = EmptySchedule
  BY DEF TournamentsInit, Workers, AnyRegion
<1>4. ScheduleShape
  BY <1>1, <1>2, <1>3, EmptyScheduleIs DEF ScheduleShape
<1>5. RemindersFired
  BY DEF TournamentsInit, RemindersFired
<1>6. QED
  BY <1>4, <1>5 DEF TournamentsInv

\* One turn of the worker's loop.
LEMMA LookKeeps == ASSUME ScheduleShape, Look PROVE ScheduleShape'
<1>0. /\ user \in Users /\ minute \in Nat /\ OfItsRegion(schedule) /\ OfItsRegion(fetching)
      /\ scheduler.shown \/ ~schedule.fetched
      /\ scheduler.next \in Nat /\ minute + 1 \in Nat
  BY DEF ScheduleShape, Workers
<1> DEFINE value == IF Changed THEN EmptySchedule ELSE schedule
           wanted == user.signedIn /\ user.shown
           region == RegionFor(value)
<1>1. /\ UNCHANGED <<minute, user>>
      /\ \/ /\ wanted /\ region # NoRegion
            /\ fetching' = [ForRegion(value, region) EXCEPT !.status = "loading"]
            /\ schedule' = fetching' /\ scheduler' = Seen("fetching", scheduler.next)
         \/ /\ ~(wanted /\ region # NoRegion)
            /\ schedule' = Checked([value EXCEPT
                 !.status = CASE ~user.signedIn -> "signedOut" [] ~user.shown -> "disabled"
                              [] OTHER -> "noRegion",
                 !.slots = IF wanted THEN @ ELSE <<>>, !.of = IF wanted THEN @ ELSE NoRegion])
            /\ scheduler' = Seen("looking", minute + 1) /\ UNCHANGED fetching
  BY DEF Look
<1>2. OfItsRegion(EmptySchedule)
  BY EmptyScheduleIs DEF OfItsRegion
<1>3. OfItsRegion(value) /\ value \in Snapshots
  BY <1>0, <1>2 DEF OfItsRegion
<1>4. region \in AnyRegion /\ (region = NoRegion => value.region = NoRegion)
  BY <1>0, <1>3 DEF RegionFor, Users, Snapshots
<1>5. ~user.shown => ~value.fetched
  BY <1>0, EmptyScheduleIs DEF Changed
<1>6. value.fetched /\ region = schedule.region => value.region = region
  BY EmptyScheduleIs
<1>7. /\ value.of # NoRegion /\ region = schedule.region => value.of = region
  BY <1>3, EmptyScheduleIs DEF OfItsRegion
<1>8. \A at \in {"looking", "fetching"}, next \in Nat :
        /\ Seen(at, next) \in Workers /\ Seen(at, next).at = at
        /\ Seen(at, next).shown = user.shown
  BY <1>0 DEF Seen, Workers, Users
<1>9. {"loading", "signedOut", "disabled", "noRegion"} \subseteq Statuses /\ <<>> \in SlotLists
      /\ NoRegion \in AnyRegion
  BY DEF Statuses, SlotLists, AnyRegion
<1> HIDE DEF value, region
<1>10. CASE wanted /\ region # NoRegion
  <2> DEFINE v == [ForRegion(value, region) EXCEPT !.status = "loading"]
  <2>1. fetching' = v /\ schedule' = v /\ scheduler' = Seen("fetching", scheduler.next)
    BY <1>1, <1>10
  <2>2. CASE region = schedule.region
    <3>1. /\ v \in Snapshots /\ v.region = region /\ v.of = value.of /\ v.slots = value.slots
          /\ v.fetched = value.fetched /\ v.status = "loading"
      BY <1>3, <1>4, <1>9, <2>2 DEF ForRegion, Snapshots
    <3>2. QED
      BY <1>0, <1>1, <1>3, <1>4, <1>6, <1>7, <1>8, <1>10, <2>1, <2>2, <3>1
         DEF ScheduleShape, OfItsRegion
  <2>3. CASE region # schedule.region
    <3>1. /\ v \in Snapshots /\ v.region = region /\ v.of = NoRegion /\ v.slots = <<>>
          /\ v.fetched = FALSE /\ v.status = "loading"
      BY <1>3, <1>4, <1>9, <2>3 DEF ForRegion, Snapshots
    <3>2. QED
      BY <1>0, <1>1, <1>8, <1>10, <2>1, <3>1 DEF ScheduleShape, OfItsRegion
  <2>4. QED
    BY <2>2, <2>3
<1>11. CASE ~(wanted /\ region # NoRegion)
  <2> DEFINE status == CASE ~user.signedIn -> "signedOut" [] ~user.shown -> "disabled"
                         [] OTHER -> "noRegion"
             v == [value EXCEPT !.status = status, !.slots = IF wanted THEN @ ELSE <<>>,
                                !.of = IF wanted THEN @ ELSE NoRegion]
  <2>1. schedule' = Checked(v) /\ scheduler' = Seen("looking", minute + 1) /\ UNCHANGED fetching
    BY <1>1, <1>11
  <2>2. status \in {"signedOut", "disabled", "noRegion"}
    BY <1>0 DEF Users
  <2> HIDE DEF status
  <2>3. /\ v \in Snapshots /\ v.region = value.region /\ v.fetched = value.fetched
        /\ v.status = status
        /\ v.slots = IF wanted THEN value.slots ELSE <<>>
        /\ v.of = IF wanted THEN value.of ELSE NoRegion
    BY <1>3, <1>9, <2>2 DEF Snapshots
  <2>4. OfItsRegion(v) \/ ~user.signedIn
    BY <1>3, <1>4, <1>5, <1>11, <2>2, <2>3 DEF OfItsRegion
  <2> HIDE DEF v
  <2>5. /\ OfItsRegion(schedule')
        /\ user.shown \/ ~schedule'.fetched
    BY <1>5, <2>1, <2>3, <2>4, SignedOutIs DEF Checked
  <2>6. QED
    BY <1>0, <1>1, <1>8, <2>1, <2>5 DEF ScheduleShape
<1>12. QED
  BY <1>10, <1>11

LEMMA FetchKeeps == ASSUME ScheduleShape, NEW answer, FetchReturns(answer) PROVE ScheduleShape'
<1> DEFINE region == fetching.region
           got == IF answer = "schedule"
                  THEN [fetching EXCEPT !.slots = Schedule[region], !.of = region, !.fetched = TRUE]
                  ELSE fetching
           found == [got EXCEPT !.status = IF got.fetched THEN "ready" ELSE "unavailable"]
<1>1. /\ scheduler.at = "fetching"
      /\ user' = IF answer = "refused" THEN [user EXCEPT !.signedIn = FALSE] ELSE user
      /\ schedule' = IF answer = "refused" THEN [EmptySchedule EXCEPT !.status = "signedOut"]
                     ELSE Checked(found)
      /\ scheduler' = [scheduler EXCEPT
           !.at = "looking",
           !.next = scheduler.began + IF answer = "schedule" THEN RefetchAfter ELSE 1]
      /\ UNCHANGED <<minute, fetching>>
  BY DEF FetchReturns
<1>2. /\ user \in Users /\ minute \in Nat /\ OfItsRegion(fetching) /\ fetching \in Snapshots
      /\ region # NoRegion /\ region \in Regions /\ scheduler.shown /\ fetching.status = "loading"
  BY <1>1 DEF ScheduleShape, OfItsRegion, Snapshots, AnyRegion
<1>3. user' \in Users
  BY <1>1, <1>2 DEF Users
<1>4. /\ got \in Snapshots /\ got.region = region /\ got.of \in {NoRegion, region}
      /\ got.slots # <<>> => got.of # NoRegion
      /\ got.fetched => got.of = region
  <2>1. Schedule[region] \in SlotLists /\ region \in AnyRegion
    BY <1>2 DEF SlotLists, AnyRegion
  <2>2. CASE answer = "schedule"
    BY <1>2, <2>1, <2>2 DEF Snapshots
  <2>3. CASE answer # "schedule"
    BY <1>2, <2>3 DEF OfItsRegion
  <2>4. QED
    BY <2>2, <2>3
<1> HIDE DEF got
<1>5. /\ found \in Snapshots /\ found.region = region /\ found.of = got.of
      /\ found.slots = got.slots /\ found.fetched = got.fetched
      /\ found.status = IF got.fetched THEN "ready" ELSE "unavailable"
  BY <1>4 DEF Snapshots, Statuses
<1> HIDE DEF found
<1>6. OfItsRegion(found)
  BY <1>4, <1>5 DEF OfItsRegion
<1>7. OfItsRegion(schedule')
  BY <1>1, <1>6, SignedOutIs DEF Checked
<1>8. scheduler' \in Workers /\ scheduler'.at = "looking" /\ scheduler'.shown = scheduler.shown
  <2>1. scheduler \in Workers
    BY DEF ScheduleShape
  <2>2. scheduler.began + (IF answer = "schedule" THEN RefetchAfter ELSE 1) \in Nat
    BY <2>1, TournamentsAssumption DEF Workers
  <2>3. QED
    BY <1>1, <2>1, <2>2 DEF Workers
<1>9. QED
  BY <1>1, <1>2, <1>3, <1>7, <1>8 DEF ScheduleShape

\* A look of the UI thread at the tournaments to come.
LEMMA RemindKeeps == ASSUME TournamentsInv, RefreshTournaments PROVE RemindersFired'
<1>0. /\ minute \in Nat /\ schedule.slots \in SlotLists /\ user.signedIn \in BOOLEAN
      /\ Lead \in Nat \ {0}
  BY TournamentsAssumption
     DEF TournamentsInv, ScheduleShape, OfItsRegion, Snapshots, Users
<1>1. /\ reminded \in [Starts -> {0, 1}] /\ fired \subseteq Starts
      /\ \A t \in Starts : t > minute /\ reminded[t] = 1 => t \in fired
      /\ \A t \in fired : reminded[t] = 1
  BY DEF TournamentsInv, RemindersFired
<1> DEFINE slots == schedule.slots
           first == Min(Upcoming)
           start == NextSlot.start
           asked == user.signedIn /\ Upcoming # {}
           isDue == asked /\ start - minute <= Lead /\ start \notin StillToCome
           listed == {s \in ToSet(slots) : user.signedIn /\ Matters(s)}
<1>2. /\ fired' = IF asked THEN StillToCome \cup (IF isDue THEN {start} ELSE {}) ELSE fired
      /\ reminded' = IF isDue THEN [reminded EXCEPT ![start] = @ + 1] ELSE reminded
      /\ imminent' = {s.start : s \in listed} \cap {minute + 1}
      /\ UNCHANGED minute
  BY DEF RefreshTournaments
<1>3. /\ Starts \subseteq Nat /\ DOMAIN slots \subseteq Nat
      /\ \A i \in DOMAIN slots : slots[i].start \in Starts
      /\ \A i, j \in DOMAIN slots : i <= j => slots[i].start <= slots[j].start
  BY <1>0, SlotFacts
<1>4. ASSUME Upcoming # {}
      PROVE  /\ first \in DOMAIN slots /\ start = slots[first].start /\ start \in Starts
             /\ start > minute /\ \A i \in Upcoming : first <= i
  <2>1. Upcoming \in SUBSET Nat
    BY <1>3 DEF Upcoming
  <2>2. first \in Upcoming /\ \A i \in Upcoming : first <= i
    BY <1>4, <2>1, FirstOfSome DEF Min
  <2>3. QED
    BY <1>3, <2>2 DEF Upcoming, NextSlot
<1>5. StillToCome \subseteq fired /\ \A t \in fired : t > minute => t \in StillToCome
  BY DEF StillToCome
<1> HIDE DEF start, first
<1>6. ASSUME isDue PROVE start \in Starts /\ start > minute /\ reminded[start] = 0
  <2>1. start \in Starts /\ start > minute /\ start \notin StillToCome
    BY <1>4, <1>6
  <2>2. start \notin fired
    BY <1>5, <2>1
  <2>3. QED
    BY <1>1, <2>1, <2>2
<1>7. /\ reminded' \in [Starts -> {0, 1}]
      /\ isDue => reminded'[start] = 1
      /\ \A t \in Starts : t # start \/ ~isDue => reminded'[t] = reminded[t]
  BY <1>1, <1>2, <1>6
<1>8. fired' \subseteq Starts /\ \A t \in fired' : t \in fired \/ (isDue /\ t = start)
  BY <1>1, <1>2, <1>5, <1>6
<1>9. \A t \in Starts : t > minute /\ reminded'[t] = 1 => t \in fired'
  <2> TAKE t \in Starts
  <2> SUFFICES ASSUME t > minute, reminded'[t] = 1 PROVE t \in fired'
    OBVIOUS
  <2>1. CASE isDue /\ t = start
    BY <1>2, <2>1
  <2>2. CASE ~(isDue /\ t = start)
    <3>1. t \in fired
      BY <1>1, <1>7, <2>2
    <3>2. t \in StillToCome
      BY <1>5, <3>1
    <3>3. QED
      BY <1>2, <3>1, <3>2
  <2>3. QED
    BY <2>1, <2>2
<1>10. \A t \in fired' : reminded'[t] = 1
  BY <1>1, <1>7, <1>8
<1>11. ASSUME NEW t \in imminent' PROVE t \in Starts /\ reminded'[t] = 1
  <2>1. PICK s \in listed : s.start = t
    BY <1>2
  <2>2. PICK j \in DOMAIN slots : s = slots[j]
    BY <2>1 DEF ToSet
  <2>3. t = minute + 1 /\ user.signedIn /\ Matters(slots[j]) /\ slots[j].start = t
    BY <1>2, <2>1, <2>2
  <2>4. j \in Upcoming
    BY <1>0, <2>2, <2>3 DEF Upcoming
  <2>5. asked
    BY <2>3, <2>4
  <2> HIDE DEF listed
  <2>6. /\ first \in DOMAIN slots /\ start = slots[first].start /\ start \in Starts
        /\ start > minute /\ first <= j
    BY <1>4, <2>4
  <2>7. start <= t
    BY <1>3, <2>2, <2>3, <2>6
  <2>8. start = t
    BY <1>0, <1>3, <2>3, <2>6, <2>7
  <2>9. start - minute <= Lead
    BY <1>0, <2>3, <2>8
  <2>10. CASE start \in StillToCome
    BY <1>1, <1>5, <1>7, <2>6, <2>8, <2>10
  <2>11. CASE start \notin StillToCome
    BY <1>7, <2>5, <2>6, <2>8, <2>9, <2>11
  <2>12. QED
    BY <2>10, <2>11
<1>12. QED
  BY <1>2, <1>7, <1>8, <1>9, <1>10, <1>11 DEF RemindersFired

LEMMA TournamentsStep == TournamentsInv /\ [TournamentsNext]_tournamentVars => TournamentsInv'
<1> SUFFICES ASSUME TournamentsInv, [TournamentsNext]_tournamentVars PROVE TournamentsInv'
  OBVIOUS
<1>0. /\ user \in Users /\ minute \in Nat /\ OfItsRegion(schedule) /\ OfItsRegion(fetching)
      /\ scheduler \in Workers
      /\ scheduler.at = "fetching" =>
           scheduler.shown /\ fetching.region # NoRegion /\ fetching.status = "loading"
      /\ scheduler.shown \/ ~schedule.fetched
  BY DEF TournamentsInv, ScheduleShape
<1>1. ScheduleShape /\ RemindersFired
  BY DEF TournamentsInv
<1>2. ASSUME UNCHANGED uiThreadVars, UNCHANGED minute PROVE RemindersFired'
  BY <1>1, <1>2 DEF RemindersFired, uiThreadVars
<1>3. ASSUME Look PROVE TournamentsInv'
  <2>1. UNCHANGED uiThreadVars /\ UNCHANGED minute
    BY <1>3 DEF Look
  <2>2. QED
    BY <1>1, <1>2, <1>3, <2>1, LookKeeps DEF TournamentsInv
<1>4. ASSUME FetchEnds PROVE TournamentsInv'
  <2>1. PICK answer \in {"schedule", "nothing", "refused"} : FetchReturns(answer)
    BY <1>4 DEF FetchEnds
  <2>2. UNCHANGED uiThreadVars /\ UNCHANGED minute
    BY <2>1 DEF FetchReturns
  <2>3. QED
    BY <1>1, <1>2, <2>1, <2>2, FetchKeeps DEF TournamentsInv
<1>5. ASSUME RefreshTournaments PROVE TournamentsInv'
  <2>1. UNCHANGED <<minute, user, scheduler, fetching, schedule>>
    BY <1>5 DEF RefreshTournaments
  <2>2. ScheduleShape'
    BY <1>0, <2>1 DEF ScheduleShape
  <2>3. QED
    BY <1>5, <2>2, RemindKeeps DEF TournamentsInv
<1>6. ASSUME MinutePasses PROVE TournamentsInv'
  <2>1. minute' = minute + 1
        /\ UNCHANGED <<user, scheduler, fetching, schedule, fired, reminded, imminent>>
    BY <1>6 DEF MinutePasses
  <2>2. ScheduleShape'
    BY <1>0, <2>1 DEF ScheduleShape
  <2>3. \A t \in Starts : t > minute + 1 => t > minute
    BY <1>0, SlotFacts
  <2>4. RemindersFired'
    BY <1>1, <2>1, <2>3 DEF RemindersFired
  <2>5. QED
    BY <2>2, <2>4 DEF TournamentsInv
<1>7. ASSUME UserSets PROVE TournamentsInv'
  <2>1. /\ \/ user' = [user EXCEPT !.signedIn = ~@]
           \/ user' = [user EXCEPT !.shown = ~@]
           \/ \E r \in AnyRegion : user' = [user EXCEPT !.region = r]
           \/ \E r \in AnyRegion : user' = [user EXCEPT !.detected = r]
        /\ UNCHANGED <<minute, scheduler, fetching, schedule, uiThreadVars>>
    BY <1>7 DEF UserSets, Sets, AnyRegion
  <2>2. user' \in Users
    BY <1>0, <2>1 DEF Users
  <2>3. ScheduleShape'
    BY <1>0, <2>1, <2>2 DEF ScheduleShape
  <2>4. QED
    BY <1>2, <2>1, <2>3 DEF TournamentsInv
<1>8. ASSUME RequestRefresh PROVE TournamentsInv'
  <2>1. /\ scheduler' = [scheduler EXCEPT !.refresh = TRUE]
        /\ UNCHANGED <<minute, user, fetching, schedule, uiThreadVars>>
    BY <1>8 DEF RequestRefresh
  <2>2. /\ scheduler' \in Workers /\ scheduler'.at = scheduler.at
        /\ scheduler'.shown = scheduler.shown
    BY <1>0, <2>1 DEF Workers
  <2>3. ScheduleShape'
    BY <1>0, <2>1, <2>2 DEF ScheduleShape
  <2>4. QED
    BY <1>2, <2>1, <2>3 DEF TournamentsInv
<1>9. CASE UNCHANGED tournamentVars
  <2>1. UNCHANGED <<minute, user, scheduler, fetching, schedule, uiThreadVars>>
    BY <1>9 DEF tournamentVars, uiThreadVars
  <2>2. ScheduleShape'
    BY <1>0, <2>1 DEF ScheduleShape
  <2>3. QED
    BY <1>2, <2>1, <2>2 DEF TournamentsInv
<1>10. QED
  BY <1>3, <1>4, <1>5, <1>6, <1>7, <1>8, <1>9 DEF TournamentsNext

LEMMA TournamentsAreRight ==
  TournamentsInv => TournamentsTypeOK /\ SlotsOfRegion /\ RemindedOnce
<1> SUFFICES ASSUME TournamentsInv PROVE TournamentsTypeOK /\ SlotsOfRegion /\ RemindedOnce
  OBVIOUS
<1>1. /\ scheduler.at \in {"looking", "fetching"} /\ OfItsRegion(schedule)
      /\ schedule.region \in AnyRegion /\ schedule.status \in Statuses
  BY DEF TournamentsInv, ScheduleShape, Workers, OfItsRegion, Snapshots
<1>2. TournamentsTypeOK
  BY <1>1 DEF TournamentsTypeOK, AnyRegion, Statuses, TournamentsInv, RemindersFired
<1>3. SlotsOfRegion
  BY <1>1 DEF SlotsOfRegion, OfItsRegion
<1>4. \A t \in Starts : reminded[t] \in {0, 1}
  BY DEF TournamentsInv, RemindersFired
<1>5. RemindedOnce
  BY <1>4 DEF RemindedOnce, TournamentsInv, RemindersFired
<1>6. QED
  BY <1>2, <1>3, <1>5

LEMMA PartHasTournaments ==
  /\ PartInit => TournamentsInit
  /\ [PartNext]_allVars => [TournamentsNext]_tournamentVars
<1>1. PartInit => TournamentsInit
  BY DEF PartInit
<1>2. [PartNext]_allVars => [TournamentsNext]_tournamentVars
  BY ZenonT(60) DEF PartNext, allVars, fifthVars, InWorkQueue, InReaders, InDatabase, InSessions,
         InMatches, InMigrations, InPaging, InReplays, InAccount, InUpdateCheck, InUpdate,
         InHotkeys, InOverlay, InConfig, InTelemetry, InRemote, InTournaments
<1>3. QED
  BY <1>1, <1>2

LEMMA ConfigIsRight == ConfigInv => ConfigTypeOK /\ CredentialIsOnDisk
BY DEF ConfigInv, ConfigShape, ConfigFiles, Memories, AnyCredential, FileIsUpToDate, OnDisk,
       ConfigTypeOK, CredentialIsOnDisk

\* The credential on disk is the one in memory once the saver has run; announcements are fresh and
\* stay away once they were put away, seasons are the server's and have begun; the tournaments shown
\* are those of the region named, each announced once: with the inductive invariants of the three.
THEOREM SettingsAreRight == PartSpec => []SettingsRight
<1>1. ConfigInv => (part = "config" => ConfigTypeOK /\ CredentialIsOnDisk)
  BY ConfigIsRight
<1>2. PartSpec => []ConfigInv
  BY ConfigInitially, ConfigStep, PartHasConfig, PTL DEF PartSpec
<1>3. PartSpec => []RemoteInv
  BY RemoteInitially, RemoteStep, PartHasRemote, PTL DEF PartSpec
<1>4. PartSpec => []TournamentsInv
  BY TournamentsInitially, TournamentsStep, PartHasTournaments, PTL DEF PartSpec
<1>5. ConfigInv /\ RemoteInv /\ TournamentsInv => SettingsRight
  BY <1>1, RemoteIsRight, TournamentsAreRight DEF SettingsRight
<1>6. QED
  BY <1>2, <1>3, <1>4, <1>5, PTL

-----------------------------------------------------------------------------
\* The start-up of the database file.

\* References of some rows.
References == UNION {[S -> Rows \cup {NoRow}] : S \in SUBSET Rows}
AnyTables == SUBSET (TablesAt(LatestVersion) \cup {"MatchAnalytics"})
DbFiles == [version : 0..LatestVersion, refs : References, corrected : {0, 1}, flag : BOOLEAN,
            tables : AnyTables]
Launches ==
  [at : {"off", "repair", "backup", "step", "ensure", "arena", "open", "refused"}, next : Nat,
   from : Nat]

MigrationShape ==
  /\ db \in DbFiles /\ tx \in DbFiles /\ launch \in Launches /\ launches \in 0..MaxStartups
  /\ \A b \in backups : b.why \in {"repair", "migration"}

\* Outside a repair nothing waits to be committed; a repair changes references only.
OnlyReferencesWait ==
  /\ launch.at # "repair" \/ launch.next = 0 => tx = db
  /\ tx.version = db.version /\ tx.tables = db.tables
  /\ tx.corrected = db.corrected /\ tx.flag = db.flag

\* A row is gone since its reference led nowhere and could not be cleared, and a reference is the
\* one it was or was cleared since it led nowhere.
RepairGoesOn ==
  LET was == db.refs
      new == tx.refs
  IN launch.at = "repair" =>
       /\ DOMAIN new \subseteq DOMAIN was
       /\ \A r \in DOMAIN was \ DOMAIN new :
            r \notin Nullable /\ was[r] \notin DOMAIN new \cup {NoRow}
       /\ \A r \in DOMAIN new :
            \/ new[r] = was[r]
            \/ new[r] = NoRow /\ r \in Nullable /\ was[r] \notin DOMAIN new

CopiedFirst ==
  /\ launch.at = "repair" /\ launch.next > 0 => \E b \in backups : b.content = db
  /\ launch.at \in {"repair", "backup"} => launch.from = db.version
  /\ launch.at = "step" => launch.next = db.version + 1 /\ launch.from <= db.version
  /\ launch.at = "step" /\ launch.next = launch.from + 1 /\ NeedsBackup =>
       uncopied \/ \E b \in backups : b.content = db

NotCorrectedYet == ~db.flag => db.corrected = 0

MigrationInv ==
  /\ MigrationShape /\ OnlyReferencesWait /\ RepairGoesOn /\ CopiedFirst /\ NotCorrectedYet
  /\ SchemaIsWhole /\ ReferencesHold

LEMMA TablesOfVersions ==
  /\ LatestVersion \in Nat
  /\ \A n \in 1..LatestVersion : TablesAt(n) = TablesAt(n - 1) \cup StepTables[n]
  /\ \A n \in 0..LatestVersion : TablesAt(n) \in AnyTables
  /\ \A n \in 1..LatestVersion : StepTables[n] \subseteq TablesAt(LatestVersion)
  /\ \A n \in 1..LatestVersion : StepTables[1] \subseteq TablesAt(n)
<1>1. LatestVersion = 12
  BY DEF LatestVersion, StepTables
<1>2. \A n \in 1..LatestVersion : 1..n = 1..(n - 1) \cup {n}
  BY <1>1
<1>3. \A n \in 1..LatestVersion : TablesAt(n) = TablesAt(n - 1) \cup StepTables[n]
  BY <1>2 DEF TablesAt
<1>4. \A n \in 0..LatestVersion : 1..n \subseteq 1..LatestVersion
  BY <1>1
<1>5. \A n \in 0..LatestVersion : TablesAt(n) \in AnyTables
  BY <1>4 DEF TablesAt, AnyTables
<1>6. \A n \in 1..LatestVersion : StepTables[n] \subseteq TablesAt(LatestVersion)
  BY DEF TablesAt
<1>7. \A n \in 1..LatestVersion : 1 \in 1..n
  BY <1>1
<1>8. \A n \in 1..LatestVersion : StepTables[1] \subseteq TablesAt(n)
  BY <1>7 DEF TablesAt
<1>9. QED
  BY <1>1, <1>3, <1>5, <1>6, <1>8

LEMMA MigrationInitially == MigrationInit => MigrationInv
<1> SUFFICES ASSUME MigrationInit PROVE MigrationInv
  OBVIOUS
<1>1. PICK version \in FirstVersions, present \in SUBSET Rows, odd \in BOOLEAN :
        db = [version |-> version, refs |-> [r \in present |-> Parent[r]],
              corrected |-> 0, flag |-> FALSE,
              tables |-> IF odd THEN TablesAt(version) \ {"MatchAnalytics"} ELSE TablesAt(version)]
  BY DEF MigrationInit
<1>2. tx = db /\ backups = {} /\ launch = Off /\ launches = 0
  BY DEF MigrationInit
<1>3. version \in 0..LatestVersion /\ TablesAt(version) \in AnyTables
  BY TablesOfVersions, VersionsAssumption
<1>4. [r \in present |-> Parent[r]] \in References
  BY MigrationsAssumption DEF References
<1>5. db.tables \in AnyTables /\ db.tables \ {"MatchAnalytics"} = TablesAt(version) \ {"MatchAnalytics"}
  BY <1>1, <1>3 DEF AnyTables
<1>6. /\ db \in DbFiles /\ db.version = version /\ db.corrected = 0
  BY <1>1, <1>3, <1>4, <1>5 DEF DbFiles
<1>7. launch \in Launches /\ launch.at = "off" /\ launches \in 0..MaxStartups
  BY <1>2, MigrationsAssumption DEF Off, Launches
<1>8. MigrationShape /\ OnlyReferencesWait /\ RepairGoesOn /\ CopiedFirst /\ NotCorrectedYet
  BY <1>2, <1>6, <1>7
     DEF MigrationShape, OnlyReferencesWait, RepairGoesOn, CopiedFirst, NotCorrectedYet
<1>9. SchemaIsWhole /\ ReferencesHold
  BY <1>5, <1>6, <1>7 DEF SchemaIsWhole, ReferencesHold
<1>10. QED
  BY <1>8, <1>9 DEF MigrationInv

\* A pass of the repair.
LEMMA PassKeeps ==
  ASSUME MigrationShape, RepairGoesOn, launch.at = "repair"
  PROVE  LET was == db.refs
             new == RepairOrphans(tx.refs)
         IN /\ new \in References /\ DOMAIN new \subseteq DOMAIN was
            /\ \A r \in DOMAIN was \ DOMAIN new :
                 r \notin Nullable /\ was[r] \notin DOMAIN new \cup {NoRow}
            /\ \A r \in DOMAIN new :
                 \/ new[r] = was[r]
                 \/ new[r] = NoRow /\ r \in Nullable /\ was[r] \notin DOMAIN new
<1> DEFINE was == db.refs
           mid == tx.refs
           new == RepairOrphans(mid)
<1>1. mid \in References
  BY DEF MigrationShape, DbFiles
<1>2. PICK S \in SUBSET Rows : mid \in [S -> Rows \cup {NoRow}]
  BY <1>1 DEF References
<1>3. /\ DOMAIN mid = S /\ S \subseteq DOMAIN was
      /\ \A r \in DOMAIN was \ S : r \notin Nullable /\ was[r] \notin S \cup {NoRow}
      /\ \A r \in S : mid[r] = was[r] \/ (mid[r] = NoRow /\ r \in Nullable /\ was[r] \notin S)
  BY <1>2 DEF RepairGoesOn
<1> DEFINE orphans == {r \in S : mid[r] # NoRow /\ mid[r] \notin S}
           staying == S \ (orphans \ Nullable)
<1>4. Orphans(mid) = orphans
  BY <1>3 DEF Orphans
<1>5. new = [r \in staying |-> IF r \in orphans THEN NoRow ELSE mid[r]]
  BY <1>3, <1>4 DEF RepairOrphans
<1>6. new \in [staying -> Rows \cup {NoRow}] /\ staying \in SUBSET Rows /\ staying \subseteq S
  BY <1>2, <1>5
<1>7. new \in References
  BY <1>6 DEF References
<1>8. DOMAIN new = staying /\ staying \subseteq DOMAIN was
  BY <1>3, <1>5
<1>9. ASSUME NEW r \in DOMAIN was \ staying PROVE r \notin Nullable /\ was[r] \notin staying \cup {NoRow}
  <2>1. CASE r \in S
    BY <1>3, <1>6, <1>9, <2>1
  <2>2. CASE r \notin S
    BY <1>3, <1>6, <1>9, <2>2
  <2>3. QED
    BY <2>1, <2>2
<1>10. ASSUME NEW r \in staying
       PROVE  \/ new[r] = was[r]
              \/ new[r] = NoRow /\ r \in Nullable /\ was[r] \notin staying
  <2>1. new[r] = IF r \in orphans THEN NoRow ELSE mid[r]
    BY <1>5
  <2>2. QED
    BY <1>3, <1>6, <2>1
<1>11. QED
  BY <1>7, <1>8, <1>9, <1>10

\* What is left when no reference leads nowhere.
LEMMA RepairEnds ==
  ASSUME MigrationShape, RepairGoesOn, launch.at = "repair", Orphans(tx.refs) = {}
  PROVE  LET was == db.refs
             new == tx.refs
         IN /\ \A r \in DOMAIN was :
                 r \in DOMAIN new <=> r \in Nullable \/ was[r] \in DOMAIN new \cup {NoRow}
            /\ \A r \in DOMAIN new : new[r] = IF was[r] \in DOMAIN new THEN was[r] ELSE NoRow
<1> DEFINE was == db.refs
           new == tx.refs
<1>1. /\ DOMAIN new \subseteq DOMAIN was
      /\ \A r \in DOMAIN was \ DOMAIN new :
           r \notin Nullable /\ was[r] \notin DOMAIN new \cup {NoRow}
      /\ \A r \in DOMAIN new :
           \/ new[r] = was[r]
           \/ new[r] = NoRow /\ r \in Nullable /\ was[r] \notin DOMAIN new
  BY DEF RepairGoesOn
<1>2. \A r \in DOMAIN new : new[r] \in DOMAIN new \cup {NoRow}
  BY DEF Orphans
<1> HIDE DEF was, new
<1>3. QED
  BY <1>1, <1>2 DEF was, new

\* Each step keeps the invariant.
LEMMA MigrationStep == MigrationInv /\ [MigrationNext]_migrationVars => MigrationInv'
<1> SUFFICES ASSUME MigrationInv, [MigrationNext]_migrationVars PROVE MigrationInv'
  OBVIOUS
<1>1. /\ MigrationShape /\ OnlyReferencesWait /\ RepairGoesOn /\ CopiedFirst /\ NotCorrectedYet
      /\ SchemaIsWhole /\ ReferencesHold
  BY DEF MigrationInv
<1>2. /\ db \in DbFiles /\ tx \in DbFiles /\ launch \in Launches /\ launches \in 0..MaxStartups
      /\ MaxStartups \in Nat /\ RepairPasses \in Nat
      /\ \A b \in backups : b.why \in {"repair", "migration"}
  BY <1>1, MigrationsAssumption DEF MigrationShape
<1> DEFINE places ==
             {"off", "repair", "backup", "step", "ensure", "arena", "open", "refused"}
<1>3. /\ \A at \in places :
           /\ [launch EXCEPT !.at = at] \in Launches /\ [launch EXCEPT !.at = at].at = at
           /\ [launch EXCEPT !.at = at].next = launch.next
           /\ [launch EXCEPT !.at = at].from = launch.from
      /\ \A n \in Nat :
           /\ [launch EXCEPT !.next = n] \in Launches /\ [launch EXCEPT !.next = n].next = n
           /\ [launch EXCEPT !.next = n].at = launch.at
           /\ [launch EXCEPT !.next = n].from = launch.from
  BY <1>2 DEF Launches
<1>4. /\ launch.at \in places /\ launch.next \in Nat /\ launch.from \in Nat
      /\ db.version \in 0..LatestVersion
      /\ db.refs \in References /\ db.corrected \in {0, 1} /\ db.flag \in BOOLEAN
      /\ db.tables \in AnyTables /\ tx.refs \in References
  BY <1>2 DEF Launches, DbFiles
<1> HIDE DEF places
\* A step that leaves the file, the transaction and the repair alone.
<1>5. ASSUME UNCHANGED <<db, tx>>, launch' \in Launches, launches' \in 0..MaxStartups,
             \A b \in backups' : b.why \in {"repair", "migration"},
             launch'.at = "repair" => RepairGoesOn',
             launch'.at # "repair" \/ launch'.next = 0 => tx = db,
             launch'.at \notin {"off", "repair", "refused"} => Orphans(db.refs) = {},
             CopiedFirst'
      PROVE  MigrationInv'
  <2>1. MigrationShape' /\ OnlyReferencesWait' /\ NotCorrectedYet'
    BY <1>1, <1>2, <1>5 DEF MigrationShape, OnlyReferencesWait, NotCorrectedYet
  <2>2. SchemaIsWhole' /\ ReferencesHold'
    BY <1>1, <1>5 DEF SchemaIsWhole, ReferencesHold
  <2>3. RepairGoesOn'
    BY <1>5 DEF RepairGoesOn
  <2>4. QED
    BY <1>5, <2>1, <2>2, <2>3 DEF MigrationInv
\* A step of an open file.
<1>6. ASSUME db' \in DbFiles, tx' = db', launch' \in Launches, UNCHANGED <<backups, launches>>,
             launch'.at # "repair", db'.refs = db.refs,
             launch.at \notin {"off", "repair", "refused"},
             SchemaIsWhole', NotCorrectedYet', CopiedFirst'
      PROVE  MigrationInv'
  <2>1. MigrationShape' /\ OnlyReferencesWait' /\ RepairGoesOn'
    BY <1>2, <1>6 DEF MigrationShape, OnlyReferencesWait, RepairGoesOn
  <2>2. ReferencesHold'
    BY <1>1, <1>6 DEF ReferencesHold
  <2>3. QED
    BY <1>6, <2>1, <2>2 DEF MigrationInv
<1>8. CASE Launch
  <2>1. /\ launch = Off /\ launches < MaxStartups /\ launches' = launches + 1
        /\ launch' = [at |-> IF Orphans(db.refs) = {} THEN "backup" ELSE "repair", next |-> 0,
                      from |-> db.version]
        /\ UNCHANGED <<db, tx, backups, uncopied>>
    BY <1>8 DEF Launch
  <2>2. launch.at = "off" /\ tx = db
    BY <1>1, <2>1 DEF Off, OnlyReferencesWait
  <2>3. /\ launch' \in Launches /\ launch'.next = 0 /\ launch'.from = db.version
        /\ launch'.at = IF Orphans(db.refs) = {} THEN "backup" ELSE "repair"
    BY <1>4, <2>1, TablesOfVersions DEF Launches
  <2>4. RepairGoesOn'
    BY <2>1, <2>2 DEF RepairGoesOn
  <2>5. CopiedFirst'
    BY <2>1, <2>3 DEF CopiedFirst
  <2>6. QED
    BY <1>2, <1>5, <2>1, <2>2, <2>3, <2>4, <2>5
<1>9. CASE EndOfProgram
  <2>1. launch' = Off /\ tx' = db /\ UNCHANGED <<db, backups, launches, uncopied>>
    BY <1>9 DEF EndOfProgram
  <2>2. launch' \in Launches /\ launch'.at = "off"
    BY <2>1 DEF Off, Launches
  <2>3. MigrationShape' /\ OnlyReferencesWait' /\ NotCorrectedYet' /\ RepairGoesOn' /\ CopiedFirst'
    BY <1>1, <1>2, <2>1, <2>2
       DEF MigrationShape, OnlyReferencesWait, NotCorrectedYet, RepairGoesOn, CopiedFirst
  <2>4. SchemaIsWhole' /\ ReferencesHold'
    BY <1>1, <2>1, <2>2 DEF SchemaIsWhole, ReferencesHold
  <2>5. QED
    BY <2>3, <2>4 DEF MigrationInv
<1>10. CASE BackupBeforeRepair
  <2>1. /\ launch.at = "repair" /\ launch.next = 0
        /\ \/ /\ backups' = backups \cup {[why |-> "repair", version |-> 0, content |-> db]}
              /\ launch' = [launch EXCEPT !.next = 1]
           \/ launch' = [launch EXCEPT !.at = "refused"] /\ UNCHANGED backups
        /\ UNCHANGED <<db, tx, launches, uncopied>>
    BY <1>10 DEF BackupBeforeRepair, StopUncopied
  <2>2. tx = db
    BY <1>1, <2>1 DEF OnlyReferencesWait
  <2>3. CASE launch' = [launch EXCEPT !.at = "refused"] /\ UNCHANGED backups
    <3>1. launch' \in Launches /\ launch'.at = "refused"
      BY <1>3, <1>4, <2>3 DEF places
    <3>2. CopiedFirst'
      BY <3>1 DEF CopiedFirst
    <3>3. QED
      BY <1>2, <1>5, <2>1, <2>2, <2>3, <3>1, <3>2
  <2>4. CASE /\ backups' = backups \cup {[why |-> "repair", version |-> 0, content |-> db]}
             /\ launch' = [launch EXCEPT !.next = 1]
    <3>1. /\ launch' \in Launches /\ launch'.at = "repair" /\ launch'.next = 1
          /\ launch'.from = launch.from
      BY <1>3, <2>1, <2>4
    <3> DEFINE copy == [why |-> "repair", version |-> 0, content |-> db]
    <3>a. copy.content = db /\ copy.why = "repair" /\ backups' = backups \cup {copy}
      BY <2>4
    <3> HIDE DEF copy
    <3>2. \E b \in backups' : b.content = db
      BY <3>a
    <3>3. \A b \in backups' : b.why \in {"repair", "migration"}
      BY <1>2, <3>a
    <3>4. RepairGoesOn'
      BY <1>1, <2>1, <3>1 DEF RepairGoesOn
    <3>5. CopiedFirst'
      BY <1>1, <2>1, <3>1, <3>2 DEF CopiedFirst
    <3>6. QED
      BY <1>2, <1>5, <2>1, <2>2, <3>1, <3>3, <3>4, <3>5
  <2>5. QED
    BY <2>1, <2>3, <2>4
<1>11. ASSUME UNCHANGED <<db, backups, launches>>, Refuse PROVE MigrationInv'
  <2>1. launch' = [launch EXCEPT !.at = "refused"] /\ tx' = db
    BY <1>11 DEF Refuse
  <2>2. launch' \in Launches /\ launch'.at = "refused"
    BY <1>3, <1>4, <2>1 DEF places
  <2>3. MigrationShape' /\ OnlyReferencesWait' /\ NotCorrectedYet' /\ RepairGoesOn' /\ CopiedFirst'
    BY <1>1, <1>2, <1>11, <2>1, <2>2
       DEF MigrationShape, OnlyReferencesWait, NotCorrectedYet, RepairGoesOn, CopiedFirst
  <2>4. SchemaIsWhole' /\ ReferencesHold'
    BY <1>1, <1>11, <2>2 DEF SchemaIsWhole, ReferencesHold
  <2>5. QED
    BY <2>3, <2>4 DEF MigrationInv
<1>12. CASE RepairPass
  <2>1. /\ launch.at = "repair" /\ launch.next \in 1..RepairPasses
        /\ \/ /\ tx' = [tx EXCEPT !.refs = RepairOrphans(tx.refs)]
              /\ launch' = [launch EXCEPT !.next = @ + 1]
           \/ Refuse
        /\ UNCHANGED <<db, backups, launches, uncopied>>
    BY <1>12 DEF RepairPass
  <2>2. CASE /\ tx' = [tx EXCEPT !.refs = RepairOrphans(tx.refs)]
             /\ launch' = [launch EXCEPT !.next = @ + 1]
    <3>1. /\ launch' \in Launches /\ launch'.at = "repair" /\ launch'.next = launch.next + 1
          /\ launch'.from = launch.from /\ launch'.next > 0
      <4>1. launch.next + 1 \in Nat /\ launch.next + 1 > 0
        BY <1>4
      <4>2. QED
        BY <1>3, <2>1, <2>2, <4>1
    <3>2. RepairOrphans(tx.refs) \in References
      BY <1>1, <2>1, PassKeeps
    <3>3. /\ tx' \in DbFiles /\ tx'.refs = RepairOrphans(tx.refs)
          /\ tx'.version = tx.version /\ tx'.tables = tx.tables
          /\ tx'.corrected = tx.corrected /\ tx'.flag = tx.flag
      BY <1>2, <2>2, <3>2 DEF DbFiles
    <3>4. MigrationShape' /\ NotCorrectedYet' /\ SchemaIsWhole' /\ ReferencesHold'
      BY <1>1, <1>2, <2>1, <3>1, <3>3
         DEF MigrationShape, NotCorrectedYet, SchemaIsWhole, ReferencesHold
    <3>5. OnlyReferencesWait'
      BY <1>1, <1>4, <2>1, <3>1, <3>3 DEF OnlyReferencesWait
    <3>6. RepairGoesOn'
      BY <1>1, <2>1, <3>3, PassKeeps DEF RepairGoesOn
    <3>7. CopiedFirst'
      BY <1>1, <1>4, <2>1, <3>1 DEF CopiedFirst
    <3>8. QED
      BY <3>4, <3>5, <3>6, <3>7 DEF MigrationInv
  <2>3. QED
    BY <1>11, <2>1, <2>2
<1>13. CASE CommitRepair
  <2>1. /\ launch.at = "repair" /\ launch.next > 0
        /\ \/ /\ Orphans(tx.refs) = {} /\ db' = tx
              /\ launch' = [launch EXCEPT !.at = "backup"] /\ UNCHANGED tx
           \/ Refuse /\ UNCHANGED db
        /\ UNCHANGED <<backups, launches, uncopied>>
    BY <1>13 DEF CommitRepair, NoOrphansLeft
  <2>2. CASE /\ Orphans(tx.refs) = {} /\ db' = tx
             /\ launch' = [launch EXCEPT !.at = "backup"] /\ UNCHANGED tx
    <3>1. /\ launch' \in Launches /\ launch'.at = "backup" /\ launch'.from = launch.from
      BY <1>3, <1>4, <2>2 DEF places
    <3>2. tx.version = db.version /\ tx.tables = db.tables
          /\ tx.corrected = db.corrected /\ tx.flag = db.flag
      BY <1>1 DEF OnlyReferencesWait
    <3>3. MigrationShape' /\ OnlyReferencesWait' /\ RepairGoesOn' /\ NotCorrectedYet'
      BY <1>1, <1>2, <2>1, <2>2, <3>1, <3>2
         DEF MigrationShape, OnlyReferencesWait, RepairGoesOn, NotCorrectedYet
    <3>4. CopiedFirst'
      BY <1>1, <2>1, <2>2, <3>1, <3>2 DEF CopiedFirst
    <3>5. SchemaIsWhole' /\ ReferencesHold'
      BY <1>1, <2>2, <3>2 DEF SchemaIsWhole, ReferencesHold
    <3>6. QED
      BY <3>3, <3>4, <3>5 DEF MigrationInv
  <2>3. QED
    BY <1>11, <2>1, <2>2
<1>14. CASE BackupBeforeMigration
  <2> DEFINE copy == [why |-> "migration", version |-> db.version, content |-> db]
  <2>a. copy.content = db /\ copy.why = "migration"
    OBVIOUS
  <2>b. /\ launch.at = "backup"
        /\ launch' = [launch EXCEPT !.at = "step", !.next = db.version + 1]
        /\ UNCHANGED <<db, tx, launches>>
        /\ \/ \E copied \in BOOLEAN :
                /\ uncopied' = ~copied
                /\ backups' = {b \in backups : b.why # "migration"} \cup
                     IF copied THEN {copy} ELSE {}
           \/ ~NeedsBackup /\ UNCHANGED <<backups, uncopied>>
    BY <1>14 DEF BackupBeforeMigration
  <2> HIDE DEF copy
  <2>1. /\ \A b \in backups' : b \in backups \/ b = copy
        /\ NeedsBackup => uncopied' \/ copy \in backups'
    BY <2>b
  <2>2. /\ launch' \in Launches /\ launch'.at = "step" /\ launch'.next = db.version + 1
        /\ launch'.from = launch.from
    <3>1. db.version + 1 \in Nat
      BY <1>4, TablesOfVersions
    <3>2. QED
      BY <1>2, <2>b, <3>1 DEF Launches
  <2>3. \A b \in backups' : b.why \in {"repair", "migration"}
    BY <1>2, <2>a, <2>1
  <2>4. /\ tx = db /\ Orphans(db.refs) = {}
    BY <1>1, <2>b DEF OnlyReferencesWait, ReferencesHold
  <2>5. CopiedFirst'
    BY <1>1, <1>4, <2>a, <2>b, <2>1, <2>2, TablesOfVersions DEF CopiedFirst, NeedsBackup
  <2>6. QED
    BY <1>2, <1>5, <2>b, <2>2, <2>3, <2>4, <2>5
<1>15. CASE RunStep
  <2>1. /\ launch.at = "step" /\ launch.next <= LatestVersion
        /\ \/ /\ db' = Stepped(launch.next) /\ tx' = db'
              /\ launch' = [launch EXCEPT !.next = launch.next + 1]
           \/ launch' = [launch EXCEPT !.at = "ensure"] /\ UNCHANGED <<db, tx>>
        /\ UNCHANGED <<backups, launches, uncopied>>
    BY <1>15 DEF RunStep
  <2>2. /\ tx = db /\ Orphans(db.refs) = {} /\ launch.next = db.version + 1
        /\ launch.next \in 1..LatestVersion
    BY <1>1, <1>4, <2>1, TablesOfVersions DEF OnlyReferencesWait, ReferencesHold, CopiedFirst
  <2>3. CASE launch' = [launch EXCEPT !.at = "ensure"] /\ UNCHANGED <<db, tx>>
    <3>1. launch' \in Launches /\ launch'.at = "ensure"
      BY <1>3, <1>4, <2>3 DEF places
    <3>2. CopiedFirst'
      BY <3>1 DEF CopiedFirst
    <3>3. QED
      BY <1>2, <1>5, <2>1, <2>2, <2>3, <3>1, <3>2
  <2>4. CASE /\ db' = Stepped(launch.next) /\ tx' = db'
             /\ launch' = [launch EXCEPT !.next = launch.next + 1]
    <3>1. /\ launch' \in Launches /\ launch'.at = "step" /\ launch'.next = launch.next + 1
          /\ launch'.from = launch.from
      <4>1. launch.next + 1 \in Nat
        BY <1>4
      <4>2. QED
        BY <1>3, <2>1, <2>4, <4>1
    <3>2. db.tables \cup StepTables[launch.next] \in AnyTables
      BY <1>4, <2>2, TablesOfVersions DEF AnyTables
    <3>3. launch.next \in 0..LatestVersion
      BY <2>2
    <3>4. /\ db' \in DbFiles /\ db'.version = launch.next
          /\ db'.tables = db.tables \cup StepTables[launch.next]
          /\ db'.refs = db.refs /\ db'.corrected = db.corrected /\ db'.flag = db.flag
      BY <1>2, <2>4, <3>2, <3>3 DEF Stepped, DbFiles
    <3>5. SchemaIsWhole'
      <4>1. TablesAt(launch.next) = TablesAt(db.version) \cup StepTables[launch.next]
        BY <1>4, <2>2, TablesOfVersions
      <4>2. QED
        BY <1>1, <3>4, <4>1 DEF SchemaIsWhole
    <3>6. NotCorrectedYet'
      BY <1>1, <3>4 DEF NotCorrectedYet
    <3>7. CopiedFirst'
      <4>1. launch.from <= db.version
        BY <1>1, <2>1 DEF CopiedFirst
      <4>2. QED
        BY <1>4, <2>2, <3>1, <3>4, <4>1 DEF CopiedFirst
    <3>8. QED
      BY <1>6, <2>1, <2>2, <2>4, <3>1, <3>4, <3>5, <3>6, <3>7
  <2>5. QED
    BY <2>1, <2>3, <2>4
<1>16. CASE StepsDone
  <2>1. /\ launch.at = "step" /\ launch' = [launch EXCEPT !.at = "ensure"]
        /\ UNCHANGED <<db, tx, backups, launches, uncopied>>
    BY <1>16 DEF StepsDone
  <2>2. launch' \in Launches /\ launch'.at = "ensure"
    BY <1>3, <1>4, <2>1 DEF places
  <2>3. CopiedFirst' /\ tx = db /\ Orphans(db.refs) = {}
    BY <1>1, <2>1, <2>2 DEF CopiedFirst, OnlyReferencesWait, ReferencesHold
  <2>4. QED
    BY <1>2, <1>5, <2>1, <2>2, <2>3
<1>17. CASE EnsureTables
  <2> DEFINE at == IF StepTables[1] \subseteq db.tables THEN "arena" ELSE "refused"
  <2>1. /\ launch.at = "ensure" /\ tx' = db' /\ UNCHANGED <<backups, launches, uncopied>>
        /\ db' = [db EXCEPT !.tables = @ \cup {"MatchAnalytics"}] \/ db' = db
        /\ launch' = [launch EXCEPT !.at = at]
    BY <1>17 DEF EnsureTables
  <2>2. at \in {"arena", "refused"}
    OBVIOUS
  <2> HIDE DEF at
  <2>3. launch' \in Launches /\ launch'.at = at
    BY <1>3, <1>4, <2>1, <2>2 DEF places
  <2>4. /\ db' \in DbFiles /\ db'.version = db.version
        /\ db'.tables \ {"MatchAnalytics"} = db.tables \ {"MatchAnalytics"}
        /\ db'.refs = db.refs /\ db'.corrected = db.corrected /\ db'.flag = db.flag
    <3>1. db.tables \cup {"MatchAnalytics"} \in AnyTables
      BY <1>4 DEF AnyTables
    <3>2. QED
      BY <1>2, <2>1, <3>1, ZenonT(60) DEF DbFiles
  <2>5. SchemaIsWhole' /\ NotCorrectedYet' /\ CopiedFirst'
    BY <1>1, <2>2, <2>3, <2>4 DEF SchemaIsWhole, NotCorrectedYet, CopiedFirst
  <2>6. QED
    BY <1>6, <2>1, <2>2, <2>3, <2>4, <2>5
<1>18. CASE RepairArenaNames
  <2>1. /\ launch.at = "arena" /\ launch' = [launch EXCEPT !.at = "open"] /\ tx' = db'
        /\ UNCHANGED <<backups, launches, uncopied>>
        /\ db' = db \/ (~db.flag /\ db' = [db EXCEPT !.corrected = @ + 1, !.flag = TRUE])
    BY <1>18 DEF RepairArenaNames, CorrectedOnce
  <2>2. launch' \in Launches /\ launch'.at = "open"
    BY <1>3, <1>4, <2>1 DEF places
  <2>3. ~db.flag => db.corrected + 1 = 1
    BY <1>1 DEF NotCorrectedYet
  <2>4. /\ db' \in DbFiles /\ db'.version = db.version /\ db'.tables = db.tables
        /\ db'.refs = db.refs /\ (db' = db \/ db'.flag)
    BY <1>2, <2>1, <2>3 DEF DbFiles
  <2>5. SchemaIsWhole' /\ NotCorrectedYet' /\ CopiedFirst'
    BY <1>1, <2>2, <2>4 DEF SchemaIsWhole, NotCorrectedYet, CopiedFirst
  <2>6. QED
    BY <1>6, <2>1, <2>2, <2>4, <2>5
<1>19. CASE UNCHANGED migrationVars
  <2>1. UNCHANGED <<db, tx, backups, launch, launches, uncopied>>
    BY <1>19 DEF migrationVars
  <2>2. CopiedFirst' /\ RepairGoesOn'
    BY <1>1, <2>1 DEF CopiedFirst, RepairGoesOn, NeedsBackup
  <2>3. MigrationShape' /\ OnlyReferencesWait' /\ NotCorrectedYet'
    BY <1>1, <2>1 DEF MigrationShape, OnlyReferencesWait, NotCorrectedYet
  <2>4. SchemaIsWhole' /\ ReferencesHold'
    BY <1>1, <2>1 DEF SchemaIsWhole, ReferencesHold
  <2>5. QED
    BY <2>2, <2>3, <2>4 DEF MigrationInv
<1>20. QED
  BY <1>8, <1>9, <1>10, <1>12, <1>13, <1>14, <1>15, <1>16, <1>17, <1>18, <1>19
     DEF MigrationNext

LEMMA PartHasMigrations ==
  /\ PartInit => MigrationInit
  /\ [PartNext]_allVars => [MigrationNext]_migrationVars
<1>1. PartInit => MigrationInit
  BY DEF PartInit
<1>2. [PartNext]_allVars => [MigrationNext]_migrationVars
  BY ZenonT(60) DEF PartNext, allVars, secondVars, InWorkQueue, InReaders, InDatabase, InSessions,
         InMatches, InMigrations, InPaging, InReplays, InAccount, InUpdateCheck, InUpdate,
         InHotkeys, InOverlay, InConfig, InTelemetry, InRemote, InTournaments
<1>3. QED
  BY <1>1, <1>2

\* What a step may write to the file.
LEMMA MigrationWrites ==
  ASSUME MigrationInv, [MigrationNext]_migrationVars
  PROVE  /\ launch.at = "repair" /\ db' # db =>
              launch.next > 0 /\ db' = tx /\ Orphans(tx.refs) = {}
         /\ db'.version > db.version =>
              launch.at = "step" /\ db.version < LatestVersion
<1>1. /\ db \in DbFiles /\ db.version \in 0..LatestVersion /\ tx.version = db.version
      /\ launch.at = "step" => launch.next = db.version + 1
  BY DEF MigrationInv, MigrationShape, OnlyReferencesWait, CopiedFirst, DbFiles
<1>2. LatestVersion \in Nat
  BY TablesOfVersions
<1>3. CASE UNCHANGED db
  BY <1>1, <1>2, <1>3
<1>4. CASE CommitRepair
  <2>1. launch.at = "repair" /\ launch.next > 0
    BY <1>4 DEF CommitRepair
  <2>2. db' = db \/ (db' = tx /\ Orphans(tx.refs) = {})
    BY <1>4 DEF CommitRepair, NoOrphansLeft
  <2>3. QED
    BY <1>1, <1>2, <2>1, <2>2
<1>5. CASE RunStep
  <2>1. launch.at = "step" /\ launch.next <= LatestVersion
    BY <1>5 DEF RunStep
  <2>2. QED
    BY <1>1, <1>2, <2>1
<1>6. CASE EnsureTables \/ RepairArenaNames
  <2>1. launch.at \in {"ensure", "arena"}
    BY <1>6 DEF EnsureTables, RepairArenaNames
  <2>2. \/ db' = [db EXCEPT !.tables = @ \cup {"MatchAnalytics"}] \/ db' = db
        \/ db' = [db EXCEPT !.corrected = @ + 1, !.flag = TRUE]
    BY <1>6 DEF EnsureTables, RepairArenaNames, CorrectedOnce
  <2>3. db'.version = db.version
    BY <1>1, <2>2 DEF DbFiles
  <2>4. QED
    BY <1>1, <1>2, <2>1, <2>3
<1>7. QED
  BY <1>3, <1>4, <1>5, <1>6
     DEF MigrationNext, migrationVars, Launch, EndOfProgram, BackupBeforeRepair, RepairPass,
         BackupBeforeMigration, StepsDone

\* Wherever the program was killed and whatever failed: the tables are those of the version the
\* file says, a file in use has no reference that leads nowhere, and names were corrected at most
\* once (what TablesRight says of the start-up).
THEOREM DatabaseStartsWhole ==
  PartSpec => [](MigrationTypeOK /\ SchemaIsWhole /\ ReferencesHold /\ NamesCorrectedOnce)
<1>1. MigrationInv => MigrationTypeOK /\ SchemaIsWhole /\ ReferencesHold /\ NamesCorrectedOnce
  <2> SUFFICES ASSUME MigrationInv
               PROVE  MigrationTypeOK /\ SchemaIsWhole /\ ReferencesHold /\ NamesCorrectedOnce
    OBVIOUS
  <2>1. /\ db \in DbFiles /\ launch \in Launches /\ launches \in 0..MaxStartups
        /\ \A b \in backups : b.why \in {"repair", "migration"}
    BY DEF MigrationInv, MigrationShape
  <2>2. /\ db.version \in 0..LatestVersion /\ db.refs \in References /\ db.corrected \in {0, 1}
        /\ launch.at \in
             {"off", "repair", "backup", "step", "ensure", "arena", "open", "refused"}
    BY <2>1 DEF DbFiles, Launches
  <2>3. DOMAIN db.refs \subseteq Rows
    BY <2>2 DEF References
  <2>4. QED
    BY <2>1, <2>2, <2>3 DEF MigrationInv, MigrationTypeOK, NamesCorrectedOnce
<1>2. QED
  BY <1>1, MigrationInitially, MigrationStep, PartHasMigrations, PTL DEF PartSpec

\* A repair takes away exactly the rows whose reference leads nowhere, one after the other, and
\* clears those references that may be NULL; and it starts from a copy.
THEOREM RepairsAreExact == PartSpec => RepairedAfterBackup /\ RepairIsExact
<1>1. ASSUME MigrationInv, [MigrationNext]_migrationVars, launch.at = "repair", db' # db
      PROVE  \E b \in backups : b.content = db
  <2>1. launch.next > 0
    BY <1>1, MigrationWrites
  <2>2. QED
    BY <1>1, <2>1 DEF MigrationInv, CopiedFirst
<1>2. ASSUME MigrationInv, [MigrationNext]_migrationVars, launch.at = "repair",
             db'.refs # db.refs
      PROVE  /\ \A r \in DOMAIN db.refs :
                  r \in DOMAIN db'.refs <=>
                    r \in Nullable \/ db.refs[r] \in DOMAIN db'.refs \cup {NoRow}
             /\ \A r \in DOMAIN db'.refs :
                  db'.refs[r] = IF db.refs[r] \in DOMAIN db'.refs THEN db.refs[r] ELSE NoRow
  <2>1. db' = tx /\ Orphans(tx.refs) = {}
    BY <1>2, MigrationWrites
  <2>2. MigrationShape /\ RepairGoesOn
    BY <1>2 DEF MigrationInv
  <2>3. QED
    BY <1>2, <2>1, <2>2, RepairEnds
<1>3. MigrationInv /\ [MigrationNext]_migrationVars =>
        [launch.at = "repair" /\ db' # db => \E b \in backups : b.content = db]_migrationVars
  BY <1>1
<1>4. MigrationInv /\ [MigrationNext]_migrationVars =>
        [LET was == db.refs
             new == db'.refs
         IN launch.at = "repair" /\ new # was =>
              /\ \A r \in DOMAIN was :
                   r \in DOMAIN new <=> r \in Nullable \/ was[r] \in DOMAIN new \cup {NoRow}
              /\ \A r \in DOMAIN new : new[r] = IF was[r] \in DOMAIN new THEN was[r] ELSE NoRow
        ]_migrationVars
  BY <1>2
<1>5. QED
  BY <1>3, <1>4, MigrationInitially, MigrationStep, PartHasMigrations, PTL
     DEF PartSpec, RepairedAfterBackup, RepairIsExact

\* The first step of a migration of a file with tables comes after a copy, or its failure.
THEOREM MigrationsAreCopied == PartSpec => MigratedAfterBackup
<1>1. MigrationInv /\ [MigrationNext]_migrationVars =>
        [db'.version > db.version /\ launch.next = launch.from + 1 /\ db.tables # {} =>
           uncopied \/ \E b \in backups : b.content = db]_migrationVars
  BY MigrationWrites DEF MigrationInv, CopiedFirst, NeedsBackup
<1>2. QED
  BY <1>1, MigrationInitially, MigrationStep, PartHasMigrations, PTL
     DEF PartSpec, MigratedAfterBackup

-----------------------------------------------------------------------------
\* The queue of the database.

\* A worker without a job is at its end, and writes for a save only.
WorkerAtJob ==
  /\ current = NoJob => phase = "ended"
  /\ phase = "write" => Critical(current)

IsRefresh(job, key) == job.kind = "refresh" /\ job.key = key

\* No two refreshes of one figure wait or run, and their keys are the pending ones.
OneRefreshEach ==
  /\ \A i, j \in DOMAIN dbJobs : \A k \in Keys :
       IsRefresh(dbJobs[i], k) /\ IsRefresh(dbJobs[j], k) => i = j
  /\ \A i \in DOMAIN dbJobs : \A k \in Keys : ~(IsRefresh(dbJobs[i], k) /\ IsRefresh(current, k))
  /\ \A k \in Keys :
       k \in pendingKeys <=> IsRefresh(current, k) \/ \E i \in DOMAIN dbJobs : IsRefresh(dbJobs[i], k)

\* Nothing that is shown is newer than what is being published.
NothingIsAhead ==
  /\ result <= tables /\ \A k \in Keys : figures[k] <= tables
  /\ phase = "publish" => \A k \in Keys : figures[k] <= result

WillRead(k) ==
  k \in FiguresOf(current) /\ (phase \in {"write", "read"} \/ (phase = "publish" /\ result = tables))

\* A figure that is out of date and was not missed will be cleared, or read by a job.
StaleWillBeRead ==
  \A k \in Keys :
    \/ figures[k] = tables \/ k \in missed \/ toClear \/ WillRead(k)
    \/ \E i \in DOMAIN dbJobs : k \in FiguresOf(dbJobs[i])

DbInv == DbTypeOK /\ WorkerAtJob /\ OneRefreshEach /\ NothingIsAhead /\ StaleWillBeRead

LEMMA JobFacts ==
  /\ \A job \in JobSet :
       /\ job.kind \in {"save", "query", "refresh"} /\ (job.kind = "refresh" => job.key \in Keys)
       /\ job # NoJob
  /\ \A id \in 1..MaxJobs :
       /\ Job(id, "save", NoKey) \in JobSet /\ Job(id, "query", NoKey) \in JobSet
       /\ \A key \in Keys : Job(id, "refresh", key) \in JobSet
  /\ \A id, kind, key : Job(id, kind, key).kind = kind /\ Job(id, kind, key).key = key
  /\ NoJob.kind = "none"
<1>1. \A id, kind, key : Job(id, kind, key).kind = kind /\ Job(id, kind, key).key = key
  BY DEF Job
<1>2. NoJob.kind = "none"
  BY DEF NoJob
<1>3. \A id \in 1..MaxJobs :
        /\ Job(id, "save", NoKey) \in JobSet /\ Job(id, "query", NoKey) \in JobSet
        /\ \A key \in Keys : Job(id, "refresh", key) \in JobSet
  BY DEF JobSet
<1>4. ASSUME NEW job \in JobSet
      PROVE  job.kind \in {"save", "query", "refresh"} /\ (job.kind = "refresh" => job.key \in Keys)
  <2>1. \/ \E i \in 1..MaxJobs, kind \in {"save", "query"} : job = Job(i, kind, NoKey)
        \/ \E i \in 1..MaxJobs, key \in Keys : job = Job(i, "refresh", key)
    BY DEF JobSet
  <2>2. QED
    BY <1>1, <2>1
<1>5. QED
  BY <1>1, <1>2, <1>3, <1>4

\* Where a job is inserted, and what that does to the queue.
LEMMA InsertedIs ==
  ASSUME NEW S, NEW waiting \in Seq(S), NEW job \in S
  PROVE  /\ Inserted(waiting, job) \in Seq(S)
         /\ \E p \in 1..(Len(waiting) + 1) :
              /\ p = IF Critical(job) THEN FirstOther(waiting) ELSE Len(waiting) + 1
              /\ Len(Inserted(waiting, job)) = Len(waiting) + 1
              /\ \A i \in 1..(Len(waiting) + 1) :
                   Inserted(waiting, job)[i] =
                     IF i < p THEN waiting[i] ELSE IF i = p THEN job ELSE waiting[i - 1]
<1>1. Len(waiting) \in Nat /\ \A i \in 1..Len(waiting) : waiting[i] \in S
  BY LenProperties, ElementOfSeq
<1>2. CASE Critical(job)
  <2> DEFINE stops == {i \in 1..(Len(waiting) + 1) : i > Len(waiting) \/ Other(waiting[i])}
             p == FirstOther(waiting)
  <2>1. stops \in SUBSET Nat /\ Len(waiting) + 1 \in stops
    BY <1>1
  <2>2. p \in stops
    BY <2>1, FirstOfSome DEF FirstOther, Min
  <2>3. p \in 1..(Len(waiting) + 1)
    BY <2>2
  <2> HIDE DEF p, stops
  <2> DEFINE before == SubSeq(waiting, 1, p - 1)
             after == SubSeq(waiting, p, Len(waiting))
  <2>4. /\ before \in Seq(S) /\ Len(before) = p - 1
        /\ \A i \in 1..(p - 1) : before[i] = waiting[i]
    <3>1. \A i \in 1..(p - 1) : waiting[i] \in S
      BY <1>1, <2>3
    <3>2. /\ before \in Seq(S) /\ Len(before) = IF 1 <= p - 1 THEN (p - 1) - 1 + 1 ELSE 0
          /\ \A i \in 1..((p - 1) - 1 + 1) : before[i] = waiting[1 + i - 1]
      BY <2>3, <3>1, SubSeqProperties
    <3> HIDE DEF before
    <3>3. QED
      BY <1>1, <2>3, <3>2
  <2>5. /\ after \in Seq(S) /\ Len(after) = Len(waiting) - p + 1
        /\ \A i \in 1..(Len(waiting) - p + 1) : after[i] = waiting[p + i - 1]
    <3>1. \A i \in p..Len(waiting) : waiting[i] \in S
      BY <1>1, <2>3
    <3>2. /\ after \in Seq(S)
          /\ Len(after) = IF p <= Len(waiting) THEN Len(waiting) - p + 1 ELSE 0
          /\ \A i \in 1..(Len(waiting) - p + 1) : after[i] = waiting[p + i - 1]
      BY <1>1, <2>3, <3>1, SubSeqProperties
    <3> HIDE DEF after
    <3>3. QED
      BY <1>1, <2>3, <3>2
  <2>6. <<job>> \in Seq(S) /\ Len(<<job>>) = 1 /\ <<job>>[1] = job
    OBVIOUS
  <2>7. Inserted(waiting, job) = (before \o <<job>>) \o after
    BY <1>2 DEF Inserted, InsertAt, p
  <2> HIDE DEF before, after
  <2>8. /\ before \o <<job>> \in Seq(S) /\ Len(before \o <<job>>) = p
        /\ \A i \in 1..p : (before \o <<job>>)[i] = IF i < p THEN waiting[i] ELSE job
    <3>1. /\ before \o <<job>> \in Seq(S) /\ Len(before \o <<job>>) = (p - 1) + 1
          /\ \A i \in 1..((p - 1) + 1) :
               (before \o <<job>>)[i] = IF i <= p - 1 THEN before[i] ELSE <<job>>[i - (p - 1)]
      BY <2>4, <2>6, ConcatProperties
    <3>2. \A i \in 1..p : i <= p - 1 \/ i - (p - 1) = 1
      BY <2>3
    <3>3. QED
      BY <2>3, <2>4, <2>6, <3>1, <3>2
  <2>9. /\ (before \o <<job>>) \o after \in Seq(S)
        /\ Len((before \o <<job>>) \o after) = p + (Len(waiting) - p + 1)
        /\ \A i \in 1..(p + (Len(waiting) - p + 1)) :
             ((before \o <<job>>) \o after)[i] =
               IF i <= p THEN (before \o <<job>>)[i] ELSE after[i - p]
    BY <2>5, <2>8, ConcatProperties
  <2>10. p + (Len(waiting) - p + 1) = Len(waiting) + 1
    BY <1>1, <2>3
  <2>11. \A i \in 1..(Len(waiting) + 1) :
           Inserted(waiting, job)[i] =
             IF i < p THEN waiting[i] ELSE IF i = p THEN job ELSE waiting[i - 1]
    <3> SUFFICES ASSUME NEW i \in 1..(Len(waiting) + 1)
                 PROVE  Inserted(waiting, job)[i] =
                          IF i < p THEN waiting[i] ELSE IF i = p THEN job ELSE waiting[i - 1]
      OBVIOUS
    <3>1. CASE i <= p
      BY <1>1, <2>3, <2>7, <2>8, <2>9, <2>10, <3>1
    <3>2. CASE i > p
      <4>1. i - p \in 1..(Len(waiting) - p + 1) /\ p + (i - p) - 1 = i - 1
        BY <1>1, <2>3, <3>2
      <4>2. QED
        BY <1>1, <2>3, <2>5, <2>7, <2>9, <2>10, <3>2, <4>1
    <3>3. QED
      BY <1>1, <2>3, <3>1, <3>2
  <2>12. QED
    BY <1>2, <2>3, <2>7, <2>9, <2>10, <2>11 DEF p
<1>3. CASE ~Critical(job)
  <2>1. Inserted(waiting, job) = Append(waiting, job)
    BY <1>3 DEF Inserted
  <2>2. Len(waiting) + 1 \in 1..(Len(waiting) + 1)
    BY <1>1
  <2>3. /\ Append(waiting, job) \in Seq(S) /\ Len(Append(waiting, job)) = Len(waiting) + 1
        /\ \A i \in 1..Len(waiting) : Append(waiting, job)[i] = waiting[i]
        /\ Append(waiting, job)[Len(waiting) + 1] = job
    BY AppendProperties
  <2> DEFINE p == Len(waiting) + 1
             next == Append(waiting, job)
  <2>4. \A i \in 1..p : next[i] = IF i < p THEN waiting[i] ELSE IF i = p THEN job ELSE waiting[i - 1]
    <3>1. \A i \in 1..p : i < p => i \in 1..Len(waiting)
      BY <1>1
    <3> HIDE DEF next
    <3>2. QED
      BY <1>1, <2>3, <3>1 DEF next
  <2>5. QED
    BY <1>3, <2>1, <2>2, <2>3, <2>4
<1>4. QED
  BY <1>2, <1>3

LEMMA DbInitially == DbInit => DbInv
<1> SUFFICES ASSUME DbInit PROVE DbInv
  OBVIOUS
<1>1. dbJobs = <<>> /\ Len(<<>>) = 0 /\ DOMAIN dbJobs = {} /\ <<>> \in Seq(JobSet)
  BY DEF DbInit
<1>2. DbTypeOK
  BY <1>1 DEF DbInit, DbTypeOK, Cleared, NoneYet
<1>3. WorkerAtJob /\ OneRefreshEach
  BY <1>1, JobFacts DEF DbInit, WorkerAtJob, OneRefreshEach, IsRefresh
<1>4. NothingIsAhead /\ StaleWillBeRead
  BY <1>1 DEF DbInit, NothingIsAhead, StaleWillBeRead, Cleared
<1>5. QED
  BY <1>2, <1>3, <1>4 DEF DbInv

\* One queue is another with a job more.
OneMore(next, waiting, job) ==
  \E p \in DOMAIN next :
    /\ next[p] = job
    /\ \A i \in DOMAIN next \ {p} : \E j \in DOMAIN waiting : next[i] = waiting[j]
    /\ \A h, i \in DOMAIN next \ {p} : h # i =>
         \E j, l \in DOMAIN waiting : j # l /\ next[h] = waiting[j] /\ next[i] = waiting[l]
    /\ \A j \in DOMAIN waiting : \E i \in DOMAIN next \ {p} : next[i] = waiting[j]

LEMMA QueuedJobs ==
  ASSUME NEW waiting \in Seq(JobSet), NEW job \in JobSet
  PROVE  /\ Inserted(waiting, job) \in Seq(JobSet)
         /\ OneMore(Inserted(waiting, job), waiting, job)
<1> DEFINE next == Inserted(waiting, job)
           n == Len(waiting)
<1>1. next \in Seq(JobSet)
  BY InsertedIs
<1>2. PICK p \in 1..(n + 1) :
        /\ Len(next) = n + 1
        /\ \A i \in 1..(n + 1) :
             next[i] = IF i < p THEN waiting[i] ELSE IF i = p THEN job ELSE waiting[i - 1]
  BY InsertedIs
<1>3. n \in Nat /\ DOMAIN waiting = 1..n /\ DOMAIN next = 1..(n + 1)
  BY <1>1, <1>2, LenProperties
<1> DEFINE Was(i) == IF i < p THEN i ELSE i - 1
<1> HIDE DEF next, n
<1>4. \A i \in 1..(n + 1) \ {p} : Was(i) \in 1..n /\ next[i] = waiting[Was(i)]
  BY <1>2, <1>3
<1>5. \A h, i \in 1..(n + 1) \ {p} : h # i => Was(h) # Was(i)
  BY <1>2, <1>3
<1>6. ASSUME NEW j \in 1..n PROVE \E i \in 1..(n + 1) \ {p} : next[i] = waiting[j]
  <2>1. CASE j < p
    BY <1>2, <1>3, <2>1
  <2>2. CASE j >= p
    <3>1. j + 1 \in 1..(n + 1) \ {p} /\ Was(j + 1) = j
      BY <1>2, <1>3, <2>2
    <3>2. QED
      BY <1>4, <3>1
  <2>3. QED
    BY <1>2, <1>3, <2>1, <2>2
<1>7. p \in DOMAIN next /\ next[p] = job
  BY <1>2, <1>3
<1> HIDE DEF Was
<1>8. \A i \in DOMAIN next \ {p} : \E j \in DOMAIN waiting : next[i] = waiting[j]
  BY <1>3, <1>4
<1>9. \A h, i \in DOMAIN next \ {p} : h # i =>
        \E j, l \in DOMAIN waiting : j # l /\ next[h] = waiting[j] /\ next[i] = waiting[l]
  BY <1>3, <1>4, <1>5
<1>10. \A j \in DOMAIN waiting : \E i \in DOMAIN next \ {p} : next[i] = waiting[j]
  BY <1>3, <1>6
<1>11. OneMore(next, waiting, job)
  BY <1>7, <1>8, <1>9, <1>10 DEF OneMore
<1>12. QED
  BY <1>1, <1>11 DEF next

JobLists == [{"critical", "other"} -> Seq(JobSet)]

LEMMA DbFacts ==
  ASSUME DbInv
  PROVE  /\ dbJobs \in Seq(JobSet) /\ took \in JobLists /\ did \in JobLists
         /\ current \in JobSet \cup {NoJob} /\ phase \in {"write", "read", "publish", "ended"}
         /\ pendingKeys \subseteq Keys /\ missed \subseteq Keys
         /\ result \in Nat /\ tables \in Nat /\ figures \in [Keys -> Nat] /\ direct \in Nat
         /\ stopWorker \in BOOLEAN /\ gone \in BOOLEAN /\ toClear \in BOOLEAN
         /\ DOMAIN dbJobs = 1..Len(dbJobs) /\ Len(dbJobs) \in Nat
         /\ \A i \in DOMAIN dbJobs : dbJobs[i] \in JobSet
BY LenProperties, ElementOfSeq DEF DbInv, DbTypeOK, JobLists

LEMMA AddedJob ==
  ASSUME NEW list \in JobLists, NEW job \in JobSet
  PROVE  /\ [list EXCEPT ![Class(job)] = Append(@, job)] \in JobLists
         /\ JobCount(list) \in Nat
<1>1. /\ \A class \in {"critical", "other"} : list[class] \in Seq(JobSet)
      /\ Class(job) \in {"critical", "other"}
  BY DEF JobLists, Class
<1>2. Append(list[Class(job)], job) \in Seq(JobSet)
  BY <1>1, AppendProperties
<1>3. Len(list["critical"]) \in Nat /\ Len(list["other"]) \in Nat
  BY <1>1, LenProperties
<1>4. QED
  BY <1>1, <1>2, <1>3 DEF JobLists, JobCount

\* A job is accepted.
LEMMA QueueKeeps ==
  ASSUME DbInv, NEW job \in JobSet, Queue(job),
         UNCHANGED <<current, phase, result, stopWorker, gone, tables, figures, toClear, direct,
                     did>>,
         \/ job.kind # "refresh" /\ UNCHANGED <<pendingKeys, missed>>
         \/ \E key \in Keys :
              /\ IsRefresh(job, key) /\ key \notin pendingKeys
              /\ pendingKeys' = pendingKeys \cup {key} /\ missed' = missed \ {key}
  PROVE  DbInv'
<1>1. /\ dbJobs \in Seq(JobSet) /\ took \in JobLists /\ did \in JobLists
      /\ pendingKeys \subseteq Keys /\ missed \subseteq Keys
  BY DbFacts
<1>2. dbJobs' = Inserted(dbJobs, job) /\ took' = [took EXCEPT ![Class(job)] = Append(@, job)]
  BY DEF Queue
<1>3. dbJobs' \in Seq(JobSet) /\ took' \in JobLists
  BY <1>1, <1>2, QueuedJobs, AddedJob
<1>4. PICK p \in DOMAIN dbJobs' :
        /\ dbJobs'[p] = job
        /\ \A i \in DOMAIN dbJobs' \ {p} : \E j \in DOMAIN dbJobs : dbJobs'[i] = dbJobs[j]
        /\ \A h, i \in DOMAIN dbJobs' \ {p} : h # i =>
             \E j, l \in DOMAIN dbJobs : j # l /\ dbJobs'[h] = dbJobs[j] /\ dbJobs'[i] = dbJobs[l]
        /\ \A j \in DOMAIN dbJobs : \E i \in DOMAIN dbJobs' \ {p} : dbJobs'[i] = dbJobs[j]
  <2>1. OneMore(dbJobs', dbJobs, job)
    BY <1>1, <1>2, QueuedJobs
  <2>2. QED
    BY <2>1 DEF OneMore
<1>5. DbTypeOK'
  BY <1>1, <1>3 DEF DbInv, DbTypeOK, JobLists
<1>6. WorkerAtJob' /\ NothingIsAhead'
  BY DEF DbInv, WorkerAtJob, NothingIsAhead
<1>7. /\ \A i, j \in DOMAIN dbJobs : \A k \in Keys :
           IsRefresh(dbJobs[i], k) /\ IsRefresh(dbJobs[j], k) => i = j
      /\ \A i \in DOMAIN dbJobs : \A k \in Keys :
           ~(IsRefresh(dbJobs[i], k) /\ IsRefresh(current, k))
      /\ \A k \in Keys : k \in pendingKeys <=>
           IsRefresh(current, k) \/ \E i \in DOMAIN dbJobs : IsRefresh(dbJobs[i], k)
  BY DEF DbInv, OneRefreshEach
<1>8. \A k \in Keys : IsRefresh(job, k) =>
        k \notin pendingKeys /\ pendingKeys' = pendingKeys \cup {k} /\ missed' = missed \ {k}
  BY DEF IsRefresh
<1>9. (\A k \in Keys : ~IsRefresh(job, k)) => UNCHANGED <<pendingKeys, missed>>
  OBVIOUS
<1>10. OneRefreshEach'
  <2>1. ASSUME NEW h \in DOMAIN dbJobs', NEW i \in DOMAIN dbJobs', NEW k \in Keys,
               IsRefresh(dbJobs'[h], k), IsRefresh(dbJobs'[i], k)
        PROVE  h = i
    <3>1. CASE h # p /\ i # p
      BY <1>4, <1>7, <2>1, <3>1
    <3>2. ASSUME NEW l \in DOMAIN dbJobs', l # p, IsRefresh(dbJobs'[l], k), IsRefresh(job, k)
          PROVE  FALSE
      BY <1>4, <1>7, <1>8, <3>2
    <3>3. QED
      BY <1>4, <2>1, <3>1, <3>2
  <2>2. ASSUME NEW i \in DOMAIN dbJobs', NEW k \in Keys, IsRefresh(dbJobs'[i], k),
               IsRefresh(current, k)
        PROVE  FALSE
    BY <1>4, <1>7, <1>8, <2>2
  <2>3. ASSUME NEW k \in Keys
        PROVE  k \in pendingKeys' <=>
                 IsRefresh(current, k) \/ \E i \in DOMAIN dbJobs' : IsRefresh(dbJobs'[i], k)
    <3>1. (\E i \in DOMAIN dbJobs' : IsRefresh(dbJobs'[i], k)) <=>
            IsRefresh(job, k) \/ \E j \in DOMAIN dbJobs : IsRefresh(dbJobs[j], k)
      BY <1>4
    <3>2. k \in pendingKeys' <=> IsRefresh(job, k) \/ k \in pendingKeys
      <4>1. CASE IsRefresh(job, k)
        BY <1>8, <4>1
      <4>2. CASE ~IsRefresh(job, k)
        <5>1. CASE \A l \in Keys : ~IsRefresh(job, l)
          BY <1>9, <4>2, <5>1
        <5>2. CASE \E l \in Keys : IsRefresh(job, l)
          BY <1>8, <4>2, <5>2
        <5>3. QED
          BY <5>1, <5>2
      <4>3. QED
        BY <4>1, <4>2
    <3>3. QED
      BY <1>7, <3>1, <3>2
  <2>4. QED
    BY <2>1, <2>2, <2>3 DEF OneRefreshEach, IsRefresh
<1>11. StaleWillBeRead'
  <2> SUFFICES ASSUME NEW k \in Keys
               PROVE  \/ figures[k] = tables \/ k \in missed' \/ toClear \/ WillRead(k)
                      \/ \E i \in DOMAIN dbJobs' : k \in FiguresOf(dbJobs'[i])
    BY DEF StaleWillBeRead, WillRead
  <2>1. \/ figures[k] = tables \/ k \in missed \/ toClear \/ WillRead(k)
        \/ \E i \in DOMAIN dbJobs : k \in FiguresOf(dbJobs[i])
    BY DEF DbInv, StaleWillBeRead
  <2>2. k \in missed => k \in missed' \/ IsRefresh(job, k)
    BY <1>8, <1>9
  <2>3. IsRefresh(job, k) => k \in FiguresOf(job)
    BY DEF IsRefresh, FiguresOf, Critical
  <2>4. QED
    BY <1>4, <2>1, <2>2, <2>3
<1>12. QED
  BY <1>5, <1>6, <1>10, <1>11 DEF DbInv

LEMMA DbStep == DbInv /\ [DbNext]_dbVars => DbInv'
<1> SUFFICES ASSUME DbInv, [DbNext]_dbVars PROVE DbInv'
  OBVIOUS
<1>0. /\ dbJobs \in Seq(JobSet) /\ took \in JobLists /\ did \in JobLists
      /\ current \in JobSet \cup {NoJob} /\ phase \in {"write", "read", "publish", "ended"}
      /\ pendingKeys \subseteq Keys /\ missed \subseteq Keys
      /\ result \in Nat /\ tables \in Nat /\ figures \in [Keys -> Nat] /\ direct \in Nat
      /\ stopWorker \in BOOLEAN /\ gone \in BOOLEAN /\ toClear \in BOOLEAN
      /\ DOMAIN dbJobs = 1..Len(dbJobs) /\ Len(dbJobs) \in Nat
      /\ \A i \in DOMAIN dbJobs : dbJobs[i] \in JobSet
  BY DbFacts
<1>1. DbTypeOK /\ WorkerAtJob /\ OneRefreshEach /\ NothingIsAhead /\ StaleWillBeRead
  BY DEF DbInv
<1>2. NextId \in Nat \ {0} /\ MaxJobs \in Nat
  <2>1. \A list \in JobLists : JobCount(list) \in Nat
    BY LenProperties DEF JobLists, JobCount
  <2>2. QED
    BY <1>0, <2>1, DatabaseWorkerAssumption DEF NextId
<1>3. \A job : FiguresOf(job) \subseteq Keys
  BY DEF FiguresOf
\* What is shown follows from the queue, the worker and the tables.
<1>4. ASSUME UNCHANGED <<dbJobs, current, pendingKeys>> PROVE OneRefreshEach'
  BY <1>1, <1>4 DEF OneRefreshEach, IsRefresh
<1>5. CASE EnqueueSave
  <2> DEFINE job == Job(NextId, "save", NoKey)
  <2>1. Queue(job) /\ NextId \in 1..MaxJobs
        /\ UNCHANGED <<pendingKeys, current, phase, result, stopWorker, gone, tables, figures,
                       toClear, direct, did, missed>>
    BY <1>2, <1>5 DEF EnqueueSave, Queue, shownVars, mergeVars
  <2>2. job \in JobSet /\ job.kind = "save"
    BY <2>1, JobFacts
  <2> HIDE DEF job
  <2>3. QED
    BY <2>1, <2>2, QueueKeeps
<1>6. CASE EnqueueQuery
  <2> DEFINE job == Job(NextId, "query", NoKey)
  <2>1. Queue(job) /\ NextId \in 1..MaxJobs
        /\ UNCHANGED <<pendingKeys, current, phase, result, stopWorker, gone, tables, figures,
                       toClear, direct, did, missed>>
    BY <1>2, <1>6 DEF EnqueueQuery, Queue, shownVars, mergeVars
  <2>2. job \in JobSet /\ job.kind = "query"
    BY <2>1, JobFacts
  <2> HIDE DEF job
  <2>3. QED
    BY <2>1, <2>2, QueueKeeps
<1>7. ASSUME NEW key \in Keys, EnqueueRefresh(key) PROVE DbInv'
  <2>1. Refresh(key)
        /\ UNCHANGED <<current, phase, result, stopWorker, gone, tables, figures, toClear, direct,
                       did>>
    BY <1>7 DEF EnqueueRefresh, shownVars, mergeVars
  <2>2. CASE key \notin pendingKeys /\ ~Full /\ Queue(Job(NextId, "refresh", key))
             /\ pendingKeys' = pendingKeys \cup {key} /\ missed' = missed \ {key}
    <3> DEFINE job == Job(NextId, "refresh", key)
    <3>1. Queue(job) /\ NextId \in 1..MaxJobs
      BY <1>2, <2>2 DEF Queue
    <3>2. job \in JobSet /\ IsRefresh(job, key)
      BY <3>1, JobFacts DEF IsRefresh
    <3> HIDE DEF job
    <3>3. QED
      BY <2>1, <2>2, <3>1, <3>2, QueueKeeps
  <2>3. CASE UNCHANGED <<dbJobs, pendingKeys, took>> /\ missed \subseteq missed'
             /\ missed' \subseteq Keys
    <3>1. DbTypeOK' /\ WorkerAtJob' /\ NothingIsAhead'
      BY <1>1, <2>1, <2>3 DEF DbTypeOK, WorkerAtJob, NothingIsAhead
    <3>2. StaleWillBeRead'
      BY <1>1, <2>1, <2>3 DEF StaleWillBeRead, WillRead
    <3>3. QED
      BY <1>4, <2>1, <2>3, <3>1, <3>2 DEF DbInv
  <2>4. QED
    BY <1>0, <1>7, <2>1, <2>2, <2>3 DEF Refresh, KeysAfterDrop
<1>8. CASE DirectWrite
  <2>1. /\ tables' = tables + 1 /\ direct' = direct + 1 /\ toClear' = TRUE
        /\ UNCHANGED <<dbJobs, pendingKeys, stopWorker, current, phase, result, gone, figures,
                       took, did, missed>>
    BY <1>8 DEF DirectWrite, queueVars
  <2>2. DbTypeOK' /\ WorkerAtJob'
    BY <1>0, <1>1, <2>1 DEF DbTypeOK, WorkerAtJob
  <2>3. NothingIsAhead'
    BY <1>0, <1>1, <2>1 DEF NothingIsAhead
  <2>4. StaleWillBeRead'
    BY <2>1 DEF StaleWillBeRead
  <2>5. QED
    BY <1>4, <2>1, <2>2, <2>3, <2>4 DEF DbInv
<1>9. CASE ClearFigures
  <2>1. /\ toClear' = FALSE /\ figures' = [k \in Keys |-> 0] /\ missed' = Keys
        /\ UNCHANGED <<dbJobs, pendingKeys, stopWorker, current, phase, result, gone, tables,
                       direct, took, did>>
    BY <1>9 DEF ClearFigures, queueVars, Cleared
  <2>2. DbTypeOK' /\ WorkerAtJob'
    BY <1>0, <1>1, <2>1 DEF DbTypeOK, WorkerAtJob
  <2>3. NothingIsAhead'
    BY <1>0, <1>1, <2>1 DEF NothingIsAhead
  <2>4. StaleWillBeRead'
    BY <2>1 DEF StaleWillBeRead
  <2>5. QED
    BY <1>4, <2>1, <2>2, <2>3, <2>4 DEF DbInv
<1>10. CASE Take
  <2>1. /\ current = NoJob /\ dbJobs # <<>>
        /\ current' = Head(dbJobs) /\ dbJobs' = Tail(dbJobs)
        /\ phase' = IF Critical(current') THEN "write" ELSE "read"
        /\ UNCHANGED <<pendingKeys, result, stopWorker, gone, tables, figures, toClear, direct,
                       took, did, missed>>
    BY <1>10 DEF Take, shownVars, mergeVars
  <2>2. /\ Tail(dbJobs) \in Seq(JobSet) /\ DOMAIN Tail(dbJobs) = 1..(Len(dbJobs) - 1)
        /\ Len(dbJobs) # 0 /\ Head(dbJobs) = dbJobs[1]
        /\ \A i \in 1..(Len(dbJobs) - 1) : Tail(dbJobs)[i] = dbJobs[i + 1]
    BY <1>0, <2>1, HeadTailProperties, LenProperties, EmptySeq
  <2>3. /\ 1 \in DOMAIN dbJobs /\ current' = dbJobs[1] /\ current' \in JobSet
        /\ dbJobs' \in Seq(JobSet)
        /\ \A i \in DOMAIN dbJobs' : i + 1 \in DOMAIN dbJobs /\ i + 1 # 1
                                     /\ dbJobs'[i] = dbJobs[i + 1]
        /\ \A j \in DOMAIN dbJobs : j # 1 =>
             j - 1 \in DOMAIN dbJobs' /\ dbJobs'[j - 1] = dbJobs[j]
    <3>1. 1 \in DOMAIN dbJobs
      BY <1>0, <2>2
    <3>2. \A i \in 1..(Len(dbJobs) - 1) : i + 1 \in DOMAIN dbJobs /\ i + 1 # 1
      BY <1>0
    <3>3. \A j \in DOMAIN dbJobs : j # 1 =>
            j - 1 \in 1..(Len(dbJobs) - 1) /\ (j - 1) + 1 = j
      BY <1>0
    <3>4. QED
      BY <1>0, <2>1, <2>2, <3>1, <3>2, <3>3
  <2>4. DbTypeOK'
    BY <1>0, <2>1, <2>3 DEF DbTypeOK, JobLists
  <2>5. WorkerAtJob'
    BY <2>1, <2>3, JobFacts DEF WorkerAtJob
  <2>6. \A k \in Keys : ~IsRefresh(current, k)
    BY <2>1, JobFacts DEF IsRefresh
  <2>7. OneRefreshEach'
    <3>1. /\ \A i, j \in DOMAIN dbJobs : \A k \in Keys :
               IsRefresh(dbJobs[i], k) /\ IsRefresh(dbJobs[j], k) => i = j
          /\ \A k \in Keys : k \in pendingKeys <=>
               IsRefresh(current, k) \/ \E i \in DOMAIN dbJobs : IsRefresh(dbJobs[i], k)
      BY <1>1 DEF OneRefreshEach
    <3>2. \A h, i \in DOMAIN dbJobs' : \A k \in Keys :
            IsRefresh(dbJobs'[h], k) /\ IsRefresh(dbJobs'[i], k) => h = i
      <4>1. \A h, i \in DOMAIN dbJobs' : h + 1 = i + 1 => h = i
        BY <2>1, <2>2
      <4>2. QED
        BY <2>3, <3>1, <4>1
    <3>3. \A i \in DOMAIN dbJobs' : \A k \in Keys :
            ~(IsRefresh(dbJobs'[i], k) /\ IsRefresh(current', k))
      BY <2>3, <3>1
    <3>4. \A k \in Keys : k \in pendingKeys' <=>
            IsRefresh(current', k) \/ \E i \in DOMAIN dbJobs' : IsRefresh(dbJobs'[i], k)
      <4> SUFFICES ASSUME NEW k \in Keys
                   PROVE  (\E i \in DOMAIN dbJobs : IsRefresh(dbJobs[i], k)) <=>
                            IsRefresh(current', k)
                              \/ \E i \in DOMAIN dbJobs' : IsRefresh(dbJobs'[i], k)
        BY <2>1, <2>6, <3>1
      <4>1. QED
        BY <2>3
    <3>5. QED
      BY <3>2, <3>3, <3>4 DEF OneRefreshEach, IsRefresh
  <2>8. NothingIsAhead'
    BY <1>1, <2>1 DEF NothingIsAhead
  <2>9. StaleWillBeRead'
    <3> SUFFICES ASSUME NEW k \in Keys
                 PROVE  \/ figures[k] = tables \/ k \in missed \/ toClear \/ WillRead(k)'
                        \/ \E i \in DOMAIN dbJobs' : k \in FiguresOf(dbJobs'[i])
      BY <2>1 DEF StaleWillBeRead
    <3>1. \/ figures[k] = tables \/ k \in missed \/ toClear \/ WillRead(k)
          \/ \E i \in DOMAIN dbJobs : k \in FiguresOf(dbJobs[i])
      BY <1>1 DEF StaleWillBeRead
    <3>2. ~WillRead(k)
      BY <1>1, <2>1 DEF WorkerAtJob, WillRead
    <3>3. k \in FiguresOf(dbJobs[1]) => WillRead(k)'
      BY <2>1, <2>3 DEF WillRead, FiguresOf
    <3>4. QED
      BY <2>3, <3>1, <3>2, <3>3
  <2>10. QED
    BY <2>4, <2>5, <2>7, <2>8, <2>9 DEF DbInv
<1>11. CASE WriteTables
  <2>1. /\ phase = "write" /\ tables' = tables + 1 /\ phase' = "read"
        /\ UNCHANGED <<dbJobs, pendingKeys, stopWorker, current, result, gone, figures, toClear,
                       direct, took, did, missed>>
    BY <1>11 DEF WriteTables, queueVars, mergeVars
  <2>2. DbTypeOK' /\ NothingIsAhead'
    BY <1>0, <1>1, <2>1 DEF DbTypeOK, NothingIsAhead
  <2>3. WorkerAtJob' /\ StaleWillBeRead'
    BY <1>1, <2>1 DEF WorkerAtJob, StaleWillBeRead, WillRead, FiguresOf
  <2>4. QED
    BY <1>4, <2>1, <2>2, <2>3 DEF DbInv
<1>12. CASE ReadTables
  <2>1. /\ phase = "read" /\ result' = tables /\ phase' = "publish"
        /\ UNCHANGED <<dbJobs, pendingKeys, stopWorker, current, gone, tables, figures, toClear,
                       direct, took, did, missed>>
    BY <1>12 DEF ReadTables, queueVars, shownVars, mergeVars
  <2>2. DbTypeOK' /\ NothingIsAhead'
    BY <1>0, <1>1, <2>1 DEF DbTypeOK, NothingIsAhead
  <2>3. WorkerAtJob' /\ StaleWillBeRead'
    BY <1>1, <2>1 DEF WorkerAtJob, StaleWillBeRead, WillRead
  <2>4. QED
    BY <1>4, <2>1, <2>2, <2>3 DEF DbInv
<1>13. CASE PublishSnapshot
  <2>1. /\ phase = "publish" /\ phase' = "ended"
        /\ figures' = [k \in Keys |-> IF k \in FiguresOf(current) THEN result ELSE figures[k]]
        /\ missed' = IF result = tables THEN missed \ FiguresOf(current) ELSE missed
        /\ UNCHANGED <<dbJobs, pendingKeys, stopWorker, current, result, gone, tables, toClear,
                       direct, took, did>>
    BY <1>13 DEF PublishSnapshot, queueVars, mergeVars
  <2>2. DbTypeOK' /\ WorkerAtJob'
    BY <1>0, <1>1, <2>1 DEF DbTypeOK, WorkerAtJob
  <2>3. NothingIsAhead'
    BY <1>0, <1>1, <2>1 DEF NothingIsAhead
  <2>4. StaleWillBeRead'
    <3> SUFFICES ASSUME NEW k \in Keys
                 PROVE  \/ figures'[k] = tables \/ k \in missed' \/ toClear
                        \/ \E i \in DOMAIN dbJobs : k \in FiguresOf(dbJobs[i])
      BY <2>1 DEF StaleWillBeRead
    <3>1. \/ figures[k] = tables \/ k \in missed \/ toClear \/ WillRead(k)
          \/ \E i \in DOMAIN dbJobs : k \in FiguresOf(dbJobs[i])
      BY <1>1 DEF StaleWillBeRead
    <3>2. WillRead(k) => k \in FiguresOf(current) /\ result = tables
      BY <2>1 DEF WillRead
    <3>3. figures[k] = tables => result = tables
      BY <1>0, <1>1, <2>1 DEF NothingIsAhead
    <3>4. CASE k \in FiguresOf(current) /\ result = tables
      BY <2>1, <3>4
    <3>5. CASE k \in FiguresOf(current) /\ result # tables
      BY <2>1, <3>1, <3>2, <3>3, <3>5
    <3>6. CASE k \notin FiguresOf(current)
      BY <2>1, <3>1, <3>2, <3>6
    <3>7. QED
      BY <3>4, <3>5, <3>6
  <2>5. QED
    BY <1>4, <2>1, <2>2, <2>3, <2>4 DEF DbInv
<1>14. CASE Fail
  <2>1. /\ phase \in {"write", "read", "publish"} /\ phase' = "ended"
        /\ missed' = missed \cup FiguresOf(current)
        /\ UNCHANGED <<dbJobs, pendingKeys, stopWorker, current, result, gone, tables, figures,
                       toClear, direct, took, did>>
    BY <1>14 DEF Fail, queueVars, shownVars, mergeVars
  <2>2. DbTypeOK' /\ WorkerAtJob' /\ NothingIsAhead'
    BY <1>0, <1>1, <1>3, <2>1 DEF DbTypeOK, WorkerAtJob, NothingIsAhead
  <2>3. StaleWillBeRead'
    BY <1>1, <2>1 DEF StaleWillBeRead, WillRead
  <2>4. QED
    BY <1>4, <2>1, <2>2, <2>3 DEF DbInv
<1>15. CASE FinishJob
  <2>1. /\ current # NoJob /\ phase = "ended" /\ pendingKeys' = KeysAfter(current)
        /\ did' = [did EXCEPT ![Class(current)] = Append(@, current)] /\ current' = NoJob
        /\ UNCHANGED <<dbJobs, phase, result, stopWorker, gone, tables, figures, toClear, direct,
                       took, missed>>
    BY <1>15 DEF FinishJob, shownVars, mergeVars
  <2>2. current \in JobSet /\ did' \in JobLists /\ pendingKeys' \subseteq pendingKeys
    BY <1>0, <2>1, AddedJob DEF KeysAfter
  <2>3. DbTypeOK' /\ WorkerAtJob' /\ NothingIsAhead'
    BY <1>0, <1>1, <2>1, <2>2 DEF DbTypeOK, WorkerAtJob, NothingIsAhead, JobLists
  <2>4. StaleWillBeRead'
    BY <1>1, <2>1 DEF StaleWillBeRead, WillRead
  <2>5. OneRefreshEach'
    <3>1. /\ \A i, j \in DOMAIN dbJobs : \A k \in Keys :
               IsRefresh(dbJobs[i], k) /\ IsRefresh(dbJobs[j], k) => i = j
          /\ \A i \in DOMAIN dbJobs : \A k \in Keys :
               ~(IsRefresh(dbJobs[i], k) /\ IsRefresh(current, k))
          /\ \A k \in Keys : k \in pendingKeys <=>
               IsRefresh(current, k) \/ \E i \in DOMAIN dbJobs : IsRefresh(dbJobs[i], k)
      BY <1>1 DEF OneRefreshEach
    <3>2. \A k \in Keys : ~IsRefresh(current', k)
      BY <2>1, JobFacts DEF IsRefresh
    <3>3. \A k \in Keys : k \in pendingKeys' <=> k \in pendingKeys /\ ~IsRefresh(current, k)
      BY <2>1 DEF KeysAfter, IsRefresh
    <3>4. \A k \in Keys : k \in pendingKeys' <=>
            IsRefresh(current', k) \/ \E i \in DOMAIN dbJobs' : IsRefresh(dbJobs'[i], k)
      BY <2>1, <3>1, <3>2, <3>3
    <3>5. QED
      BY <2>1, <3>1, <3>2, <3>4 DEF OneRefreshEach
  <2>6. QED
    BY <2>3, <2>4, <2>5 DEF DbInv
<1>16. ASSUME UNCHANGED <<dbJobs, pendingKeys, current, phase, result, tables, figures, toClear,
                          direct, took, did, missed>>,
              {stopWorker', gone'} \subseteq BOOLEAN
       PROVE  DbInv'
  <2>1. DbTypeOK' /\ WorkerAtJob' /\ NothingIsAhead'
    BY <1>1, <1>16 DEF DbTypeOK, WorkerAtJob, NothingIsAhead
  <2>2. StaleWillBeRead'
    BY <1>1, <1>16 DEF StaleWillBeRead, WillRead
  <2>3. QED
    BY <1>4, <1>16, <2>1, <2>2 DEF DbInv
<1>17. CASE BeginDestroy
  BY <1>0, <1>16, <1>17 DEF BeginDestroy, shownVars, mergeVars
<1>18. CASE Destroyed
  BY <1>0, <1>16, <1>18 DEF Destroyed, queueVars, shownVars, mergeVars
<1>19. CASE UNCHANGED dbVars
  BY <1>0, <1>16, <1>19 DEF dbVars
<1>20. QED
  BY <1>5, <1>6, <1>7, <1>8, <1>9, <1>10, <1>11, <1>12, <1>13, <1>14, <1>15, <1>17, <1>18, <1>19
     DEF DbNext, WorkerSteps

LEMMA DbIsCurrent == DbInv => DbTypeOK /\ PendingKeysExact /\ StaleOnlyWhenMissed
<1> SUFFICES ASSUME DbInv PROVE DbTypeOK /\ PendingKeysExact /\ StaleOnlyWhenMissed
  OBVIOUS
<1>1. /\ current \in JobSet \cup {NoJob} /\ pendingKeys \subseteq Keys
      /\ \A i \in DOMAIN dbJobs : dbJobs[i] \in JobSet
      /\ DOMAIN dbJobs = 1..Len(dbJobs)
  BY DbFacts
<1> DEFINE refreshes == {j \in ToSet(dbJobs) \cup {current} : j.kind = "refresh"}
<1>2. \A j \in refreshes : j.key \in Keys /\ (j = current \/ \E i \in DOMAIN dbJobs : j = dbJobs[i])
  BY <1>1, JobFacts DEF ToSet
<1>3. \A k \in Keys : k \in pendingKeys <=>
        IsRefresh(current, k) \/ \E i \in DOMAIN dbJobs : IsRefresh(dbJobs[i], k)
  BY DEF DbInv, OneRefreshEach
<1>4. \A k \in Keys : IsRefresh(current, k) => current \in refreshes
  BY DEF IsRefresh
<1>5. \A k \in Keys : \A i \in DOMAIN dbJobs : IsRefresh(dbJobs[i], k) => dbJobs[i] \in refreshes
  BY DEF IsRefresh, ToSet
<1>6. \A j \in refreshes : j.kind = "refresh"
  OBVIOUS
<1> HIDE DEF refreshes
<1>7. \A k \in pendingKeys : \E j \in refreshes : k = j.key
  BY <1>1, <1>3, <1>4, <1>5 DEF IsRefresh
<1>8. \A j \in refreshes : j.key \in pendingKeys
  BY <1>2, <1>3, <1>6 DEF IsRefresh
<1>9. PendingKeysExact
  BY <1>7, <1>8 DEF PendingKeysExact, refreshes
<1>10. StaleOnlyWhenMissed
  <2> SUFFICES ASSUME dbJobs = <<>>, current = NoJob, ~toClear, NEW k \in Keys
               PROVE  figures[k] = tables \/ k \in missed
    BY DEF StaleOnlyWhenMissed
  <2>1. DOMAIN dbJobs = {} /\ phase = "ended"
    BY DEF DbInv, WorkerAtJob
  <2>2. QED
    BY <2>1 DEF DbInv, StaleWillBeRead, WillRead
<1>11. QED
  BY <1>9, <1>10 DEF DbInv

-----------------------------------------------------------------------------
\* The order in which the database's jobs run.

InHand(class) == IF current # NoJob /\ Class(current) = class THEN <<current>> ELSE <<>>

\* Of each class the accepted jobs are those that ran, the one in hand, and those that wait: the
\* critical ones at the front of the queue.
QueueSplit(n) ==
  /\ \A i \in DOMAIN dbJobs : Critical(dbJobs[i]) <=> i <= n
  /\ took.critical = (did.critical \o InHand("critical")) \o SubSeq(dbJobs, 1, n)
  /\ took.other = (did.other \o InHand("other")) \o SubSeq(dbJobs, n + 1, Len(dbJobs))

QueueInOrder == \E n \in 0..Len(dbJobs) : QueueSplit(n)

EmptyWhenGone == gone => stopWorker /\ dbJobs = <<>> /\ current = NoJob

OrderInv == DbInv /\ QueueInOrder /\ EmptyWhenGone

LEMMA ConcatAppend ==
  ASSUME NEW S, NEW a \in Seq(S), NEW b \in Seq(S), NEW e \in S
  PROVE  a \o Append(b, e) = Append(a \o b, e)
<1>1. Append(b, e) = b \o <<e>> /\ <<e>> \in Seq(S) /\ a \o b \in Seq(S)
  BY AppendIsConcat, ConcatProperties
<1>2. Append(a \o b, e) = (a \o b) \o <<e>>
  BY <1>1, AppendIsConcat
<1>3. QED
  BY <1>1, <1>2, ConcatAssociative

\* The piece of a sequence from a to b.
LEMMA PartOf ==
  ASSUME NEW S, NEW s \in Seq(S), NEW a \in 1..(Len(s) + 1), NEW b \in (a - 1)..Len(s)
  PROVE  /\ SubSeq(s, a, b) \in Seq(S) /\ Len(SubSeq(s, a, b)) = b - a + 1
         /\ \A i \in 1..(b - a + 1) : SubSeq(s, a, b)[i] = s[a + i - 1]
<1>1. Len(s) \in Nat /\ \A i \in a..b : s[i] \in S
  BY LenProperties, ElementOfSeq
<1>2. /\ SubSeq(s, a, b) \in Seq(S)
      /\ Len(SubSeq(s, a, b)) = IF a <= b THEN b - a + 1 ELSE 0
      /\ \A i \in 1..(b - a + 1) : SubSeq(s, a, b)[i] = s[a + i - 1]
  BY <1>1, SubSeqProperties
<1> DEFINE piece == SubSeq(s, a, b)
<1> HIDE DEF piece
<1>3. Len(piece) = b - a + 1
  BY <1>1, <1>2 DEF piece
<1>4. QED
  BY <1>2, <1>3 DEF piece

LEMMA FirstOtherIs ==
  ASSUME NEW waiting \in Seq(JobSet), NEW n \in 0..Len(waiting),
         \A i \in DOMAIN waiting : Critical(waiting[i]) <=> i <= n
  PROVE  FirstOther(waiting) = n + 1
<1> DEFINE stops == {i \in 1..(Len(waiting) + 1) : i > Len(waiting) \/ Other(waiting[i])}
<1>1. Len(waiting) \in Nat /\ DOMAIN waiting = 1..Len(waiting)
  BY LenProperties
<1>2. stops \in SUBSET Nat /\ n + 1 \in stops /\ \A i \in stops : n + 1 <= i
  BY <1>1 DEF Critical, Other
<1>3. FirstOther(waiting) = CHOOSE i \in stops : \A j \in stops : i <= j
  BY DEF FirstOther, Min
<1> HIDE DEF stops
<1>4. FirstOther(waiting) \in stops /\ \A j \in stops : FirstOther(waiting) <= j
  BY <1>2, <1>3
<1>5. FirstOther(waiting) \in Nat /\ n \in Nat
  <2>1. FirstOther(waiting) \in Nat
    BY <1>2, <1>4
  <2>2. QED
    BY <1>1, <2>1
<1>6. QED
  BY <1>2, <1>4, <1>5

\* The waiting jobs of each class after a job is inserted.
PartsAfter(waiting, next, job, n) ==
  LET m == IF Critical(job) THEN n + 1 ELSE n
      front == SubSeq(waiting, 1, n)
      back == SubSeq(waiting, n + 1, Len(waiting))
  IN /\ m \in 0..Len(next)
     /\ \A i \in DOMAIN next : Critical(next[i]) <=> i <= m
     /\ SubSeq(next, 1, m) = IF Critical(job) THEN Append(front, job) ELSE front
     /\ SubSeq(next, m + 1, Len(next)) = IF Critical(job) THEN back ELSE Append(back, job)

LEMMA InsertedByClass ==
  ASSUME NEW waiting \in Seq(JobSet), NEW job \in JobSet, NEW n \in 0..Len(waiting),
         \A i \in DOMAIN waiting : Critical(waiting[i]) <=> i <= n
  PROVE  PartsAfter(waiting, Inserted(waiting, job), job, n)
<1> DEFINE next == Inserted(waiting, job)
           m == IF Critical(job) THEN n + 1 ELSE n
           front == SubSeq(waiting, 1, n)
           back == SubSeq(waiting, n + 1, Len(waiting))
           k == Len(waiting)
<1>1. k \in Nat /\ DOMAIN waiting = 1..k /\ n \in Nat /\ n <= k
  BY LenProperties
<1>2. /\ next \in Seq(JobSet) /\ Len(next) = k + 1
      /\ \E p \in 1..(k + 1) :
           /\ p = IF Critical(job) THEN n + 1 ELSE k + 1
           /\ \A i \in 1..(k + 1) :
                next[i] = IF i < p THEN waiting[i] ELSE IF i = p THEN job ELSE waiting[i - 1]
  <2>1. FirstOther(waiting) = n + 1
    BY FirstOtherIs
  <2>2. next \in Seq(JobSet)
    BY InsertedIs
  <2>3. PICK p \in 1..(k + 1) :
          /\ p = IF Critical(job) THEN FirstOther(waiting) ELSE k + 1
          /\ Len(next) = k + 1
          /\ \A i \in 1..(k + 1) :
               next[i] = IF i < p THEN waiting[i] ELSE IF i = p THEN job ELSE waiting[i - 1]
    BY InsertedIs
  <2> HIDE DEF next, k
  <2>4. QED
    BY <2>1, <2>2, <2>3
<1>3. DOMAIN next = 1..(k + 1)
  BY <1>2, LenProperties
<1>4. /\ front \in Seq(JobSet) /\ Len(front) = n /\ \A i \in 1..n : front[i] = waiting[i]
  <2>1. /\ front \in Seq(JobSet) /\ Len(front) = n - 1 + 1
        /\ \A i \in 1..(n - 1 + 1) : front[i] = waiting[1 + i - 1]
    BY <1>1, PartOf
  <2> HIDE DEF front
  <2>2. QED
    BY <1>1, <2>1
<1>5. /\ back \in Seq(JobSet) /\ Len(back) = k - n
      /\ \A i \in 1..(k - n) : back[i] = waiting[n + i]
  <2>1. /\ back \in Seq(JobSet) /\ Len(back) = k - (n + 1) + 1
        /\ \A i \in 1..(k - (n + 1) + 1) : back[i] = waiting[(n + 1) + i - 1]
    <3>1. n + 1 \in 1..(Len(waiting) + 1) /\ Len(waiting) \in ((n + 1) - 1)..Len(waiting)
      BY <1>1
    <3>2. QED
      BY <3>1, PartOf
  <2> HIDE DEF back
  <2>2. QED
    BY <1>1, <2>1
<1>6. m \in 0..(k + 1)
  BY <1>1
<1> HIDE DEF next, front, back, k
<1>7. /\ SubSeq(next, 1, m) \in Seq(JobSet) /\ Len(SubSeq(next, 1, m)) = m
      /\ \A i \in 1..m : SubSeq(next, 1, m)[i] = next[i]
  <2>1. /\ SubSeq(next, 1, m) \in Seq(JobSet) /\ Len(SubSeq(next, 1, m)) = m - 1 + 1
        /\ \A i \in 1..(m - 1 + 1) : SubSeq(next, 1, m)[i] = next[1 + i - 1]
    <3>1. 1 \in 1..(Len(next) + 1) /\ m \in (1 - 1)..Len(next)
      BY <1>1, <1>2, <1>6
    <3>2. QED
      BY <1>2, <3>1, PartOf
  <2>2. QED
    BY <1>6, <2>1
<1>8. /\ SubSeq(next, m + 1, Len(next)) \in Seq(JobSet)
      /\ Len(SubSeq(next, m + 1, Len(next))) = k + 1 - m
      /\ \A i \in 1..(k + 1 - m) : SubSeq(next, m + 1, Len(next))[i] = next[m + i]
  <2>1. m + 1 \in 1..(Len(next) + 1) /\ Len(next) \in ((m + 1) - 1)..Len(next)
    BY <1>1, <1>2, <1>6
  <2>2. /\ SubSeq(next, m + 1, Len(next)) \in Seq(JobSet)
        /\ Len(SubSeq(next, m + 1, Len(next))) = Len(next) - (m + 1) + 1
        /\ \A i \in 1..(Len(next) - (m + 1) + 1) :
             SubSeq(next, m + 1, Len(next))[i] = next[(m + 1) + i - 1]
    BY <1>2, <2>1, PartOf
  <2>3. QED
    BY <1>1, <1>2, <1>6, <2>2
<1> DEFINE first == SubSeq(next, 1, m)
           rest == SubSeq(next, m + 1, Len(next))
<1> HIDE DEF first, rest
<1>9. /\ Append(front, job) \in Seq(JobSet) /\ Len(Append(front, job)) = n + 1
      /\ \A i \in 1..n : Append(front, job)[i] = front[i]
      /\ Append(front, job)[n + 1] = job
  BY <1>4, AppendProperties
<1>10. /\ Append(back, job) \in Seq(JobSet) /\ Len(Append(back, job)) = k - n + 1
       /\ \A i \in 1..(k - n) : Append(back, job)[i] = back[i]
       /\ Append(back, job)[k - n + 1] = job
  BY <1>5, AppendProperties
<1> DEFINE longFront == Append(front, job)
           longBack == Append(back, job)
<1> HIDE DEF longFront, longBack
<1>11. CASE Critical(job)
  <2>1. /\ m = n + 1 /\ next[n + 1] = job
        /\ \A i \in 1..n : next[i] = waiting[i]
        /\ \A i \in (n + 2)..(k + 1) : next[i] = waiting[i - 1]
    BY <1>1, <1>2, <1>11
  <2>2. \A i \in 1..(k + 1) : Critical(next[i]) <=> i <= m
    <3> SUFFICES ASSUME NEW i \in 1..(k + 1) PROVE Critical(next[i]) <=> i <= m
      OBVIOUS
    <3>1. i \in 1..n \/ i = n + 1 \/ (i \in (n + 2)..(k + 1) /\ i - 1 \in 1..k /\ ~(i - 1 <= n))
      BY <1>1
    <3>2. QED
      BY <1>1, <1>11, <2>1, <3>1
  <2>3. first = longFront
    <3>1. Len(first) = Len(longFront) /\ \A i \in 1..(n + 1) : first[i] = longFront[i]
      <4>1. \A i \in 1..(n + 1) : i \in 1..n \/ i = n + 1
        BY <1>1
      <4>2. QED
        BY <1>4, <1>7, <1>9, <2>1, <4>1 DEF first, longFront
    <3>2. QED
      BY <1>7, <1>9, <2>1, <3>1, SeqEqual DEF first, longFront
  <2>4. rest = back
    <3>1. k + 1 - m = k - n
      BY <1>1, <2>1
    <3>2. \A i \in 1..(k - n) : rest[i] = back[i]
      <4> SUFFICES ASSUME NEW i \in 1..(k - n) PROVE rest[i] = back[i]
        OBVIOUS
      <4>1. m + i \in (n + 2)..(k + 1) /\ (m + i) - 1 = n + i
        BY <1>1, <2>1
      <4>2. rest[i] = next[m + i]
        BY <1>8, <3>1 DEF rest
      <4>3. next[m + i] = waiting[n + i]
        BY <2>1, <4>1
      <4>4. QED
        BY <1>5, <4>2, <4>3
    <3>3. QED
      BY <1>5, <1>8, <3>1, <3>2, SeqEqual DEF rest
  <2>5. QED
    BY <1>2, <1>3, <1>6, <1>11, <2>2, <2>3, <2>4
       DEF PartsAfter, next, front, back, first, rest, longFront, longBack, k
<1>12. CASE ~Critical(job)
  <2>1. m = n /\ next[k + 1] = job /\ \A i \in 1..k : next[i] = waiting[i]
    BY <1>1, <1>2, <1>12
  <2>2. \A i \in 1..(k + 1) : Critical(next[i]) <=> i <= m
    <3> SUFFICES ASSUME NEW i \in 1..(k + 1) PROVE Critical(next[i]) <=> i <= m
      OBVIOUS
    <3>1. i \in 1..k \/ (i = k + 1 /\ ~(i <= n))
      BY <1>1
    <3>2. QED
      BY <1>1, <1>12, <2>1, <3>1
  <2>3. first = front
    <3>1. \A i \in 1..n : i \in 1..k
      BY <1>1
    <3>2. QED
      BY <1>4, <1>7, <2>1, <3>1, SeqEqual DEF first
  <2>4. rest = longBack
    <3>1. k + 1 - m = k - n + 1
      BY <1>1, <2>1
    <3>2. \A i \in 1..(k - n + 1) : rest[i] = longBack[i]
      <4> SUFFICES ASSUME NEW i \in 1..(k - n + 1) PROVE rest[i] = longBack[i]
        OBVIOUS
      <4>1. rest[i] = next[m + i]
        BY <1>8, <3>1 DEF rest
      <4>2. CASE i = k - n + 1
        BY <1>1, <1>10, <2>1, <4>1, <4>2 DEF longBack
      <4>3. CASE i # k - n + 1
        <5>1. i \in 1..(k - n) /\ m + i \in 1..k /\ m + i = n + i
          BY <1>1, <2>1, <4>3
        <5>2. QED
          BY <1>5, <1>10, <2>1, <4>1, <5>1 DEF longBack
      <4>4. QED
        BY <4>2, <4>3
    <3>3. QED
      BY <1>8, <1>10, <3>1, <3>2, SeqEqual DEF rest, longBack
  <2>5. QED
    BY <1>2, <1>3, <1>6, <1>12, <2>2, <2>3, <2>4
       DEF PartsAfter, next, front, back, first, rest, longFront, longBack, k
<1>13. QED
  BY <1>11, <1>12

LEMMA TakenByClass ==
  ASSUME NEW s \in Seq(JobSet), s # <<>>
  PROVE  /\ \A b \in 1..Len(s) : SubSeq(s, 1, b) = <<s[1]>> \o SubSeq(Tail(s), 1, b - 1)
         /\ \A a \in 2..(Len(s) + 1) : SubSeq(Tail(s), a - 1, Len(s) - 1) = SubSeq(s, a, Len(s))
<1> DEFINE k == Len(s)
           t == Tail(s)
<1>1. /\ k \in Nat \ {0} /\ t \in Seq(JobSet) /\ Len(t) = k - 1
      /\ \A i \in 1..(k - 1) : t[i] = s[i + 1]
      /\ s[1] \in JobSet
  <2>1. k \in Nat /\ k # 0
    BY LenProperties, EmptySeq
  <2>2. /\ t \in Seq(JobSet) /\ Len(t) = k - 1
        /\ \A i \in 1..(k - 1) : t[i] = s[i + 1]
    BY HeadTailProperties
  <2>3. QED
    BY <2>1, <2>2, ElementOfSeq
<1> HIDE DEF k, t
<1>2. ASSUME NEW b \in 1..k
      PROVE  SubSeq(s, 1, b) = <<s[1]>> \o SubSeq(t, 1, b - 1)
  <2> DEFINE front == SubSeq(s, 1, b)
             short == SubSeq(t, 1, b - 1)
  <2>1. /\ front \in Seq(JobSet) /\ Len(front) = b - 1 + 1
        /\ \A i \in 1..(b - 1 + 1) : front[i] = s[1 + i - 1]
    <3>1. 1 \in 1..(Len(s) + 1) /\ b \in (1 - 1)..Len(s)
      BY <1>1 DEF k
    <3>2. QED
      BY <3>1, PartOf
  <2>2. /\ short \in Seq(JobSet) /\ Len(short) = (b - 1) - 1 + 1
        /\ \A i \in 1..((b - 1) - 1 + 1) : short[i] = t[1 + i - 1]
    <3>1. 1 \in 1..(Len(t) + 1) /\ b - 1 \in (1 - 1)..Len(t)
      BY <1>1
    <3>2. QED
      BY <1>1, <3>1, PartOf
  <2> HIDE DEF front, short
  <2>3. <<s[1]>> \in Seq(JobSet) /\ Len(<<s[1]>>) = 1 /\ <<s[1]>>[1] = s[1]
    BY <1>1
  <2> DEFINE one == <<s[1]>>
  <2> HIDE DEF one
  <2>4. /\ one \o short \in Seq(JobSet) /\ Len(one \o short) = 1 + ((b - 1) - 1 + 1)
        /\ \A i \in 1..(1 + ((b - 1) - 1 + 1)) :
             (one \o short)[i] = IF i <= 1 THEN one[i] ELSE short[i - 1]
    BY <2>2, <2>3, ConcatProperties DEF one
  <2>5. Len(front) = b /\ Len(short) = b - 1 /\ Len(one \o short) = b
    BY <1>1, <2>1, <2>2, <2>4
  <2>6. ASSUME NEW i \in 1..b PROVE front[i] = (one \o short)[i]
    <3>1. front[i] = s[i]
      BY <1>1, <2>1
    <3>2. CASE i = 1
      BY <1>1, <2>3, <2>4, <3>1, <3>2 DEF one
    <3>3. CASE i # 1
      <4>1. i - 1 \in 1..(b - 1) /\ i - 1 \in 1..(k - 1) /\ (i - 1) + 1 = i
        BY <1>1, <3>3
      <4>2. short[i - 1] = s[i]
        BY <1>1, <2>2, <4>1
      <4>3. (one \o short)[i] = short[i - 1]
        BY <1>1, <2>4, <3>3
      <4>4. QED
        BY <3>1, <4>2, <4>3
    <3>4. QED
      BY <3>2, <3>3
  <2>7. front = one \o short
    BY <2>1, <2>4, <2>5, <2>6, SeqEqual
  <2>8. QED
    BY <2>7 DEF front, one, short
<1>3. ASSUME NEW a \in 2..(k + 1)
      PROVE  SubSeq(t, a - 1, k - 1) = SubSeq(s, a, k)
  <2> DEFINE tailPart == SubSeq(t, a - 1, k - 1)
             slice == SubSeq(s, a, k)
  <2>1. /\ tailPart \in Seq(JobSet) /\ Len(tailPart) = (k - 1) - (a - 1) + 1
        /\ \A i \in 1..((k - 1) - (a - 1) + 1) : tailPart[i] = t[(a - 1) + i - 1]
    <3>1. a - 1 \in 1..(Len(t) + 1) /\ k - 1 \in ((a - 1) - 1)..Len(t)
      BY <1>1
    <3>2. QED
      BY <1>1, <3>1, PartOf
  <2>2. /\ slice \in Seq(JobSet) /\ Len(slice) = k - a + 1
        /\ \A i \in 1..(k - a + 1) : slice[i] = s[a + i - 1]
    <3>1. a \in 1..(Len(s) + 1) /\ k \in (a - 1)..Len(s)
      BY <1>1 DEF k
    <3>2. QED
      BY <3>1, PartOf
  <2> HIDE DEF tailPart, slice
  <2>3. Len(tailPart) = Len(slice)
    BY <1>1, <2>1, <2>2
  <2>4. ASSUME NEW i \in 1..(k - a + 1) PROVE tailPart[i] = slice[i]
    <3>1. tailPart[i] = t[a + i - 2]
      BY <1>1, <2>1
    <3>2. a + i - 2 \in 1..(k - 1) /\ (a + i - 2) + 1 = a + i - 1
      BY <1>1
    <3>3. QED
      BY <1>1, <2>2, <3>1, <3>2
  <2>5. tailPart = slice
    BY <1>1, <2>1, <2>2, <2>3, <2>4, SeqEqual
  <2>6. QED
    BY <2>5 DEF tailPart, slice
<1>4. QED
  BY <1>2, <1>3 DEF k, t

LEMMA ListFields ==
  ASSUME NEW list \in JobLists
  PROVE  /\ list.critical \in Seq(JobSet) /\ list.other \in Seq(JobSet)
         /\ Len(list.critical) \in Nat /\ Len(list.other) \in Nat
         /\ DOMAIN list = {"critical", "other"}
BY LenProperties DEF JobLists

LEMMA AddedFields ==
  ASSUME NEW list \in JobLists, NEW job \in JobSet, NEW next,
         next = [list EXCEPT ![Class(job)] = Append(@, job)]
  PROVE  /\ Critical(job) => next.critical = Append(list.critical, job) /\ next.other = list.other
         /\ ~Critical(job) => next.critical = list.critical /\ next.other = Append(list.other, job)
<1>1. DOMAIN list = {"critical", "other"}
  BY ListFields
<1>2. QED
  BY <1>1 DEF Class

LEMMA HandFacts ==
  ASSUME current \in JobSet \cup {NoJob}
  PROVE  /\ InHand("critical") \in Seq(JobSet) /\ InHand("other") \in Seq(JobSet)
         /\ current = NoJob => InHand("critical") = <<>> /\ InHand("other") = <<>>
         /\ current # NoJob =>
              /\ InHand("critical") = IF Critical(current) THEN <<current>> ELSE <<>>
              /\ InHand("other") = IF Critical(current) THEN <<>> ELSE <<current>>
<1>1. <<>> \in Seq(JobSet) /\ (current # NoJob => <<current>> \in Seq(JobSet))
  <2> DEFINE S == JobSet
             c == current
  <2>1. c # NoJob => c \in S
    OBVIOUS
  <2> HIDE DEF S, c
  <2>2. <<>> \in Seq(S) /\ (c # NoJob => <<c>> \in Seq(S))
    BY <2>1
  <2>3. QED
    BY <2>2 DEF S, c
<1>2. /\ current = NoJob => InHand("critical") = <<>> /\ InHand("other") = <<>>
      /\ current # NoJob =>
           /\ InHand("critical") = IF Critical(current) THEN <<current>> ELSE <<>>
           /\ InHand("other") = IF Critical(current) THEN <<>> ELSE <<current>>
  BY DEF InHand, Class
<1>3. QED
  BY <1>1, <1>2

LEMMA ThreeParts ==
  ASSUME NEW a \in Seq(JobSet), NEW b \in Seq(JobSet), NEW c \in Seq(JobSet)
  PROVE  a \o (b \o c) = (a \o b) \o c
BY ConcatAssociative, SMTT(30)

LEMMA OrderQueued ==
  ASSUME OrderInv, NEW job \in JobSet, Queue(job), UNCHANGED <<current, did>>
  PROVE  QueueInOrder'
<1>1. PICK n \in 0..Len(dbJobs) :
        /\ \A i \in DOMAIN dbJobs : Critical(dbJobs[i]) <=> i <= n
        /\ took.critical = (did.critical \o InHand("critical")) \o SubSeq(dbJobs, 1, n)
        /\ took.other = (did.other \o InHand("other")) \o SubSeq(dbJobs, n + 1, Len(dbJobs))
  BY DEF OrderInv, QueueInOrder, QueueSplit
<1>2. /\ dbJobs \in Seq(JobSet) /\ took \in JobLists /\ did \in JobLists
      /\ current \in JobSet \cup {NoJob} /\ Len(dbJobs) \in Nat
  BY DbFacts DEF OrderInv
<1>3. /\ dbJobs' = Inserted(dbJobs, job) /\ took' = [took EXCEPT ![Class(job)] = Append(@, job)]
      /\ current' = current /\ did' = did
  BY DEF Queue
<1>4. UNCHANGED <<InHand("critical"), InHand("other")>>
  BY <1>3 DEF InHand
<1> DEFINE m == IF Critical(job) THEN n + 1 ELSE n
           front == SubSeq(dbJobs, 1, n)
           back == SubSeq(dbJobs, n + 1, Len(dbJobs))
           one == did.critical \o InHand("critical")
           two == did.other \o InHand("other")
<1>5. /\ m \in 0..Len(dbJobs')
      /\ \A i \in DOMAIN dbJobs' : Critical(dbJobs'[i]) <=> i <= m
      /\ SubSeq(dbJobs', 1, m) = IF Critical(job) THEN Append(front, job) ELSE front
      /\ SubSeq(dbJobs', m + 1, Len(dbJobs')) = IF Critical(job) THEN back ELSE Append(back, job)
  <2>1. PartsAfter(dbJobs, Inserted(dbJobs, job), job, n)
    BY <1>1, <1>2, InsertedByClass
  <2>2. QED
    BY <1>3, <2>1 DEF PartsAfter
<1>6. one \in Seq(JobSet) /\ two \in Seq(JobSet)
  <2>1. /\ did.critical \in Seq(JobSet) /\ did.other \in Seq(JobSet)
        /\ InHand("critical") \in Seq(JobSet) /\ InHand("other") \in Seq(JobSet)
    BY <1>2, HandFacts, ListFields
  <2>2. QED
    BY <2>1, ConcatProperties
<1>7. front \in Seq(JobSet) /\ back \in Seq(JobSet)
  <2>1. /\ 1 \in 1..(Len(dbJobs) + 1) /\ n \in (1 - 1)..Len(dbJobs)
        /\ n + 1 \in 1..(Len(dbJobs) + 1) /\ Len(dbJobs) \in ((n + 1) - 1)..Len(dbJobs)
    BY <1>2
  <2>2. QED
    BY <1>2, <2>1, PartOf
<1>8. /\ Critical(job) => took'.critical = one \o Append(front, job) /\ took'.other = two \o back
      /\ ~Critical(job) => took'.critical = one \o front /\ took'.other = two \o Append(back, job)
  <2> HIDE DEF one, two, front, back
  <2>1. one \o Append(front, job) = Append(one \o front, job)
        /\ two \o Append(back, job) = Append(two \o back, job)
    BY <1>6, <1>7, ConcatAppend, SMTT(30)
  <2>2. took.critical = one \o front /\ took.other = two \o back
    BY <1>1 DEF one, two, front, back
  <2>3. /\ Critical(job) => took'.critical = Append(took.critical, job) /\ took'.other = took.other
        /\ ~Critical(job) => took'.critical = took.critical /\ took'.other = Append(took.other, job)
    BY <1>2, <1>3, AddedFields, ZenonT(60)
  <2>4. QED
    BY <2>1, <2>2, <2>3
<1> HIDE DEF front, back
<1>9. /\ took'.critical = one \o SubSeq(dbJobs', 1, m)
      /\ took'.other = two \o SubSeq(dbJobs', m + 1, Len(dbJobs'))
  <2> HIDE DEF one, two, m
  <2>1. QED
    BY <1>5, <1>8
<1>10. QueueSplit(m)'
  BY <1>3, <1>4, <1>5, <1>9 DEF QueueSplit
<1>11. QED
  BY <1>5, <1>10 DEF QueueInOrder

LEMMA OrderTaken ==
  ASSUME OrderInv, Take
  PROVE  QueueInOrder'
<1>1. PICK n \in 0..Len(dbJobs) :
        /\ \A i \in DOMAIN dbJobs : Critical(dbJobs[i]) <=> i <= n
        /\ took.critical = (did.critical \o InHand("critical")) \o SubSeq(dbJobs, 1, n)
        /\ took.other = (did.other \o InHand("other")) \o SubSeq(dbJobs, n + 1, Len(dbJobs))
  BY DEF OrderInv, QueueInOrder, QueueSplit
<1>2. /\ dbJobs \in Seq(JobSet) /\ took \in JobLists /\ did \in JobLists
      /\ Len(dbJobs) \in Nat /\ DOMAIN dbJobs = 1..Len(dbJobs)
  BY DbFacts DEF OrderInv
<1>3. /\ current = NoJob /\ dbJobs # <<>> /\ current' = Head(dbJobs) /\ dbJobs' = Tail(dbJobs)
      /\ took' = took /\ did' = did
  BY DEF Take
<1> DEFINE k == Len(dbJobs)
           c == dbJobs[1]
<1>4. /\ k # 0 /\ current' = c /\ dbJobs' \in Seq(JobSet) /\ Len(dbJobs') = k - 1
      /\ DOMAIN dbJobs' = 1..(k - 1) /\ \A i \in 1..(k - 1) : dbJobs'[i] = dbJobs[i + 1]
      /\ c \in JobSet
  <2>1. k # 0
    BY <1>2, <1>3, EmptySeq
  <2>2. QED
    BY <1>2, <1>3, <2>1, HeadTailProperties, LenProperties, ElementOfSeq
<1>5. c # NoJob
  BY <1>4, JobFacts
<1>6. /\ InHand("critical") = <<>> /\ InHand("other") = <<>>
      /\ InHand("critical")' = IF Critical(c) THEN <<c>> ELSE <<>>
      /\ InHand("other")' = IF Critical(c) THEN <<>> ELSE <<c>>
  BY <1>3, <1>4, <1>5 DEF InHand, Class
<1>7. did.critical \in Seq(JobSet) /\ did.other \in Seq(JobSet) /\ <<c>> \in Seq(JobSet)
      /\ <<>> \in Seq(JobSet)
  BY <1>2, <1>4, ListFields
<1>8. did.critical \o <<>> = did.critical /\ did.other \o <<>> = did.other
  BY <1>7, ConcatEmptySeq
<1>9. /\ \A b \in 1..k : SubSeq(dbJobs, 1, b) = <<c>> \o SubSeq(dbJobs', 1, b - 1)
      /\ \A a \in 2..(k + 1) : SubSeq(dbJobs', a - 1, k - 1) = SubSeq(dbJobs, a, k)
  BY <1>2, <1>3, TakenByClass
<1>10. ASSUME NEW a \in 1..k, NEW b \in (a - 1)..(k - 1)
       PROVE  SubSeq(dbJobs', a, b) \in Seq(JobSet)
  BY <1>2, <1>4, <1>10, PartOf
<1> HIDE DEF k, c
<1>11. CASE n # 0
  <2>1. n \in 1..k /\ n - 1 \in 0..(k - 1) /\ 1 \in DOMAIN dbJobs /\ 1 <= n /\ n + 1 \in 2..(k + 1)
        /\ 1 \in 1..k /\ n - 1 \in (1 - 1)..(k - 1) /\ (n + 1) - 1 = n /\ (n - 1) + 1 = n
    BY <1>2, <1>11 DEF k
  <2>2. Critical(c)
    BY <1>1, <2>1 DEF c
  <2>3. \A i \in DOMAIN dbJobs' : Critical(dbJobs'[i]) <=> i <= n - 1
    <3>1. \A i \in 1..(k - 1) : i + 1 \in 1..k /\ (i <= n - 1 <=> i + 1 <= n)
      BY <1>2 DEF k
    <3>2. QED
      BY <1>1, <1>2, <1>4, <3>1 DEF k
  <2>4. took.critical = (did.critical \o <<c>>) \o SubSeq(dbJobs', 1, n - 1)
    <3> DEFINE ended == did.critical
               one == <<c>>
               rest == SubSeq(dbJobs', 1, n - 1)
    <3>1. took.critical = did.critical \o (<<c>> \o SubSeq(dbJobs', 1, n - 1))
      BY <1>1, <1>6, <1>8, <1>9, <2>1
    <3>2. rest \in Seq(JobSet) /\ one \in Seq(JobSet)
      BY <1>7, <1>10, <2>1
    <3>3. ended \in Seq(JobSet)
      BY <1>7
    <3> HIDE DEF ended, one, rest
    <3>4. ended \o (one \o rest) = (ended \o one) \o rest
      BY <3>2, <3>3, ThreeParts
    <3>5. QED
      BY <3>1, <3>4 DEF ended, one, rest
  <2>5. took.other = (did.other \o <<>>) \o SubSeq(dbJobs', n, k - 1)
    BY <1>1, <1>6, <1>9, <2>1 DEF k
  <2>6. QueueSplit(n - 1)'
    BY <1>3, <1>4, <1>6, <2>1, <2>2, <2>3, <2>4, <2>5 DEF QueueSplit
  <2>7. QED
    BY <1>4, <2>1, <2>6 DEF QueueInOrder
<1>12. CASE n = 0
  <2>1. /\ 1 \in DOMAIN dbJobs /\ 1 \in 1..k /\ k \in 1..k /\ k - 1 \in (1 - 1)..(k - 1)
        /\ 0 \in 0..(k - 1) /\ 0 \in (1 - 1)..(k - 1) /\ k \in Nat
    <3>1. k \in Nat /\ k # 0 /\ DOMAIN dbJobs = 1..k
      BY <1>2, <1>4 DEF k
    <3>2. QED
      BY <3>1
  <2>2. ~Critical(c) /\ \A i \in 1..k : ~Critical(dbJobs[i])
    <3>1. \A i \in 1..k : Critical(dbJobs[i]) <=> i <= n
      BY <1>1, <1>2 DEF k
    <3>2. \A i \in 1..k : ~(i <= n)
      BY <1>12, <2>1
    <3>3. QED
      BY <2>1, <3>1, <3>2 DEF c
  <2>3. \A i \in DOMAIN dbJobs' : Critical(dbJobs'[i]) <=> i <= 0
    <3>1. \A i \in 1..(k - 1) : i + 1 \in 1..k /\ ~(i <= 0)
      BY <2>1
    <3>2. QED
      BY <1>4, <2>2, <3>1
  <2>4. took.critical = (did.critical \o <<>>) \o SubSeq(dbJobs', 1, 0)
    <3>1. SubSeq(dbJobs', 1, 0) = <<>> /\ SubSeq(dbJobs, 1, 0) = <<>>
      BY <1>2, <1>4, SubSeqEmpty
    <3>2. QED
      BY <1>1, <1>6, <1>12, <3>1
  <2>5. took.other = (did.other \o <<c>>) \o SubSeq(dbJobs', 1, k - 1)
    <3> DEFINE ended == did.other
               one == <<c>>
               rest == SubSeq(dbJobs', 1, k - 1)
    <3>1. took.other = did.other \o (<<c>> \o SubSeq(dbJobs', 1, k - 1))
      <4>1. SubSeq(dbJobs, 1, k) = <<c>> \o SubSeq(dbJobs', 1, k - 1)
        BY <1>9, <2>1
      <4>2. took.other = (did.other \o <<>>) \o SubSeq(dbJobs, 1, k)
        <5>1. n + 1 = 1
          BY <1>12
        <5>2. QED
          BY <1>1, <1>6, <5>1 DEF k
      <4>3. QED
        BY <1>8, <4>1, <4>2
    <3>2. rest \in Seq(JobSet) /\ one \in Seq(JobSet)
      BY <1>7, <1>10, <2>1
    <3>3. ended \in Seq(JobSet)
      BY <1>7
    <3> HIDE DEF ended, one, rest
    <3>4. ended \o (one \o rest) = (ended \o one) \o rest
      BY <3>2, <3>3, ThreeParts
    <3>5. QED
      BY <3>1, <3>4 DEF ended, one, rest
  <2>6. QueueSplit(0)'
    <3>1. 0 + 1 = 1
      OBVIOUS
    <3>2. QED
      BY <1>3, <1>4, <1>6, <2>2, <2>3, <2>4, <2>5, <3>1 DEF QueueSplit
  <2>7. QED
    BY <1>4, <2>1, <2>6 DEF QueueInOrder
<1>13. QED
  BY <1>11, <1>12

LEMMA OrderFinished ==
  ASSUME OrderInv, FinishJob
  PROVE  /\ QueueInOrder'
         /\ current \in JobSet
         /\ Critical(current) =>
              /\ did'.critical = did.critical \o <<current>> /\ did'.other = did.other
              /\ \E rest \in Seq(JobSet) : took.critical = (did.critical \o <<current>>) \o rest
         /\ ~Critical(current) =>
              /\ did'.other = did.other \o <<current>> /\ did'.critical = did.critical
              /\ \E rest \in Seq(JobSet) : took.other = (did.other \o <<current>>) \o rest
<1>1. PICK n \in 0..Len(dbJobs) : QueueSplit(n)
  BY DEF OrderInv, QueueInOrder
<1>2. /\ dbJobs \in Seq(JobSet) /\ took \in JobLists /\ did \in JobLists
      /\ current \in JobSet \cup {NoJob} /\ Len(dbJobs) \in Nat
  BY DbFacts DEF OrderInv
<1>3. /\ current # NoJob /\ current' = NoJob /\ dbJobs' = dbJobs /\ took' = took
      /\ did' = [did EXCEPT ![Class(current)] = Append(@, current)]
  BY DEF FinishJob
<1> DEFINE c == current
           front == SubSeq(dbJobs, 1, n)
           back == SubSeq(dbJobs, n + 1, Len(dbJobs))
<1>4. c \in JobSet
  BY <1>2, <1>3
<1>5. /\ InHand("critical") = IF Critical(c) THEN <<c>> ELSE <<>>
      /\ InHand("other") = IF Critical(c) THEN <<>> ELSE <<c>>
  BY <1>2, <1>3, HandFacts
<1>6. InHand("critical")' = <<>> /\ InHand("other")' = <<>>
  BY <1>3 DEF InHand
<1>7. did.critical \in Seq(JobSet) /\ did.other \in Seq(JobSet)
  BY <1>2, ListFields
<1>8. /\ Critical(c) => did'.critical = Append(did.critical, c) /\ did'.other = did.other
      /\ ~Critical(c) => did'.critical = did.critical /\ did'.other = Append(did.other, c)
  BY <1>2, <1>3, <1>4, AddedFields, ZenonT(60)
<1>9. /\ Append(did.critical, c) = did.critical \o <<c>> /\ Append(did.other, c) = did.other \o <<c>>
      /\ did.critical \o <<>> = did.critical /\ did.other \o <<>> = did.other
  BY <1>4, <1>7, AppendIsConcat, ConcatEmptySeq
<1>10. /\ Critical(c) => did'.critical = did.critical \o <<c>> /\ did'.other = did.other
       /\ ~Critical(c) => did'.other = did.other \o <<c>> /\ did'.critical = did.critical
  BY <1>8, <1>9
<1>11. front \in Seq(JobSet) /\ back \in Seq(JobSet)
  <2>1. /\ 1 \in 1..(Len(dbJobs) + 1) /\ n \in (1 - 1)..Len(dbJobs)
        /\ n + 1 \in 1..(Len(dbJobs) + 1) /\ Len(dbJobs) \in ((n + 1) - 1)..Len(dbJobs)
    BY <1>2
  <2>2. QED
    BY <1>2, <2>1, PartOf
<1>12. /\ took.critical = (did.critical \o InHand("critical")) \o front
       /\ took.other = (did.other \o InHand("other")) \o back
  BY <1>1 DEF QueueSplit
<1>13. did'.critical \in Seq(JobSet) /\ did'.other \in Seq(JobSet)
  <2>1. Append(did.critical, c) \in Seq(JobSet) /\ Append(did.other, c) \in Seq(JobSet)
    BY <1>4, <1>7, AppendProperties
  <2>2. QED
    BY <1>7, <1>8, <2>1
<1>14. did'.critical \o <<>> = did'.critical /\ did'.other \o <<>> = did'.other
  BY <1>13, ConcatEmptySeq
<1> HIDE DEF front, back
<1>15. /\ took.critical = (did'.critical \o <<>>) \o front
       /\ took.other = (did'.other \o <<>>) \o back
  BY <1>5, <1>9, <1>10, <1>12, <1>14
<1>16. QueueSplit(n)'
  BY <1>1, <1>3, <1>6, <1>15 DEF QueueSplit, front, back
<1>17. QueueInOrder'
  BY <1>3, <1>16 DEF QueueInOrder
<1>18. QED
  BY <1>4, <1>5, <1>10, <1>11, <1>12, <1>17

\* When nothing waits and nothing runs, all the accepted jobs have run.
LEMMA AllHaveRun ==
  ASSUME OrderInv, dbJobs = <<>>, current = NoJob
  PROVE  did.critical = took.critical /\ did.other = took.other
<1>1. PICK n \in 0..Len(dbJobs) : QueueSplit(n)
  BY DEF OrderInv, QueueInOrder
<1>2. /\ did \in JobLists /\ current \in JobSet \cup {NoJob}
  BY DbFacts DEF OrderInv
<1>3. did.critical \in Seq(JobSet) /\ did.other \in Seq(JobSet)
  BY <1>2, ListFields
<1>4. InHand("critical") = <<>> /\ InHand("other") = <<>>
  BY <1>2, HandFacts
<1>5. n = 0 /\ SubSeq(dbJobs, 1, 0) = <<>> /\ SubSeq(dbJobs, 1, Len(dbJobs)) = <<>>
  <2>1. Len(<<>>) = 0 /\ <<>> \in Seq(JobSet)
    OBVIOUS
  <2>2. SubSeq(<<>>, 1, 0) = <<>>
    BY <2>1, SubSeqEmpty
  <2>3. QED
    BY <2>1, <2>2
<1>6. /\ took.critical = (did.critical \o <<>>) \o <<>>
      /\ took.other = (did.other \o <<>>) \o <<>>
  <2>1. n + 1 = 1
    BY <1>5
  <2>2. QED
    BY <1>1, <1>4, <1>5, <2>1 DEF QueueSplit
<1>7. QED
  BY <1>3, <1>6, ConcatEmptySeq

LEMMA OrderInitially == DbInit => OrderInv
<1> SUFFICES ASSUME DbInit PROVE OrderInv
  OBVIOUS
<1>1. DbInv
  BY DbInitially
<1>2. /\ dbJobs = <<>> /\ current = NoJob /\ ~gone /\ current \in JobSet \cup {NoJob}
      /\ took = NoneYet /\ did = NoneYet
  BY DEF DbInit
<1>3. NoneYet.critical = <<>> /\ NoneYet.other = <<>>
  BY DEF NoneYet
<1>4. InHand("critical") = <<>> /\ InHand("other") = <<>>
  BY <1>2, HandFacts
<1>5. /\ Len(<<>>) = 0 /\ DOMAIN dbJobs = {}
      /\ SubSeq(dbJobs, 1, 0) = <<>> /\ SubSeq(dbJobs, 0 + 1, Len(dbJobs)) = <<>>
  <2>1. Len(<<>>) = 0 /\ <<>> \in Seq(JobSet) /\ 0 + 1 = 1
    OBVIOUS
  <2>2. SubSeq(<<>>, 1, 0) = <<>>
    BY <2>1, SubSeqEmpty
  <2>3. QED
    BY <1>2, <2>1, <2>2
<1>6. (<<>> \o <<>>) \o <<>> = <<>>
  <2>1. <<>> \in Seq(JobSet)
    OBVIOUS
  <2>2. QED
    BY <2>1, ConcatEmptySeq
<1>7. QueueSplit(0)
  BY <1>2, <1>3, <1>4, <1>5, <1>6 DEF QueueSplit
<1>8. QueueInOrder
  BY <1>2, <1>5, <1>7 DEF QueueInOrder
<1>9. QED
  BY <1>1, <1>2, <1>8 DEF OrderInv, EmptyWhenGone

\* What a step does to the queue, to the job in hand and to the lists of jobs.
LEMMA DbOutline ==
  ASSUME DbInv, [DbNext]_dbVars
  PROVE  \/ \E job \in JobSet :
              ~stopWorker /\ Queue(job) /\ UNCHANGED <<current, did, gone, stopWorker>>
         \/ Take /\ UNCHANGED <<took, did, gone, stopWorker>>
         \/ FinishJob /\ UNCHANGED <<dbJobs, took, gone, stopWorker>>
         \/ Destroyed /\ UNCHANGED <<dbJobs, current, took, did, stopWorker>>
         \/ UNCHANGED <<dbJobs, current, took, did, gone>> /\ (stopWorker => stopWorker')
<1>1. NextId \in Nat \ {0} /\ MaxJobs \in Nat
  <2>1. \A list \in JobLists : JobCount(list) \in Nat
    BY LenProperties DEF JobLists, JobCount
  <2>2. QED
    BY <2>1, DbFacts, DatabaseWorkerAssumption DEF NextId
<1>2. \A job : Queue(job) => NextId \in 1..MaxJobs
  BY <1>1 DEF Queue
<1>3. CASE EnqueueSave
  BY <1>2, <1>3, JobFacts DEF EnqueueSave
<1>4. CASE EnqueueQuery
  BY <1>2, <1>4, JobFacts DEF EnqueueQuery
<1>5. CASE \E key \in Keys : EnqueueRefresh(key)
  <2> PICK key \in Keys : EnqueueRefresh(key)
    BY <1>5
  <2>1. ~stopWorker /\ Refresh(key) /\ UNCHANGED <<current, did, gone, stopWorker>>
    BY DEF EnqueueRefresh
  <2>2. Queue(Job(NextId, "refresh", key)) \/ UNCHANGED <<dbJobs, took>>
    BY <2>1 DEF Refresh
  <2>3. QED
    BY <1>2, <2>1, <2>2, JobFacts
<1>6. CASE DirectWrite \/ ClearFigures \/ WriteTables \/ ReadTables \/ PublishSnapshot \/ Fail
  BY <1>6 DEF DirectWrite, ClearFigures, WriteTables, ReadTables, PublishSnapshot, Fail, queueVars
<1>7. CASE Take
  BY <1>7 DEF Take
<1>8. CASE FinishJob
  BY <1>8 DEF FinishJob
<1>9. CASE Destroyed
  <2>1. UNCHANGED <<dbJobs, current, took, did, stopWorker>>
    BY <1>9 DEF Destroyed, queueVars
  <2>2. QED
    BY <1>9, <2>1
<1>10. CASE BeginDestroy
  BY <1>10 DEF BeginDestroy
<1>11. CASE UNCHANGED dbVars
  BY <1>11 DEF dbVars
<1>12. QED
  BY <1>3, <1>4, <1>5, <1>6, <1>7, <1>8, <1>9, <1>10, <1>11 DEF DbNext, WorkerSteps

LEMMA OrderStep == OrderInv /\ [DbNext]_dbVars => OrderInv'
<1> SUFFICES ASSUME OrderInv, [DbNext]_dbVars PROVE OrderInv'
  OBVIOUS
<1>1. DbInv /\ QueueInOrder /\ EmptyWhenGone
  BY DEF OrderInv
<1>2. DbInv'
  BY <1>1, DbStep
<1>3. CASE \E job \in JobSet :
             ~stopWorker /\ Queue(job) /\ UNCHANGED <<current, did, gone, stopWorker>>
  <2>1. QueueInOrder'
    BY <1>3, OrderQueued
  <2>2. EmptyWhenGone'
    BY <1>1, <1>3 DEF EmptyWhenGone
  <2>3. QED
    BY <1>2, <2>1, <2>2 DEF OrderInv
<1>4. CASE Take /\ UNCHANGED <<took, did, gone, stopWorker>>
  <2>1. QueueInOrder'
    BY <1>4, OrderTaken
  <2>2. EmptyWhenGone'
    BY <1>1, <1>4 DEF EmptyWhenGone, Take
  <2>3. QED
    BY <1>2, <2>1, <2>2 DEF OrderInv
<1>5. CASE FinishJob /\ UNCHANGED <<dbJobs, took, gone, stopWorker>>
  <2>1. QueueInOrder'
    BY <1>5, OrderFinished
  <2>2. EmptyWhenGone'
    BY <1>1, <1>5 DEF EmptyWhenGone, FinishJob
  <2>3. QED
    BY <1>2, <2>1, <2>2 DEF OrderInv
<1>6. ASSUME UNCHANGED <<dbJobs, current, took, did>> PROVE QueueInOrder'
  <2>1. UNCHANGED <<InHand("critical"), InHand("other")>>
    BY <1>6 DEF InHand
  <2>2. \A n : QueueSplit(n) => QueueSplit(n)'
    BY <1>6, <2>1 DEF QueueSplit
  <2>3. QED
    BY <1>1, <1>6, <2>2 DEF QueueInOrder
<1>7. CASE Destroyed /\ UNCHANGED <<dbJobs, current, took, did, stopWorker>>
  <2>1. EmptyWhenGone'
    BY <1>7 DEF EmptyWhenGone, Destroyed, MayLeave
  <2>2. QED
    BY <1>2, <1>6, <1>7, <2>1 DEF OrderInv
<1>8. CASE UNCHANGED <<dbJobs, current, took, did, gone>> /\ (stopWorker => stopWorker')
  <2>1. EmptyWhenGone'
    BY <1>1, <1>8 DEF EmptyWhenGone
  <2>2. QED
    BY <1>2, <1>6, <1>8, <2>1 DEF OrderInv
<1>9. QED
  BY <1>1, <1>3, <1>4, <1>5, <1>7, <1>8, DbOutline

\* A list of jobs that have run and the one that follows them.
LEMMA RunsNext ==
  ASSUME NEW a \in Seq(JobSet), NEW c \in JobSet, NEW rest \in Seq(JobSet),
         NEW all, all = (a \o <<c>>) \o rest
  PROVE  Len(a) < Len(all) /\ a \o <<c>> = Append(a, all[Len(a) + 1])
<1> DEFINE done == a \o <<c>>
<1>1. done = Append(a, c)
  BY AppendIsConcat
<1>2. done \in Seq(JobSet) /\ Len(done) = Len(a) + 1 /\ done[Len(a) + 1] = c /\ Len(a) \in Nat
  BY <1>1, AppendProperties, LenProperties
<1> HIDE DEF done
<1>3. /\ Len(done \o rest) = Len(done) + Len(rest) /\ Len(rest) \in Nat
      /\ \A i \in 1..(Len(done) + Len(rest)) :
           (done \o rest)[i] = IF i <= Len(done) THEN done[i] ELSE rest[i - Len(done)]
  BY <1>2, ConcatProperties, LenProperties
<1>4. all = done \o rest
  BY DEF done
<1>5. Len(a) < Len(all) /\ Len(a) + 1 \in 1..(Len(done) + Len(rest)) /\ Len(a) + 1 <= Len(done)
  BY <1>2, <1>3, <1>4
<1>6. all[Len(a) + 1] = c
  BY <1>2, <1>3, <1>4, <1>5
<1>7. QED
  BY <1>1, <1>5, <1>6 DEF done

\* For either class a step of the worker is one of FifoRun's, or none.
LEMMA ClassStep ==
  OrderInv /\ [DbNext]_dbVars =>
    /\ [CriticalFifo!FifoNext]_(CriticalFifo!fifoVars)
    /\ [OtherFifo!FifoNext]_(OtherFifo!fifoVars)
<1> SUFFICES ASSUME OrderInv, [DbNext]_dbVars
             PROVE  /\ CriticalFifo!FifoNext \/ UNCHANGED CriticalFifo!fifoVars
                    /\ OtherFifo!FifoNext \/ UNCHANGED OtherFifo!fifoVars
  OBVIOUS
<1>1. DbInv /\ EmptyWhenGone /\ took \in JobLists /\ did \in JobLists
  BY DbFacts DEF OrderInv
<1>2. CASE \E job \in JobSet :
             ~stopWorker /\ Queue(job) /\ UNCHANGED <<current, did, gone, stopWorker>>
  <2> PICK job \in JobSet : ~stopWorker /\ Queue(job) /\ UNCHANGED <<did, gone>>
    BY <1>2
  <2>1. ~gone
    BY <1>1 DEF EmptyWhenGone
  <2>2. took' = [took EXCEPT ![Class(job)] = Append(@, job)]
    BY DEF Queue
  <2>3. /\ Critical(job) => took'.critical = Append(took.critical, job) /\ took'.other = took.other
        /\ ~Critical(job) => took'.critical = took.critical /\ took'.other = Append(took.other, job)
    BY <1>1, <2>2, AddedFields, ZenonT(60)
  <2>4. CASE Critical(job)
    <3>1. CriticalFifo!Accept(job)
      BY <2>1, <2>3, <2>4 DEF CriticalFifo!Accept
    <3>2. UNCHANGED OtherFifo!fifoVars
      BY <2>3, <2>4 DEF OtherFifo!fifoVars
    <3>3. QED
      BY <3>1, <3>2 DEF CriticalFifo!FifoNext
  <2>5. CASE ~Critical(job)
    <3>1. OtherFifo!Accept(job)
      BY <2>1, <2>3, <2>5 DEF OtherFifo!Accept
    <3>2. UNCHANGED CriticalFifo!fifoVars
      BY <2>3, <2>5 DEF CriticalFifo!fifoVars
    <3>3. QED
      BY <3>1, <3>2 DEF OtherFifo!FifoNext
  <2>6. QED
    BY <2>4, <2>5
<1>3. CASE FinishJob /\ UNCHANGED <<dbJobs, took, gone, stopWorker>>
  <2>1. /\ current \in JobSet
        /\ Critical(current) =>
             /\ did'.critical = did.critical \o <<current>> /\ did'.other = did.other
             /\ \E rest \in Seq(JobSet) : took.critical = (did.critical \o <<current>>) \o rest
        /\ ~Critical(current) =>
             /\ did'.other = did.other \o <<current>> /\ did'.critical = did.critical
             /\ \E rest \in Seq(JobSet) : took.other = (did.other \o <<current>>) \o rest
    BY <1>3, OrderFinished
  <2>2. did.critical \in Seq(JobSet) /\ did.other \in Seq(JobSet)
    BY <1>1, ListFields
  <2>3. CASE Critical(current)
    <3>1. PICK rest \in Seq(JobSet) : took.critical = (did.critical \o <<current>>) \o rest
      BY <2>1, <2>3
    <3>2. /\ Len(did.critical) < Len(took.critical)
          /\ did.critical \o <<current>> = Append(did.critical, took.critical[Len(did.critical) + 1])
      BY <2>1, <2>2, <3>1, RunsNext
    <3>3. CriticalFifo!RunNext
      BY <1>3, <2>1, <2>3, <3>2 DEF CriticalFifo!RunNext
    <3>4. UNCHANGED OtherFifo!fifoVars
      BY <1>3, <2>1, <2>3 DEF OtherFifo!fifoVars
    <3>5. QED
      BY <3>3, <3>4 DEF CriticalFifo!FifoNext
  <2>4. CASE ~Critical(current)
    <3>1. PICK rest \in Seq(JobSet) : took.other = (did.other \o <<current>>) \o rest
      BY <2>1, <2>4
    <3>2. /\ Len(did.other) < Len(took.other)
          /\ did.other \o <<current>> = Append(did.other, took.other[Len(did.other) + 1])
      BY <2>1, <2>2, <3>1, RunsNext, SMTT(30)
    <3>3. OtherFifo!RunNext
      BY <1>3, <2>1, <2>4, <3>2 DEF OtherFifo!RunNext
    <3>4. UNCHANGED CriticalFifo!fifoVars
      BY <1>3, <2>1, <2>4 DEF CriticalFifo!fifoVars
    <3>5. QED
      BY <3>3, <3>4 DEF OtherFifo!FifoNext
  <2>5. QED
    BY <2>3, <2>4
<1>4. CASE Destroyed /\ UNCHANGED <<dbJobs, current, took, did, stopWorker>>
  <2>1. did.critical = took.critical /\ did.other = took.other
    BY <1>4, AllHaveRun DEF Destroyed, MayLeave
  <2>2. CriticalFifo!End /\ OtherFifo!End
    BY <1>4, <2>1 DEF Destroyed, CriticalFifo!End, OtherFifo!End
  <2>3. QED
    BY <2>2 DEF CriticalFifo!FifoNext, OtherFifo!FifoNext
<1>5. CASE UNCHANGED <<took, did, gone>>
  BY <1>5 DEF CriticalFifo!fifoVars, OtherFifo!fifoVars
<1>6. QED
  BY <1>1, <1>2, <1>3, <1>4, <1>5, DbOutline

-----------------------------------------------------------------------------
\* The history window.

QueryJobs == [kind : {"query"}, id : 1..MaxQueries, append : BOOLEAN, offset : Nat]
DetailJobs == [kind : {"detail"}, id : 1..MaxDetails]
WindowJobs == QueryJobs \cup DetailJobs
WindowWork == {NoQuery} \cup [kind : {"read", "publish"}, job : WindowJobs]
HistoryRows == Seq((1..MaxQueries) \X (1..TotalRows))
ListViews ==
  [id : 0..MaxQueries, rows : HistoryRows, total : Nat, loading : BOOLEAN,
   detailId : 0..MaxDetails, detailOpen : BOOLEAN, detailLoading : BOOLEAN, detail : 0..MaxDetails]
ListStores ==
  [id : 0..MaxQueries, rows : HistoryRows, total : Nat, loading : BOOLEAN, append : BOOLEAN,
   detailId : 0..MaxDetails, detailLoading : BOOLEAN, detail : 0..MaxDetails, version : Nat]

PagingShape ==
  /\ listView \in ListViews /\ store \in ListStores /\ taken \in 0..store.version
  /\ visible \in BOOLEAN /\ requests \in Seq(WindowJobs) /\ work \in WindowWork
  /\ more \in Seq(1..MaxQueries)
  /\ listView.total > 0 => listView.id > 0

\* "Load more" was pressed for the query of a job that appends.
AsksForMore(job, asked) == job.kind = "query" /\ job.append => job.id \in asked

AppendsWhenAsked ==
  /\ \A n \in DOMAIN requests : AsksForMore(requests[n], ToSet(more))
  /\ work # NoQuery => AsksForMore(work.job, ToSet(more))

RowsAreOf(rowsShown, id) == \A i \in DOMAIN rowsShown : rowsShown[i][1] = id

\* What the store shows of a query is of that query, and of a match is of that match.
StoreIsOfQuery ==
  /\ ~store.loading /\ store.id \notin ToSet(more) =>
       ~store.append /\ RowsAreOf(store.rows, store.id)
  /\ ~store.detailLoading /\ store.detailId > 0 => store.detail = store.detailId

PagingInv ==
  /\ PagingShape /\ AppendsWhenAsked /\ StoreIsOfQuery
  /\ RowsOfLastQuery /\ DetailOfOpened

LEMMA PagingInitially == PagingInit => PagingInv
<1> SUFFICES ASSUME PagingInit PROVE PagingInv
  OBVIOUS
<1>1. MaxQueries \in Nat /\ MaxDetails \in Nat /\ NoDetail \in 0..MaxDetails /\ NoDetail = 0
  BY HistoryPagingAssumption DEF NoDetail
<1>2. /\ <<>> \in HistoryRows /\ <<>> \in Seq(WindowJobs) /\ <<>> \in Seq(1..MaxQueries)
      /\ DOMAIN <<>> = {}
  BY DEF HistoryRows
<1>3. listView \in ListViews /\ store \in ListStores /\ taken \in 0..store.version
      /\ listView.total = 0
  BY <1>1, <1>2 DEF PagingInit, ListViews, ListStores
<1>4. PagingShape
  BY <1>2, <1>3 DEF PagingInit, PagingShape, WindowWork
<1>5. AppendsWhenAsked
  BY <1>2 DEF PagingInit, AppendsWhenAsked
<1>6. StoreIsOfQuery /\ RowsOfLastQuery /\ DetailOfOpened
  BY <1>1, <1>2 DEF PagingInit, StoreIsOfQuery, RowsAreOf, RowsOfLastQuery, DetailOfOpened
<1>7. QED
  BY <1>4, <1>5, <1>6 DEF PagingInv

LEMMA PageIsOfQuery ==
  ASSUME NEW id \in 1..MaxQueries, NEW offset \in Nat
  PROVE  Page(id, offset) \in HistoryRows /\ RowsAreOf(Page(id, offset), id)
<1> DEFINE n == IF offset >= TotalRows THEN 0
                ELSE IF TotalRows - offset < PageSize THEN TotalRows - offset ELSE PageSize
           page == [i \in 1..n |-> <<id, offset + i>>]
<1>1. n \in Nat /\ \A i \in 1..n : offset + i \in 1..TotalRows
  BY HistoryPagingAssumption
<1>2. Page(id, offset) = page
  BY DEF Page
<1> HIDE DEF n
<1>3. \A i \in 1..n : page[i] \in (1..MaxQueries) \X (1..TotalRows) /\ page[i][1] = id
  BY <1>1
<1>4. DOMAIN page = 1..n /\ page \in [1..n -> (1..MaxQueries) \X (1..TotalRows)]
  BY <1>3
<1> HIDE DEF page
<1>5. page \in Seq((1..MaxQueries) \X (1..TotalRows))
  BY <1>1, <1>4
<1>6. QED
  BY <1>2, <1>3, <1>4, <1>5 DEF HistoryRows, RowsAreOf

LEMMA WindowFacts ==
  ASSUME PagingInv
  PROVE  /\ listView \in ListViews /\ store \in ListStores /\ taken \in 0..store.version
         /\ visible \in BOOLEAN /\ requests \in Seq(WindowJobs) /\ work \in WindowWork
         /\ more \in Seq(1..MaxQueries) /\ (listView.total > 0 => listView.id > 0)
         /\ MaxQueries \in Nat /\ MaxDetails \in Nat /\ NoDetail = 0
BY HistoryPagingAssumption DEF PagingInv, PagingShape, NoDetail

\* A job is queued, or lost.
LEMMA AskKeeps ==
  ASSUME PagingInv, NEW job \in WindowJobs, AskWorker(job)
  PROVE  /\ requests' \in Seq(WindowJobs)
         /\ \A i \in DOMAIN requests' :
              requests'[i] = job \/ \E j \in DOMAIN requests : requests'[i] = requests[j]
<1>1. requests \in Seq(WindowJobs)
  BY WindowFacts
<1>2. CASE UNCHANGED requests
  BY <1>1, <1>2
<1>3. CASE requests' = Append(requests, job)
  <2>1. /\ Append(requests, job) \in Seq(WindowJobs)
        /\ DOMAIN Append(requests, job) = 1..(Len(requests) + 1)
        /\ Append(requests, job)[Len(requests) + 1] = job
        /\ \A i \in 1..Len(requests) : Append(requests, job)[i] = requests[i]
        /\ DOMAIN requests = 1..Len(requests) /\ Len(requests) \in Nat
    BY <1>1, AppendProperties, LenProperties
  <2>2. \A i \in 1..(Len(requests) + 1) : i \in 1..Len(requests) \/ i = Len(requests) + 1
    BY <2>1
  <2>3. QED
    BY <1>3, <2>1, <2>2
<1>4. QED
  BY <1>2, <1>3 DEF AskWorker

LEMMA PublishedIs ==
  ASSUME NEW s \in ListStores
  PROVE  /\ Published(s) \in ListStores /\ Published(s).version >= s.version
         /\ Published(s).id = s.id /\ Published(s).rows = s.rows
         /\ Published(s).loading = s.loading /\ Published(s).append = s.append
         /\ Published(s).detailId = s.detailId /\ Published(s).detail = s.detail
         /\ Published(s).detailLoading = s.detailLoading
<1>1. s.version \in Nat /\ s.version + 1 \in Nat /\ s.version + 1 >= s.version
  BY DEF ListStores
<1>2. Published(s) \in ListStores
  BY <1>1 DEF Published, ListStores
<1>3. Published(s).version = s.version + 1
  BY DEF Published, ListStores
<1>4. /\ Published(s).id = s.id /\ Published(s).rows = s.rows
      /\ Published(s).loading = s.loading /\ Published(s).append = s.append
      /\ Published(s).detailId = s.detailId /\ Published(s).detail = s.detail
      /\ Published(s).detailLoading = s.detailLoading
  BY DEF Published, ListStores
<1>5. QED
  BY <1>1, <1>2, <1>3, <1>4

\* What a query that is asked for changes in the store.
LEMMA RequestIs ==
  ASSUME PagingInv, NEW id \in 1..MaxQueries, NEW append \in BOOLEAN,
         store' = RequestQuery(id, append)
  PROVE  /\ store' \in ListStores /\ store'.version >= store.version
         /\ store' = store \/ store'.loading
         /\ store'.detailId = store.detailId /\ store'.detail = store.detail
         /\ store'.detailLoading = store.detailLoading
<1>1. store \in ListStores /\ id \in 0..MaxQueries
  BY WindowFacts
<1>2. CASE store' = store
  BY <1>1, <1>2 DEF ListStores
<1> DEFINE asking == [store EXCEPT !.id = id, !.loading = TRUE, !.append = append]
<1>3. CASE store' = Published(asking)
  <2>1. /\ asking \in ListStores /\ asking.loading /\ asking.version = store.version
        /\ asking.detailId = store.detailId /\ asking.detail = store.detail
        /\ asking.detailLoading = store.detailLoading
    BY <1>1 DEF ListStores
  <2> HIDE DEF asking
  <2>2. QED
    BY <1>3, <2>1, PublishedIs
<1>4. QED
  BY <1>2, <1>3 DEF RequestQuery

\* The worker keeps its job, and what waits are the jobs that waited and one that was asked for.
LEMMA JobsKeep ==
  ASSUME PagingInv, NEW job \in WindowJobs, AsksForMore(job, ToSet(more)'),
         \A i \in DOMAIN requests' :
           requests'[i] = job \/ \E j \in DOMAIN requests : requests'[i] = requests[j],
         ToSet(more) \subseteq ToSet(more)', UNCHANGED work
  PROVE  AppendsWhenAsked'
<1>1. /\ \A i \in DOMAIN requests : AsksForMore(requests[i], ToSet(more))
      /\ work # NoQuery => AsksForMore(work.job, ToSet(more))
  BY DEF PagingInv, AppendsWhenAsked
<1>2. work # NoQuery => AsksForMore(work.job, ToSet(more)')
  BY <1>1 DEF AsksForMore
<1>3. \A i \in DOMAIN requests' : AsksForMore(requests'[i], ToSet(more)')
  BY <1>1 DEF AsksForMore
<1>4. QED
  BY <1>2, <1>3 DEF AppendsWhenAsked

LEMMA OneFurther == \A last \in Nat : \A id \in 0..last : id < last => id + 1 \in 1..last
OBVIOUS

LEMMA PagingStep == PagingInv /\ [PagingNext]_pagingVars => PagingInv'
<1> SUFFICES ASSUME PagingInv, [PagingNext]_pagingVars PROVE PagingInv'
  OBVIOUS
<1>1. /\ listView \in ListViews /\ store \in ListStores /\ taken \in 0..store.version
      /\ visible \in BOOLEAN /\ requests \in Seq(WindowJobs) /\ work \in WindowWork
      /\ more \in Seq(1..MaxQueries) /\ (listView.total > 0 => listView.id > 0)
      /\ MaxQueries \in Nat /\ MaxDetails \in Nat /\ NoDetail = 0
  BY WindowFacts
<1>2. /\ AppendsWhenAsked /\ StoreIsOfQuery /\ RowsOfLastQuery /\ DetailOfOpened
  BY DEF PagingInv
<1>3. /\ store.version \in Nat /\ taken \in Nat /\ store.id \in 0..MaxQueries
      /\ listView.id \in 0..MaxQueries /\ listView.detailId \in 0..MaxDetails
      /\ listView.rows \in HistoryRows /\ listView.total \in Nat
  BY <1>1 DEF ListViews, ListStores
<1>4. CASE Search
  <2> DEFINE job == QueryJob(listView.id + 1, FALSE, 0)
  <2>1. /\ listView.id + 1 \in 1..MaxQueries
        /\ listView' = [listView EXCEPT !.id = @ + 1, !.loading = TRUE]
        /\ store' = RequestQuery(listView.id + 1, FALSE) /\ AskWorker(job) /\ visible' = TRUE
        /\ UNCHANGED <<taken, work, more>>
    <3>1. listView.id + 1 \in 1..MaxQueries
      <4>1. listView.id < MaxQueries
        BY <1>4 DEF Search
      <4>2. QED
        BY <1>1, <1>3, <4>1, OneFurther
    <3>2. QED
      BY <1>4, <3>1 DEF Search
  <2>2. job \in WindowJobs /\ AsksForMore(job, ToSet(more)')
    BY <2>1 DEF QueryJob, WindowJobs, QueryJobs, AsksForMore
  <2> HIDE DEF job
  <2>3. /\ store' \in ListStores /\ store'.version >= store.version
        /\ store' = store \/ store'.loading
        /\ store'.detailId = store.detailId /\ store'.detail = store.detail
        /\ store'.detailLoading = store.detailLoading
    BY <2>1, RequestIs
  <2>4. /\ listView' \in ListViews /\ listView'.loading /\ listView'.id > 0
        /\ listView'.detail = listView.detail /\ listView'.detailId = listView.detailId
    <3> DEFINE id == listView.id + 1
    <3>1. id \in 0..MaxQueries /\ id > 0
      BY <1>1, <2>1
    <3>2. listView' = [listView EXCEPT !.id = id, !.loading = TRUE]
      BY <2>1
    <3> HIDE DEF id
    <3>3. QED
      BY <1>1, <3>1, <3>2 DEF ListViews
  <2>5. requests' \in Seq(WindowJobs) /\ AppendsWhenAsked'
    <3>1. /\ requests' \in Seq(WindowJobs)
          /\ \A i \in DOMAIN requests' :
               requests'[i] = job \/ \E j \in DOMAIN requests : requests'[i] = requests[j]
      BY <2>1, <2>2, AskKeeps
    <3>2. ToSet(more) \subseteq ToSet(more)'
      BY <2>1
    <3>3. QED
      BY <2>1, <2>2, <3>1, <3>2, JobsKeep
  <2>6. store'.version \in Nat /\ taken \in 0..store'.version
    BY <1>1, <1>3, <2>3 DEF ListStores
  <2>7. PagingShape'
    BY <1>1, <2>1, <2>3, <2>4, <2>5, <2>6 DEF PagingShape
  <2>8. StoreIsOfQuery'
    BY <1>2, <2>1, <2>3 DEF StoreIsOfQuery, RowsAreOf
  <2>9. RowsOfLastQuery' /\ DetailOfOpened'
    BY <1>2, <2>4 DEF RowsOfLastQuery, DetailOfOpened
  <2>10. QED
    BY <2>5, <2>7, <2>8, <2>9 DEF PagingInv
<1>5. CASE LoadMore
  <2> DEFINE job == QueryJob(listView.id, TRUE, Len(listView.rows))
  <2>1. /\ HasMore /\ more' = Append(more, listView.id)
        /\ store' = RequestQuery(listView.id, TRUE) /\ AskWorker(job)
        /\ UNCHANGED <<listView, taken, visible, work>>
    BY <1>5 DEF LoadMore
  <2>2. listView.id \in 1..MaxQueries /\ Len(listView.rows) \in Nat
    <3>1. Len(listView.rows) \in Nat
      BY <1>3, LenProperties DEF HistoryRows
    <3>2. QED
      BY <1>1, <1>3, <2>1, <3>1 DEF HasMore, ListViews
  <2>3. more' \in Seq(1..MaxQueries) /\ ToSet(more)' = ToSet(more) \cup {listView.id}
    <3>1. /\ Append(more, listView.id) \in Seq(1..MaxQueries)
          /\ DOMAIN Append(more, listView.id) = 1..(Len(more) + 1)
          /\ Append(more, listView.id)[Len(more) + 1] = listView.id
          /\ \A i \in 1..Len(more) : Append(more, listView.id)[i] = more[i]
          /\ DOMAIN more = 1..Len(more) /\ Len(more) \in Nat
      BY <1>1, <2>2, AppendProperties, LenProperties
    <3>2. 1..(Len(more) + 1) = 1..Len(more) \cup {Len(more) + 1}
      BY <3>1
    <3>3. QED
      BY <2>1, <3>1, <3>2 DEF ToSet
  <2>4. job \in WindowJobs /\ AsksForMore(job, ToSet(more)')
    BY <2>2, <2>3 DEF QueryJob, WindowJobs, QueryJobs, AsksForMore
  <2> HIDE DEF job
  <2>5. /\ store' \in ListStores /\ store'.version >= store.version
        /\ store' = store \/ store'.loading
        /\ store'.detailId = store.detailId /\ store'.detail = store.detail
        /\ store'.detailLoading = store.detailLoading
    BY <2>1, <2>2, RequestIs
  <2>6. requests' \in Seq(WindowJobs) /\ AppendsWhenAsked'
    <3>1. /\ requests' \in Seq(WindowJobs)
          /\ \A i \in DOMAIN requests' :
               requests'[i] = job \/ \E j \in DOMAIN requests : requests'[i] = requests[j]
      BY <2>1, <2>4, AskKeeps
    <3>2. QED
      BY <2>1, <2>3, <2>4, <3>1, JobsKeep
  <2>7. store'.version \in Nat /\ taken \in 0..store'.version
    BY <1>1, <1>3, <2>5 DEF ListStores
  <2>8. PagingShape'
    BY <1>1, <2>1, <2>3, <2>5, <2>6, <2>7 DEF PagingShape
  <2>9. StoreIsOfQuery'
    BY <1>2, <2>3, <2>5 DEF StoreIsOfQuery, RowsAreOf
  <2>10. RowsOfLastQuery' /\ DetailOfOpened'
    BY <1>2, <2>1, <2>3 DEF RowsOfLastQuery, DetailOfOpened
  <2>11. QED
    BY <2>6, <2>8, <2>9, <2>10 DEF PagingInv
<1>6. CASE OpenDetail
  <2> DEFINE id == listView.detailId + 1
             job == DetailJob(id)
  <2>1. /\ id \in 1..MaxDetails /\ id \in 0..MaxDetails /\ NoDetail \in 0..MaxDetails
        /\ listView' = [listView EXCEPT !.detailId = id, !.detailOpen = TRUE,
                                        !.detailLoading = TRUE, !.detail = NoDetail]
        /\ UNCHANGED <<taken, visible, work, more>>
    <3>1. listView.detailId < MaxDetails
      BY <1>6 DEF OpenDetail
    <3>2. id \in 1..MaxDetails
      BY <1>1, <1>3, <3>1, OneFurther
    <3>3. id \in 0..MaxDetails /\ NoDetail \in 0..MaxDetails
      BY <1>1, <3>2
    <3>4. QED
      BY <1>6, <3>2, <3>3 DEF OpenDetail
  <2>2. /\ listView' \in ListViews /\ listView'.detailId = id /\ listView'.detail = NoDetail
        /\ listView'.id = listView.id /\ listView'.rows = listView.rows
        /\ listView'.total = listView.total /\ listView'.loading = listView.loading
    <3> HIDE DEF id
    <3>1. QED
      BY <1>1, <2>1 DEF ListViews
  <2>3. /\ AskWorker(job)
        /\ \/ store' = store
           \/ store' = Published([store EXCEPT !.detailId = id, !.detailLoading = TRUE])
    BY <1>6, <2>2 DEF OpenDetail
  <2>4. /\ job \in WindowJobs /\ AsksForMore(job, ToSet(more)')
    BY <2>1 DEF DetailJob, WindowJobs, DetailJobs, AsksForMore
  <2> HIDE DEF id, job
  <2>5. /\ store' \in ListStores /\ store'.version >= store.version
        /\ store' = store \/ store'.detailLoading
        /\ store'.id = store.id /\ store'.loading = store.loading /\ store'.rows = store.rows
        /\ store'.append = store.append
    <3>1. CASE store' = store
      BY <1>1, <3>1 DEF ListStores
    <3> DEFINE asking == [store EXCEPT !.detailId = id, !.detailLoading = TRUE]
    <3>2. CASE store' = Published(asking)
      <4>1. /\ asking \in ListStores /\ asking.version = store.version
            /\ asking.detailLoading /\ asking.id = store.id
            /\ asking.loading = store.loading /\ asking.rows = store.rows
            /\ asking.append = store.append
        BY <1>1, <2>1 DEF ListStores
      <4> HIDE DEF asking
      <4>2. QED
        BY <3>2, <4>1, PublishedIs
    <3>3. QED
      BY <2>3, <3>1, <3>2
  <2>6. requests' \in Seq(WindowJobs) /\ AppendsWhenAsked'
    <3>1. /\ requests' \in Seq(WindowJobs)
          /\ \A i \in DOMAIN requests' :
               requests'[i] = job \/ \E j \in DOMAIN requests : requests'[i] = requests[j]
      BY <2>3, <2>4, AskKeeps
    <3>2. ToSet(more) \subseteq ToSet(more)'
      BY <2>1
    <3>3. QED
      BY <2>1, <2>4, <3>1, <3>2, JobsKeep
  <2>7. store'.version \in Nat /\ taken \in 0..store'.version
    <3>1. store'.version \in Nat
      BY <2>5 DEF ListStores
    <3>2. QED
      BY <1>1, <1>3, <2>5, <3>1
  <2>8. PagingShape'
    BY <1>1, <2>1, <2>2, <2>5, <2>6, <2>7 DEF PagingShape
  <2>9. StoreIsOfQuery'
    BY <1>2, <2>1, <2>5 DEF StoreIsOfQuery, RowsAreOf
  <2>10. RowsOfLastQuery' /\ DetailOfOpened'
    BY <1>2, <2>1, <2>2 DEF RowsOfLastQuery, DetailOfOpened
  <2>11. QED
    BY <2>6, <2>8, <2>9, <2>10 DEF PagingInv
<1>7. CASE CloseWindow
  <2>1. /\ listView' = CloseDetail /\ visible' \in BOOLEAN
        /\ UNCHANGED <<store, taken, requests, work, more>>
    BY <1>7 DEF CloseWindow
  <2>2. /\ listView' \in ListViews /\ listView'.detail = NoDetail
        /\ listView'.id = listView.id /\ listView'.rows = listView.rows
        /\ listView'.total = listView.total /\ listView'.loading = listView.loading
    <3>1. NoDetail \in 0..MaxDetails
      BY <1>1
    <3>2. QED
      BY <1>1, <2>1, <3>1 DEF CloseDetail, ListViews
  <2>3. PagingShape'
    BY <1>1, <2>1, <2>2 DEF PagingShape
  <2>4. AppendsWhenAsked' /\ StoreIsOfQuery'
    BY <1>2, <2>1 DEF AppendsWhenAsked, AsksForMore, StoreIsOfQuery, RowsAreOf
  <2>5. RowsOfLastQuery' /\ DetailOfOpened'
    BY <1>2, <2>1, <2>2 DEF RowsOfLastQuery, DetailOfOpened
  <2>6. QED
    BY <2>3, <2>4, <2>5 DEF PagingInv
<1>8. CASE RefreshHistory
  <2>1. /\ taken' = store.version /\ listView' = WithDetail(WithRows)
        /\ UNCHANGED <<store, visible, requests, work, more>>
    BY <1>8 DEF RefreshHistory
  <2> DEFINE rowsTaken == WithRows
  <2>2. /\ rowsTaken \in ListViews /\ rowsTaken.id = listView.id
        /\ rowsTaken.detailId = listView.detailId /\ rowsTaken.detail = listView.detail
        /\ rowsTaken.total > 0 => rowsTaken.id > 0
        /\ ~rowsTaken.loading /\ rowsTaken.id \notin ToSet(more) =>
             RowsAreOf(rowsTaken.rows, rowsTaken.id)
    <3>1. CASE rowsTaken = listView
      BY <1>1, <1>2, <3>1 DEF RowsOfLastQuery, RowsAreOf
    <3>2. CASE /\ ~store.loading /\ store.id > 0 /\ store.id = listView.id
               /\ rowsTaken = [listView EXCEPT
                    !.rows = IF store.append THEN @ \o store.rows ELSE store.rows,
                    !.total = store.total, !.loading = FALSE]
      <4>1. store.rows \in HistoryRows /\ store.total \in Nat
        BY <1>1 DEF ListStores
      <4>2. listView.rows \o store.rows \in HistoryRows
        BY <1>3, <4>1, ConcatProperties DEF HistoryRows
      <4>3. /\ rowsTaken \in ListViews /\ rowsTaken.id = listView.id
            /\ rowsTaken.detailId = listView.detailId /\ rowsTaken.detail = listView.detail
            /\ ~store.append => rowsTaken.rows = store.rows
        BY <1>1, <3>2, <4>1, <4>2 DEF ListViews
      <4>4. QED
        BY <1>2, <3>2, <4>3 DEF StoreIsOfQuery
    <3>3. QED
      BY <3>1, <3>2 DEF WithRows, IsAsked
  <2> HIDE DEF rowsTaken
  <2>3. \/ listView' = rowsTaken
        \/ /\ ~store.detailLoading /\ store.detailId > 0 /\ store.detailId = listView.detailId
           /\ listView' = [rowsTaken EXCEPT !.detail = store.detail, !.detailLoading = FALSE]
    BY <2>1 DEF WithDetail, IsOpened, rowsTaken
  <2>4. /\ listView' \in ListViews /\ listView'.id = listView.id
        /\ listView'.total = rowsTaken.total /\ listView'.loading = rowsTaken.loading
        /\ listView'.rows = rowsTaken.rows
        /\ listView'.detail \in {NoDetail, listView'.detailId}
    <3>1. CASE listView' = rowsTaken
      BY <1>2, <2>2, <3>1 DEF DetailOfOpened
    <3>2. CASE /\ ~store.detailLoading /\ store.detailId > 0
               /\ store.detailId = listView.detailId
               /\ listView' = [rowsTaken EXCEPT !.detail = store.detail, !.detailLoading = FALSE]
      <4>1. store.detail = listView.detailId
        BY <1>2, <3>2 DEF StoreIsOfQuery
      <4>2. QED
        BY <1>3, <2>2, <3>2, <4>1 DEF ListViews
    <3>3. QED
      BY <2>3, <3>1, <3>2
  <2>5. PagingShape'
    BY <1>1, <1>3, <2>1, <2>2, <2>4 DEF PagingShape
  <2>6. AppendsWhenAsked' /\ StoreIsOfQuery'
    BY <1>2, <2>1 DEF AppendsWhenAsked, AsksForMore, StoreIsOfQuery, RowsAreOf
  <2>7. RowsOfLastQuery'
    BY <2>1, <2>2, <2>4 DEF RowsOfLastQuery, RowsAreOf
  <2>8. DetailOfOpened'
    BY <2>4 DEF DetailOfOpened
  <2>9. QED
    BY <2>5, <2>6, <2>7, <2>8 DEF PagingInv
<1>9. CASE TakeJob
  <2>1. /\ requests # <<>> /\ work' = [kind |-> "read", job |-> Head(requests)]
        /\ requests' = Tail(requests)
        /\ UNCHANGED <<listView, store, taken, visible, more>>
    BY <1>9 DEF TakeJob
  <2>2. /\ Head(requests) \in WindowJobs /\ Head(requests) = requests[1]
        /\ 1 \in DOMAIN requests /\ Tail(requests) \in Seq(WindowJobs)
        /\ \A i \in DOMAIN Tail(requests) :
             i + 1 \in DOMAIN requests /\ Tail(requests)[i] = requests[i + 1]
    <3>1. /\ Len(requests) \in Nat \ {0} /\ DOMAIN requests = 1..Len(requests)
          /\ Head(requests) \in WindowJobs /\ Head(requests) = requests[1]
          /\ Tail(requests) \in Seq(WindowJobs)
          /\ DOMAIN Tail(requests) = 1..(Len(requests) - 1)
          /\ \A i \in 1..(Len(requests) - 1) : Tail(requests)[i] = requests[i + 1]
      BY <1>1, <2>1, HeadTailProperties, LenProperties, EmptySeq
    <3>2. QED
      BY <3>1
  <2>3. work' \in WindowWork /\ work'.job = requests[1]
    BY <2>1, <2>2 DEF WindowWork
  <2>4. PagingShape'
    BY <1>1, <2>1, <2>2, <2>3 DEF PagingShape
  <2>5. AppendsWhenAsked'
    <3>1. \A i \in DOMAIN requests : AsksForMore(requests[i], ToSet(more))
      BY <1>2 DEF AppendsWhenAsked
    <3>2. \A i \in DOMAIN requests' : AsksForMore(requests'[i], ToSet(more))
      BY <2>1, <2>2, <3>1
    <3>3. AsksForMore(work'.job, ToSet(more))
      BY <2>2, <2>3, <3>1
    <3>4. QED
      BY <2>1, <3>2, <3>3 DEF AppendsWhenAsked
  <2>6. StoreIsOfQuery' /\ RowsOfLastQuery' /\ DetailOfOpened'
    BY <1>2, <2>1 DEF StoreIsOfQuery, RowsAreOf, RowsOfLastQuery, DetailOfOpened
  <2>7. QED
    BY <2>4, <2>5, <2>6 DEF PagingInv
<1>10. CASE CheckRequest
  <2>1. /\ work.kind = "read"
        /\ work' = NoQuery \/ work' = [work EXCEPT !.kind = "publish"]
        /\ UNCHANGED <<listView, store, taken, visible, requests, more>>
    BY <1>10 DEF CheckRequest
  <2>2. work # NoQuery /\ work \in [kind : {"read", "publish"}, job : WindowJobs]
    BY <1>1, <2>1 DEF WindowWork, NoQuery
  <2>3. work' = NoQuery \/ (work' \in [kind : {"read", "publish"}, job : WindowJobs]
                            /\ work'.job = work.job)
    BY <2>1, <2>2
  <2>4. PagingShape'
    BY <1>1, <2>1, <2>3 DEF PagingShape, WindowWork
  <2>5. AppendsWhenAsked'
    BY <1>2, <2>1, <2>2, <2>3 DEF AppendsWhenAsked, AsksForMore
  <2>6. StoreIsOfQuery' /\ RowsOfLastQuery' /\ DetailOfOpened'
    BY <1>2, <2>1 DEF StoreIsOfQuery, RowsAreOf, RowsOfLastQuery, DetailOfOpened
  <2>7. QED
    BY <2>4, <2>5, <2>6 DEF PagingInv
<1>11. CASE PublishJob
  <2> DEFINE job == work.job
             page == Page(job.id, job.offset)
             answered == [store EXCEPT !.id = job.id, !.loading = FALSE, !.append = job.append,
                                       !.total = TotalRows,
                                       !.rows = IF job.append THEN @ \o page ELSE page]
             matched == [store EXCEPT !.detailId = job.id, !.detailLoading = FALSE,
                                     !.detail = job.id]
  <2>1. /\ work.kind = "publish" /\ work' = NoQuery
        /\ store' = Published(IF job.kind = "query" THEN answered ELSE matched)
        /\ UNCHANGED <<listView, taken, visible, requests, more>>
    BY <1>11 DEF PublishJob, PublishedResult
  <2>2. work # NoQuery /\ job \in WindowJobs /\ AsksForMore(job, ToSet(more))
    BY <1>1, <1>2, <2>1 DEF WindowWork, NoQuery, AppendsWhenAsked
  <2>3. /\ store' \in ListStores /\ store'.version >= store.version /\ StoreIsOfQuery'
    <3>1. CASE job \in QueryJobs
      <4> HIDE DEF job
      <4>1. /\ job.kind = "query" /\ job.id \in 1..MaxQueries /\ job.append \in BOOLEAN
            /\ job.offset \in Nat
        BY <3>1 DEF QueryJobs
      <4>2. page \in HistoryRows /\ RowsAreOf(page, job.id)
        BY <4>1, PageIsOfQuery
      <4>3. store.rows \in HistoryRows /\ TotalRows \in Nat
        BY <1>1, HistoryPagingAssumption DEF ListStores
      <4> HIDE DEF page
      <4>4. store.rows \o page \in HistoryRows
        BY <4>2, <4>3, ConcatProperties DEF HistoryRows
      <4>5. store' = Published(answered)
        BY <2>1, <4>1
      <4>6. /\ store' \in ListStores /\ store'.version >= store.version
            /\ store'.id = job.id /\ store'.append = job.append
            /\ ~job.append => store'.rows = page
            /\ store'.detailId = store.detailId /\ store'.detail = store.detail
            /\ store'.detailLoading = store.detailLoading
        <5>1. job.id \in 0..MaxQueries
          BY <1>1, <4>1
        <5> DEFINE rowsGiven == IF job.append THEN store.rows \o page ELSE page
        <5>2. rowsGiven \in HistoryRows /\ (~job.append => rowsGiven = page)
          BY <4>2, <4>4
        <5>3. answered = [store EXCEPT !.id = job.id, !.loading = FALSE, !.append = job.append,
                                       !.total = TotalRows, !.rows = rowsGiven]
          OBVIOUS
        <5> HIDE DEF rowsGiven
        <5>4. answered \in ListStores
          BY <1>1, <4>1, <4>3, <5>1, <5>2, <5>3 DEF ListStores
        <5>5. /\ answered.version = store.version /\ answered.id = job.id
              /\ answered.append = job.append /\ answered.rows = rowsGiven
              /\ answered.detailId = store.detailId /\ answered.detail = store.detail
              /\ answered.detailLoading = store.detailLoading
          BY <1>1, <5>3 DEF ListStores
        <5> HIDE DEF answered
        <5>6. QED
          BY <4>5, <5>2, <5>4, <5>5, PublishedIs
      <4>7. job.append => job.id \in ToSet(more)
        BY <2>2, <4>1 DEF AsksForMore
      <4>8. QED
        BY <1>2, <2>1, <4>2, <4>6, <4>7 DEF StoreIsOfQuery, RowsAreOf
    <3>2. CASE job \in DetailJobs
      <4> HIDE DEF job
      <4>1. job.kind # "query" /\ job.id \in 1..MaxDetails
        BY <3>2 DEF DetailJobs
      <4>2. store' = Published(matched)
        BY <2>1, <4>1
      <4>3. /\ store' \in ListStores /\ store'.version >= store.version
            /\ store'.id = store.id /\ store'.append = store.append /\ store'.rows = store.rows
            /\ store'.loading = store.loading
            /\ store'.detailId = job.id /\ store'.detail = job.id
        <5>1. job.id \in 0..MaxDetails
          BY <1>1, <4>1
        <5>2. matched \in ListStores
          BY <1>1, <5>1 DEF ListStores
        <5>3. /\ matched.version = store.version /\ matched.id = store.id
              /\ matched.append = store.append /\ matched.rows = store.rows
              /\ matched.loading = store.loading
              /\ matched.detailId = job.id /\ matched.detail = job.id
          BY <1>1 DEF ListStores
        <5> HIDE DEF matched
        <5>4. QED
          BY <4>2, <5>2, <5>3, PublishedIs
      <4>4. QED
        BY <1>2, <2>1, <4>3 DEF StoreIsOfQuery, RowsAreOf
    <3>3. QED
      BY <2>2, <3>1, <3>2 DEF WindowJobs
  <2>4. store'.version \in Nat /\ taken \in 0..store'.version
    BY <1>1, <1>3, <2>3 DEF ListStores
  <2>5. PagingShape'
    BY <1>1, <2>1, <2>3, <2>4 DEF PagingShape, WindowWork
  <2>6. AppendsWhenAsked' /\ RowsOfLastQuery' /\ DetailOfOpened'
    BY <1>2, <2>1 DEF AppendsWhenAsked, AsksForMore, RowsOfLastQuery, DetailOfOpened
  <2>7. QED
    BY <2>3, <2>5, <2>6 DEF PagingInv
<1>12. CASE UNCHANGED pagingVars
  <2>1. PagingShape'
    BY <1>1, <1>12 DEF PagingShape, pagingVars
  <2>2. AppendsWhenAsked' /\ StoreIsOfQuery'
    BY <1>2, <1>12 DEF AppendsWhenAsked, AsksForMore, StoreIsOfQuery, RowsAreOf, pagingVars
  <2>3. RowsOfLastQuery' /\ DetailOfOpened'
    BY <1>2, <1>12 DEF RowsOfLastQuery, DetailOfOpened, pagingVars
  <2>4. QED
    BY <2>1, <2>2, <2>3 DEF PagingInv
<1>13. QED
  BY <1>4, <1>5, <1>6, <1>7, <1>8, <1>9, <1>10, <1>11, <1>12 DEF PagingNext, WorkerWorks

LEMMA PagingIsTyped == PagingInv => PagingTypeOK
<1> SUFFICES ASSUME PagingInv PROVE PagingTypeOK
  OBVIOUS
<1>1. /\ listView \in ListViews /\ store \in ListStores /\ taken \in 0..store.version
      /\ visible \in BOOLEAN /\ more \in Seq(1..MaxQueries)
  BY WindowFacts
<1>2. QED
  BY <1>1 DEF PagingTypeOK, ListViews, ListStores, HistoryRows

LEMMA PartHasDatabase ==
  /\ PartInit => DbInit
  /\ [PartNext]_allVars => [DbNext]_dbVars
<1>1. PartInit => DbInit
  BY DEF PartInit
<1>2. [PartNext]_allVars => [DbNext]_dbVars
  BY ZenonT(60) DEF PartNext, allVars, firstVars, InWorkQueue, InReaders, InDatabase, InSessions,
         InMatches, InMigrations, InPaging, InReplays, InAccount, InUpdateCheck, InUpdate,
         InHotkeys, InOverlay, InConfig, InTelemetry, InRemote, InTournaments
<1>3. QED
  BY <1>1, <1>2

LEMMA PartHasPaging ==
  /\ PartInit => PagingInit
  /\ [PartNext]_allVars => [PagingNext]_pagingVars
<1>1. PartInit => PagingInit
  BY DEF PartInit
<1>2. [PartNext]_allVars => [PagingNext]_pagingVars
  BY ZenonT(60) DEF PartNext, allVars, secondVars, InWorkQueue, InReaders, InDatabase, InSessions,
         InMatches, InMigrations, InPaging, InReplays, InAccount, InUpdateCheck, InUpdate,
         InHotkeys, InOverlay, InConfig, InTelemetry, InRemote, InTournaments
<1>3. QED
  BY <1>1, <1>2

\* A refresh of a figure is turned away only while one with its key waits or runs, nothing shown is
\* out of date when the queue is empty unless it was told that it is missing; and the history
\* window shows the rows of the last query and the details of the match opened last, whatever the
\* worker publishes late (DatabaseManager, HistoryView).
THEOREM QueriesStayCurrent == PartSpec => []QueriesAreCurrent
<1>1. DbInv /\ PagingInv => QueriesAreCurrent
  BY DbIsCurrent, PagingIsTyped DEF QueriesAreCurrent, PagingInv
<1>2. PartSpec => []DbInv
  BY DbInitially, DbStep, PartHasDatabase, PTL DEF PartSpec
<1>3. PartSpec => []PagingInv
  BY PagingInitially, PagingStep, PartHasPaging, PTL DEF PartSpec
<1>4. QED
  BY <1>1, <1>2, <1>3, PTL

\* The jobs of either class that the database's queue accepted run once each, in the order in
\* which they were accepted, all of them before the destructor returns, and none is accepted after
\* that, whatever the others overtake and however full the queue is (DatabaseManager::EnqueueDbJob
\* and its worker).
THEOREM RunInOrderHolds == PartSpec => RunInOrder
<1>1. DbInit => CriticalFifo!FifoInit /\ OtherFifo!FifoInit
  BY DEF DbInit, NoneYet, CriticalFifo!FifoInit, OtherFifo!FifoInit
<1>2. QED
  BY <1>1, OrderInitially, OrderStep, ClassStep, PartHasDatabase, PTL
     DEF PartSpec, RunInOrder, CriticalFifo!FifoSafety, OtherFifo!FifoSafety

\* The whole of what no step may do out of order: both queues keep to FifoRun, an outdated refresh
\* of a session writes nothing, and a key that is being bound acts on nothing.
THEOREM OrderIsKeptHolds == PartSpec => OrderIsKept
BY PartHasWorkQueue, WorkImplementsFifo, RunInOrderHolds, OldRefreshKeepsOut,
   CaptureActsOnNothing, BoundPressActsOnNothing, PTL DEF OrderIsKept
=============================================================================
