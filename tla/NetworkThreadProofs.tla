------------------------ MODULE NetworkThreadProofs -------------------------
(***************************************************************************)
(* Proofs about NetworkThread, for any set of request types and nodes and  *)
(* any number of requests and resets.                                      *)
(***************************************************************************)
EXTENDS NetworkThread, SequenceTheorems, TLAPS

TypeInv == TypeOK /\ HandlersWellFormed

\* A task appended to the queue leaves the others where they are.
LEMMA AppendFacts ==
    ASSUME NEW S, NEW q \in Seq(S), NEW e \in S
    PROVE  /\ Append(q, e) \in Seq(S)
           /\ Len(Append(q, e)) = Len(q) + 1
           /\ DOMAIN Append(q, e) = 1..(Len(q) + 1)
           /\ DOMAIN q = 1..Len(q)
           /\ \A i \in DOMAIN q : i \in DOMAIN Append(q, e) /\ Append(q, e)[i] = q[i]
           /\ Append(q, e)[Len(q) + 1] = e
  OBVIOUS

\* Taking the head of the queue moves the others forward by one.
LEMMA TailFacts ==
    ASSUME NEW S, NEW q \in Seq(S), q # <<>>
    PROVE  /\ Head(q) \in S
           /\ Head(q) = q[1]
           /\ 1 \in DOMAIN q
           /\ Tail(q) \in Seq(S)
           /\ \A i \in DOMAIN Tail(q) : i + 1 \in DOMAIN q /\ Tail(q)[i] = q[i + 1]
           /\ \A i \in DOMAIN q : i # 1 => i - 1 \in DOMAIN Tail(q) /\ Tail(q)[i - 1] = q[i]
  OBVIOUS

\* An idle network thread is a state of the network thread.
LEMMA NetIdleType == NetIdle \in NetStates /\ NetIdle.pc = "idle"
  BY ConstantsAssumption DEF NetIdle, NetStates, NetSteps, NoTask, Tasks, NoContext, Statuses

\* Initially the variables have their types and no handler is under way.
LEMMA TypeInvInit == Init => TypeInv
  BY ConstantsAssumption, NetIdleType
     DEF Init, Load, TypeInv, TypeOK, HandlersWellFormed, Idle, UISteps, RpcSteps, ResetSteps,
         Requests, Contexts, NoContext

\* Every step of the UI thread keeps the types and the shape of the handlers.
LEMMA TypeInvUI == TypeInv /\ UINext => TypeInv'
  <1> SUFFICES ASSUME TypeInv, UINext PROVE TypeInv'
    OBVIOUS
  <1> USE ConstantsAssumption
  <1>1. ASSUME NEW t \in Types, Duplicated(t) PROVE TypeInv'
    BY <1>1 DEF Duplicated, vars, TypeInv, TypeOK, HandlersWellFormed, WellFormed
  <1>2. ASSUME NEW t \in Types, CallRpc(t) PROVE TypeInv'
    BY <1>2 DEF CallRpc, uiOnly, Idle, NoContext, UISteps, TypeInv, TypeOK,
                HandlersWellFormed, WellFormed
  <1>3. CASE GetLast
    BY <1>3 DEF GetLast, GetRequestContext, uiOnly, UISteps, TypeInv, TypeOK,
                HandlersWellFormed, WellFormed
  <1>4. CASE TryCancelLast
    BY <1>4 DEF TryCancelLast, uiOnly, UISteps, TypeInv, TypeOK, HandlersWellFormed,
                WellFormed
  <1>5. CASE Lookup
    BY <1>5 DEF Lookup, GetRequestContext, Idle, NoContext, uiOnly, UISteps, TypeInv,
                TypeOK, HandlersWellFormed, WellFormed
  <1>6. CASE Register
    <2>1. issued' \in Requests /\ <<issued', 1>> \in Contexts
      BY <1>6 DEF Register, Requests, Contexts, TypeInv, TypeOK, HandlersWellFormed
    <2>2. requestContextPool' \in [Types -> Contexts \cup {NoContext}]
      BY <1>6, <2>1 DEF Register, RegisterRequestContext, TypeInv, TypeOK
    <2>3. issued' \in 0..MaxRequests
      BY <2>1 DEF Requests
    <2>4. ui' \in [pc : UISteps, type : Types \cup {RequestCount},
                   context : Contexts \cup {NoContext}]
      <3>1. ui' = [ui EXCEPT !.pc = "setLast", !.context = <<issued', 1>>]
        BY <1>6 DEF Register
      <3> QED
        BY <3>1, <2>1 DEF UISteps, TypeInv, TypeOK
    <2>5. TypeOK'
      BY <1>6, <2>3, <2>4, <2>2 DEF Register, uiOnly, TypeInv, TypeOK
    <2>6. /\ ui'.pc = "setLast" /\ ui'.context = <<issued', 1>> /\ ui'.type \in Types
          /\ UNCHANGED <<net, tasks>>
      BY <1>6 DEF Register, uiOnly, UISteps, TypeInv, TypeOK, HandlersWellFormed
    <2>7. HandlersWellFormed'
      BY <2>1, <2>6 DEF TypeInv, HandlersWellFormed, WellFormed
    <2> QED
      BY <2>5, <2>7 DEF TypeInv
  <1>7. CASE SetLast
    BY <1>7 DEF SetLast, uiOnly, UISteps, TypeInv, TypeOK, HandlersWellFormed, WellFormed
  <1>8. CASE PostRpc
    <2> DEFINE e == [kind |-> "rpc", type |-> ui.type, request |-> ui.context[1],
                     full |-> configured.full, solidity |-> configured.solidity]
    <2>1. e \in Tasks /\ WellFormed(e) /\ tasks' = Append(tasks, e)
      BY <1>8 DEF PostRpc, PostTask, Tasks, WellFormed, Requests, TypeInv, TypeOK,
                  HandlersWellFormed
    <2> HIDE DEF e
    <2>2. tasks' \in Seq(Tasks) /\ \A i \in DOMAIN tasks' : WellFormed(tasks'[i])
      BY <2>1, AppendFacts DEF TypeInv, TypeOK, HandlersWellFormed
    <2> QED
      BY <1>8, <2>2 DEF PostRpc, Idle, NoContext, uiOnly, UISteps, TypeInv, TypeOK,
                        HandlersWellFormed, WellFormed
  <1>9. CASE PostLocal
    <2> DEFINE e == [kind |-> "local", type |-> RequestCount, request |-> issued + 1,
                     full |-> configured.full, solidity |-> configured.solidity]
    <2>1. e \in Tasks /\ WellFormed(e) /\ tasks' = Append(tasks, e)
      BY <1>9 DEF PostLocal, PostTask, Tasks, WellFormed, Requests, TypeInv, TypeOK
    <2> HIDE DEF e
    <2>2. tasks' \in Seq(Tasks) /\ \A i \in DOMAIN tasks' : WellFormed(tasks'[i])
      BY <2>1, AppendFacts DEF TypeInv, TypeOK, HandlersWellFormed
    <2> QED
      BY <1>9, <2>2 DEF PostLocal, uiOnly, TypeInv, TypeOK, HandlersWellFormed, WellFormed
  <1>10. ASSUME NEW f \in Addresses \cup {NoAddress}, NEW s \in Addresses \cup {NoAddress},
                ReSetSub(f, s)
         PROVE  TypeInv'
    <2> DEFINE e == [kind |-> "reset", type |-> RequestCount, request |-> issued,
                     full |-> f, solidity |-> s]
    <2>1. e \in Tasks /\ WellFormed(e) /\ tasks' = Append(tasks, e)
      BY <1>10 DEF ReSetSub, PostTask, Tasks, WellFormed, TypeInv, TypeOK
    <2> HIDE DEF e
    <2>2. tasks' \in Seq(Tasks) /\ \A i \in DOMAIN tasks' : WellFormed(tasks'[i])
      BY <2>1, AppendFacts DEF TypeInv, TypeOK, HandlersWellFormed
    <2>3. configured' \in [full : Addresses, solidity : Addresses]
      BY <1>10 DEF ReSetSub, TypeInv, TypeOK
    <2> QED
      BY <1>10, <2>2, <2>3 DEF ReSetSub, TypeInv, TypeOK, HandlersWellFormed, WellFormed
  <1>11. CASE OnNetCallback
    <2> DEFINE M == [request : Requests, result : Results]
    <2>1. Head(messages) \in M /\ Tail(messages) \in Seq(M)
      BY <1>11, TailFacts DEF OnNetCallback, TypeInv, TypeOK
    <2>2. messages' \in Seq(M) /\ answered' \in 0..MaxRequests
      BY <1>11, <2>1 DEF OnNetCallback, Requests
    <2> QED
      BY <1>11, <2>2 DEF OnNetCallback, TypeInv, TypeOK, HandlersWellFormed, WellFormed
  <1> QED
    BY <1>1, <1>2, <1>3, <1>4, <1>5, <1>6, <1>7, <1>8, <1>9, <1>10, <1>11 DEF UINext

\* Every step of the network thread keeps the types and the shape of the handlers.
LEMMA TypeInvNet == TypeInv /\ NetNext => TypeInv'
  <1> SUFFICES ASSUME TypeInv, NetNext PROVE TypeInv'
    OBVIOUS
  <1> USE ConstantsAssumption
  <1> USE DEF RpcSteps, ResetSteps, NetSteps, Statuses
  <1>1. CASE TakeTask
    <2>1. /\ Head(tasks) \in Tasks /\ WellFormed(Head(tasks))
          /\ tasks' \in Seq(Tasks) /\ \A i \in DOMAIN tasks' : WellFormed(tasks'[i])
      BY <1>1, TailFacts DEF TakeTask, TypeInv, TypeOK, HandlersWellFormed
    <2>2. Head(tasks).kind \in {"rpc", "local", "reset"} /\ Head(tasks).request \in 0..MaxRequests
      BY <2>1 DEF Tasks
    <2> QED
      BY <1>1, <2>1, <2>2 DEF TakeTask, FirstStep, NetStates, netOnly, TypeInv, TypeOK, HandlersWellFormed
  <1>2. ASSUME NEW status \in Statuses, RpcReturns(status) PROVE TypeInv'
    BY <1>2, ZenonT(60) DEF RpcReturns, NetStates, netOnly, TypeInv, TypeOK, HandlersWellFormed, WellFormed
  <1>3. CASE Unregister
    BY <1>3, ZenonT(60) DEF Unregister, UnregiesterRequestContext, NetStates, netOnly, TypeInv, TypeOK,
                HandlersWellFormed, WellFormed
  <1>4. CASE RegisterAgain
    <2>1. <<net.task.request, 2>> \in Contexts
      BY <1>4 DEF RegisterAgain, Contexts, TypeInv, HandlersWellFormed, WellFormed
    <2>2. requestContextPool' \in [Types -> Contexts \cup {NoContext}]
      BY <1>4, <2>1 DEF RegisterAgain, RegisterRequestContext, TypeInv, TypeOK
    <2>3. net' \in NetStates
      <3>1. <<net.task.request, 2>> \in (0..MaxRequests) \X {0, 1, 2}
        BY <2>1 DEF Contexts, Requests
      <3> QED
        BY <1>4, <3>1 DEF RegisterAgain, NetStates, TypeInv, TypeOK
    <2>4. TypeOK'
      BY <1>4, <2>2, <2>3 DEF RegisterAgain, netOnly, TypeInv, TypeOK
    <2>5. /\ net'.pc = "rpcAgain" /\ net'.task = net.task
          /\ net'.context = <<net.task.request, 2>>
          /\ net.pc = "registerAgain" /\ UNCHANGED <<ui, issued, tasks>>
      BY <1>4 DEF RegisterAgain, NetStates, netOnly, TypeInv, TypeOK
    <2>6. HandlersWellFormed'
      BY <2>5 DEF TypeInv, HandlersWellFormed, WellFormed
    <2> QED
      BY <2>4, <2>6 DEF TypeInv
  <1>5. ASSUME NEW r \in Results, net.pc # "idle", net.task.kind # "reset", InvokeCallback(r)
        PROVE  messages' \in Seq([request : Requests, result : Results])
    BY <1>5, AppendFacts DEF InvokeCallback, TypeInv, TypeOK, HandlersWellFormed, WellFormed
  <1>6. CASE RpcCallback
    <2>1. messages' \in Seq([request : Requests, result : Results])
      BY <1>5, <1>6 DEF RpcCallback, Results, TypeInv, HandlersWellFormed
    <2> QED
      BY <1>6, <2>1 DEF RpcCallback, NetStates, netOnly, TypeInv, TypeOK, HandlersWellFormed,
                        WellFormed
  <1>7. CASE LocalCallback
    <2>1. messages' \in Seq([request : Requests, result : Results])
      BY <1>5, <1>7 DEF LocalCallback, Results, TypeInv, HandlersWellFormed
    <2> QED
      BY <1>7, <2>1, NetIdleType DEF LocalCallback, netOnly, TypeInv, TypeOK,
                                     HandlersWellFormed, WellFormed
  <1>8. CASE ResetLast
    BY <1>8, NetIdleType DEF ResetLast, netOnly, TypeInv, TypeOK, HandlersWellFormed, WellFormed
  <1>9. CancelAll => cancelled' \in SUBSET Contexts
    BY DEF CancelAll, TypeInv, TypeOK
  <1>10. CASE CancelFull
    <2>1. cancelled' \in SUBSET Contexts
      BY <1>9, <1>10 DEF CancelFull, TypeInv, TypeOK
    <2>2. /\ net' \in NetStates /\ net.pc = "cancelFull" /\ net'.task = net.task
          /\ \/ net'.pc = "cancelSolidity"
             \/ net'.pc = "switchFull" /\ net.task.full \in Addresses
      BY <1>10, ZenonT(60) DEF CancelFull, NetStates, Tasks, TypeInv, TypeOK
    <2>3. TypeOK'
      BY <1>10, <2>1, <2>2 DEF CancelFull, netOnly, TypeInv, TypeOK
    <2>4. HandlersWellFormed'
      BY <1>10, <2>2 DEF CancelFull, netOnly, TypeInv, HandlersWellFormed, WellFormed
    <2> QED
      BY <2>3, <2>4 DEF TypeInv
  <1>11. CASE CancelSolidity
    <2>1. cancelled' \in SUBSET Contexts
      BY <1>9, <1>11 DEF CancelSolidity, TypeInv, TypeOK
    <2>2. /\ net' \in NetStates /\ net.pc = "cancelSolidity"
          /\ \/ net'.pc = "idle"
             \/ /\ net'.pc = "switchSolidity" /\ net'.task = net.task
                /\ net.task.solidity \in Addresses
      BY <1>11, NetIdleType, SMTT(60) DEF CancelSolidity, NetStates, Tasks, TypeInv, TypeOK
    <2>3. TypeOK'
      BY <1>11, <2>1, <2>2 DEF CancelSolidity, netOnly, TypeInv, TypeOK
    <2>4. HandlersWellFormed'
      BY <1>11, <2>2 DEF CancelSolidity, netOnly, TypeInv, HandlersWellFormed, WellFormed
    <2> QED
      BY <2>3, <2>4 DEF TypeInv
  <1>12. EraseAll => requestContextPool' \in [Types -> Contexts \cup {NoContext}]
    BY DEF EraseAll
  <1>13. CASE SwitchFull
    BY <1>12, <1>13 DEF SwitchFull, CreateFullStub, NetStates, netOnly, TypeInv, TypeOK, HandlersWellFormed,
                        WellFormed
  <1>14. CASE SwitchSolidity
    BY <1>12, <1>14, NetIdleType DEF SwitchSolidity, CreateSolidutyStub, netOnly, TypeInv, TypeOK,
                                     HandlersWellFormed, WellFormed
  <1> QED
    BY <1>1, <1>2, <1>3, <1>4, <1>6, <1>7, <1>8, <1>10, <1>11, <1>13, <1>14 DEF NetNext

\* The variables of the network thread always have their types, and where a
\* thread is tells what it is working on.
LEMMA TypeInvAlways == Spec => []TypeInv
  <1>1. TypeInv /\ UNCHANGED vars => TypeInv'
    BY DEF vars, TypeInv, TypeOK, HandlersWellFormed, WellFormed
  <1> QED
    BY <1>1, TypeInvInit, TypeInvUI, TypeInvNet, PTL DEF Spec, Next

\* The variables that the two threads share always have their types: the pool
\* holds contexts of accepted requests, and only such contexts are cancelled.
THEOREM TypeCorrect == Spec => []TypeOK
  <1>1. TypeInv => TypeOK
    BY DEF TypeInv
  <1> QED
    BY <1>1, TypeInvAlways, PTL

-----------------------------------------------------------------------------
(* The pool and lastCallType_ hold no stale marks.                          *)

Live == PoolHoldsLiveContexts

\* A handler that is queued stays queued when another one is posted.
LEMMA OwnedAfterPost ==
    ASSUME TypeInv, NEW e \in Tasks, tasks' = Append(tasks, e), UNCHANGED net,
           NEW t \in Types, NEW c, Owned(t, c),
           BeingPosted(t) /\ ui.context = c => Owned(t, c)'
    PROVE  Owned(t, c)'
  BY AppendFacts DEF Owned, TypeInv, TypeOK

\* The UI thread keeps every context of the pool owned.
LEMMA LiveUI == TypeInv /\ Live /\ UINext => Live'
  <1> SUFFICES ASSUME TypeInv, Live, UINext PROVE Live'
    OBVIOUS
  <1> USE ConstantsAssumption
  <1> USE DEF Live, PoolHoldsLiveContexts
  <1>1. ASSUME NEW t \in Types, Duplicated(t) PROVE Live'
    BY <1>1 DEF Duplicated, vars, Owned, BeingPosted
  <1>2. ASSUME NEW t \in Types, CallRpc(t) PROVE Live'
    BY <1>2 DEF CallRpc, uiOnly, Owned, BeingPosted
  <1>3. CASE GetLast
    BY <1>3 DEF GetLast, uiOnly, Owned, BeingPosted
  <1>4. CASE TryCancelLast
    BY <1>4 DEF TryCancelLast, uiOnly, Owned, BeingPosted
  <1>5. CASE Lookup
    BY <1>5 DEF Lookup, uiOnly, Owned, BeingPosted
  <1>6. CASE Register
    <2>1. /\ ui.pc = "register" /\ ui'.pc = "setLast" /\ ui'.type = ui.type /\ ui.type \in Types
          /\ ui'.context = <<issued + 1, 1>> /\ UNCHANGED <<tasks, net>>
      BY <1>6 DEF Register, uiOnly, TypeInv, TypeOK, HandlersWellFormed
    <2>2. ASSUME NEW t \in Types, requestContextPool'[t] # NoContext
          PROVE  \/ requestContextPool'[t] = requestContextPool[t]
                 \/ t = ui.type /\ requestContextPool'[t] = <<issued + 1, 1>>
      BY <1>6 DEF Register, RegisterRequestContext, TypeInv, TypeOK
    <2> QED
      BY <2>1, <2>2 DEF Owned, BeingPosted
  <1>7. CASE SetLast
    BY <1>7 DEF SetLast, uiOnly, Owned, BeingPosted, TypeInv, TypeOK
  <1>8. CASE PostRpc
    <2> DEFINE e == [kind |-> "rpc", type |-> ui.type, request |-> ui.context[1],
                     full |-> configured.full, solidity |-> configured.solidity]
    <2>1. /\ e \in Tasks /\ tasks' = Append(tasks, e) /\ UNCHANGED <<net, requestContextPool>>
          /\ ui.context = <<e.request, 1>>
      BY <1>8 DEF PostRpc, PostTask, uiOnly, Tasks, Requests, TypeInv, TypeOK, HandlersWellFormed
    <2>2. e.kind = "rpc" /\ e.type = ui.type
      OBVIOUS
    <2> HIDE DEF e
    <2>3. ASSUME NEW t \in Types, NEW c, BeingPosted(t) /\ ui.context = c PROVE Owned(t, c)'
      <3>1. Len(tasks) + 1 \in DOMAIN tasks' /\ tasks'[Len(tasks) + 1] = e
        BY <2>1, AppendFacts DEF TypeInv, TypeOK
      <3> QED
        BY <2>1, <2>2, <2>3, <3>1, ZenonT(60) DEF Owned, BeingPosted
    <2> QED
      BY <2>1, <2>3, OwnedAfterPost
  <1>9. CASE PostLocal
    <2>1. PICK e \in Tasks : tasks' = Append(tasks, e)
      <3>1. issued + 1 \in 0..MaxRequests
        BY <1>9 DEF PostLocal, TypeInv, TypeOK
      <3> QED
        BY <1>9, <3>1 DEF PostLocal, PostTask, Tasks, TypeInv, TypeOK
    <2>2. ui.pc = "idle" /\ UNCHANGED <<ui, net, requestContextPool>>
      BY <1>9 DEF PostLocal, uiOnly
    <2> QED
      BY <2>1, <2>2, OwnedAfterPost DEF BeingPosted
  <1>10. ASSUME NEW f \in Addresses \cup {NoAddress}, NEW s \in Addresses \cup {NoAddress},
                ReSetSub(f, s)
         PROVE  Live'
    <2>1. PICK e \in Tasks : tasks' = Append(tasks, e)
      BY <1>10 DEF ReSetSub, PostTask, Tasks, TypeInv, TypeOK
    <2>2. ui.pc = "idle" /\ UNCHANGED <<ui, net, requestContextPool>>
      BY <1>10 DEF ReSetSub
    <2> QED
      BY <2>1, <2>2, OwnedAfterPost DEF BeingPosted
  <1>11. CASE OnNetCallback
    BY <1>11 DEF OnNetCallback, Owned, BeingPosted
  <1> QED
    BY <1>1, <1>2, <1>3, <1>4, <1>5, <1>6, <1>7, <1>8, <1>9, <1>10, <1>11 DEF UINext

\* The network thread keeps every context of the pool owned.
LEMMA LiveNet == TypeInv /\ Live /\ NetNext => Live'
  <1> SUFFICES ASSUME TypeInv, Live, NetNext PROVE Live'
    OBVIOUS
  <1> USE ConstantsAssumption
  <1> USE DEF Live, PoolHoldsLiveContexts
  <1>1. CASE TakeTask
    <2>1. /\ net.pc = "idle" /\ tasks # <<>> /\ tasks' = Tail(tasks)
          /\ net'.task = Head(tasks) /\ net'.context = <<Head(tasks).request, 1>>
          /\ Head(tasks).kind = "rpc" => net'.pc = "rpc"
          /\ UNCHANGED <<ui, requestContextPool>>
      BY <1>1 DEF TakeTask, FirstStep, netOnly
    <2> SUFFICES ASSUME NEW t \in Types, NEW c, Owned(t, c) PROVE Owned(t, c)'
      BY <2>1
    <2>2. CASE BeingPosted(t) /\ ui.context = c
      BY <2>1, <2>2 DEF Owned, BeingPosted
    <2>3. ASSUME NEW i \in DOMAIN tasks, tasks[i].kind = "rpc", tasks[i].type = t,
                 c = <<tasks[i].request, 1>>
          PROVE  Owned(t, c)'
      <3>1. CASE i = 1
        BY <2>1, <2>3, <3>1, TailFacts DEF Owned, TypeInv, TypeOK
      <3>2. CASE i # 1
        <4>1. i - 1 \in DOMAIN tasks' /\ tasks'[i - 1] = tasks[i]
          BY <2>1, <3>2, TailFacts DEF TypeInv, TypeOK
        <4> QED
          BY <2>3, <4>1 DEF Owned
      <3> QED
        BY <3>1, <3>2
    <2> QED
      BY <2>1, <2>2, <2>3 DEF Owned
  <1>2. ASSUME NEW status \in Statuses, RpcReturns(status) PROVE Live'
    BY <1>2 DEF RpcReturns, netOnly, Owned, BeingPosted, NetStates, TypeInv, TypeOK
  <1>3. CASE Unregister
    BY <1>3 DEF Unregister, UnregiesterRequestContext, netOnly, Owned, BeingPosted, NetStates,
                TypeInv, TypeOK
  <1>4. CASE RegisterAgain
    <2>1. /\ net.pc = "registerAgain" /\ net'.pc = "rpcAgain" /\ net'.task = net.task
          /\ net'.context = <<net.task.request, 2>> /\ UNCHANGED <<ui, tasks>>
      BY <1>4 DEF RegisterAgain, netOnly, NetStates, TypeInv, TypeOK
    <2>2. ASSUME NEW t \in Types, requestContextPool'[t] # NoContext
          PROVE  \/ requestContextPool'[t] = requestContextPool[t]
                 \/ t = net.task.type /\ requestContextPool'[t] = <<net.task.request, 2>>
      BY <1>4 DEF RegisterAgain, RegisterRequestContext, TypeInv, TypeOK
    <2> QED
      BY <2>1, <2>2 DEF Owned, BeingPosted
  <1>5. CASE RpcCallback \/ LocalCallback \/ ResetLast \/ CancelFull \/ CancelSolidity
    <2>1. /\ net.pc \in {"callback", "local", "resetLast"} \cup ResetSteps
          /\ UNCHANGED <<ui, tasks, requestContextPool>>
      BY <1>5 DEF RpcCallback, LocalCallback, ResetLast, CancelFull, CancelSolidity, netOnly,
                  ResetSteps
    <2> QED
      BY <2>1 DEF Owned, BeingPosted, ResetSteps
  <1>6. CASE SwitchFull \/ SwitchSolidity
    BY <1>6 DEF SwitchFull, SwitchSolidity, EraseAll
  <1> QED
    BY <1>1, <1>2, <1>3, <1>4, <1>5, <1>6 DEF NetNext

\* Every context in requestContextPool_ is the context of a stub call of that
\* type that runs or is still to come: the pool never keeps what a finished,
\* retried or reset request left behind.
THEOREM PoolIsLive == Spec => []PoolHoldsLiveContexts
  <1>1. Init => Live
    BY DEF Init, Live, PoolHoldsLiveContexts
  <1>2. Live /\ UNCHANGED vars => Live'
    BY DEF vars, Live, PoolHoldsLiveContexts, Owned, BeingPosted
  <1>3. TypeInv /\ Live /\ [Next]_vars => Live'
    BY <1>2, LiveUI, LiveNet DEF Next
  <1>4. Spec => []Live
    BY <1>1, <1>3, TypeInvAlways, PTL DEF Spec
  <1> QED
    BY <1>4 DEF Live

\* lastCallType_ names a type of which a request is outstanding.
LastIsOutstanding == \A t \in Types : lastCallType = t => Outstanding(t)

\* A request stays outstanding when another handler is posted.
LEMMA OutstandingAfterPost ==
    ASSUME TypeInv, NEW e \in Tasks, tasks' = Append(tasks, e), UNCHANGED net,
           NEW t \in Types, Outstanding(t), BeingPosted(t) => Outstanding(t)'
    PROVE  Outstanding(t)'
  BY AppendFacts DEF Outstanding, TypeInv, TypeOK

\* The UI thread sets lastCallType_ only for a request it goes on to post.
LEMMA LastUI == TypeInv /\ LastIsOutstanding /\ UINext => LastIsOutstanding'
  <1> SUFFICES ASSUME TypeInv, LastIsOutstanding, UINext PROVE LastIsOutstanding'
    OBVIOUS
  <1> USE ConstantsAssumption
  <1> USE DEF LastIsOutstanding
  <1>1. ASSUME NEW t \in Types, Duplicated(t) PROVE LastIsOutstanding'
    BY <1>1 DEF Duplicated, vars, Outstanding, BeingPosted
  <1>2. ASSUME NEW t \in Types, CallRpc(t) PROVE LastIsOutstanding'
    BY <1>2 DEF CallRpc, uiOnly, Outstanding, BeingPosted
  <1>3. CASE GetLast \/ TryCancelLast \/ Lookup
    BY <1>3 DEF GetLast, TryCancelLast, Lookup, uiOnly, Outstanding, BeingPosted
  <1>4. CASE Register
    BY <1>4 DEF Register, uiOnly, Outstanding, BeingPosted
  <1>5. CASE SetLast
    BY <1>5 DEF SetLast, uiOnly, Outstanding, BeingPosted, TypeInv, TypeOK
  <1>6. CASE PostRpc
    <2> DEFINE e == [kind |-> "rpc", type |-> ui.type, request |-> ui.context[1],
                     full |-> configured.full, solidity |-> configured.solidity]
    <2>1. e \in Tasks /\ tasks' = Append(tasks, e) /\ UNCHANGED <<net, lastCallType>>
      BY <1>6 DEF PostRpc, PostTask, uiOnly, Tasks, Requests, TypeInv, TypeOK, HandlersWellFormed
    <2>2. e.kind = "rpc" /\ e.type = ui.type
      OBVIOUS
    <2> HIDE DEF e
    <2>3. Len(tasks) + 1 \in DOMAIN tasks' /\ tasks'[Len(tasks) + 1] = e
      BY <2>1, AppendFacts DEF TypeInv, TypeOK
    <2>4. ASSUME NEW t \in Types, BeingPosted(t) PROVE Outstanding(t)'
      BY <2>2, <2>3, <2>4 DEF Outstanding, BeingPosted
    <2> QED
      BY <2>1, <2>4, OutstandingAfterPost
  <1>7. CASE PostLocal
    <2>1. issued + 1 \in 0..MaxRequests
      BY <1>7 DEF PostLocal, TypeInv, TypeOK
    <2>2. PICK e \in Tasks : tasks' = Append(tasks, e)
      BY <1>7, <2>1 DEF PostLocal, PostTask, Tasks, TypeInv, TypeOK
    <2>3. ui.pc = "idle" /\ UNCHANGED <<net, lastCallType>>
      BY <1>7 DEF PostLocal, uiOnly
    <2> QED
      BY <2>2, <2>3, OutstandingAfterPost DEF BeingPosted
  <1>8. ASSUME NEW f \in Addresses \cup {NoAddress}, NEW s \in Addresses \cup {NoAddress},
               ReSetSub(f, s)
        PROVE  LastIsOutstanding'
    <2>1. PICK e \in Tasks : tasks' = Append(tasks, e)
      BY <1>8 DEF ReSetSub, PostTask, Tasks, TypeInv, TypeOK
    <2>2. ui.pc = "idle" /\ UNCHANGED <<net, lastCallType>>
      BY <1>8 DEF ReSetSub
    <2> QED
      BY <2>1, <2>2, OutstandingAfterPost DEF BeingPosted
  <1>9. CASE OnNetCallback
    BY <1>9 DEF OnNetCallback, Outstanding, BeingPosted
  <1> QED
    BY <1>1, <1>2, <1>3, <1>4, <1>5, <1>6, <1>7, <1>8, <1>9 DEF UINext

\* A handler that ends resets lastCallType_, even if it names another request.
LEMMA LastNet == TypeInv /\ LastIsOutstanding /\ NetNext => LastIsOutstanding'
  <1> SUFFICES ASSUME TypeInv, LastIsOutstanding, NetNext PROVE LastIsOutstanding'
    OBVIOUS
  <1> USE ConstantsAssumption
  <1> USE DEF LastIsOutstanding
  <1>1. CASE TakeTask
    <2>1. /\ net.pc = "idle" /\ tasks # <<>> /\ tasks' = Tail(tasks)
          /\ net'.task = Head(tasks) /\ net'.pc # "idle" /\ UNCHANGED <<ui, lastCallType>>
      <3>1. Head(tasks) \in Tasks
        BY <1>1, TailFacts DEF TakeTask, TypeInv, TypeOK
      <3>2. FirstStep(Head(tasks).kind) # "idle"
        BY <3>1 DEF FirstStep, Tasks
      <3> QED
        BY <1>1, <3>2 DEF TakeTask, netOnly
    <2> SUFFICES ASSUME NEW t \in Types, Outstanding(t) PROVE Outstanding(t)'
      BY <2>1
    <2>2. CASE BeingPosted(t)
      BY <2>1, <2>2 DEF Outstanding, BeingPosted
    <2>3. ASSUME NEW i \in DOMAIN tasks, tasks[i].kind = "rpc", tasks[i].type = t
          PROVE  Outstanding(t)'
      <3>1. CASE i = 1
        BY <2>1, <2>3, <3>1, TailFacts DEF Outstanding, TypeInv, TypeOK
      <3>2. CASE i # 1
        <4>1. i - 1 \in DOMAIN tasks' /\ tasks'[i - 1] = tasks[i]
          BY <2>1, <3>2, TailFacts DEF TypeInv, TypeOK
        <4> QED
          BY <2>3, <4>1 DEF Outstanding
      <3> QED
        BY <3>1, <3>2
    <2> QED
      BY <2>1, <2>2, <2>3 DEF Outstanding
  <1>2. ASSUME net.pc # "idle", net'.pc # "idle", net'.task = net.task,
               UNCHANGED <<ui, tasks, lastCallType>>
        PROVE  LastIsOutstanding'
    BY <1>2 DEF Outstanding, BeingPosted
  <1>3. ASSUME NEW status \in Statuses, RpcReturns(status) PROVE LastIsOutstanding'
    BY <1>2, <1>3 DEF RpcReturns, netOnly, NetStates, TypeInv, TypeOK
  <1>4. CASE Unregister
    BY <1>2, <1>4 DEF Unregister, netOnly, NetStates, TypeInv, TypeOK
  <1>5. CASE RegisterAgain
    BY <1>2, <1>5 DEF RegisterAgain, netOnly, NetStates, TypeInv, TypeOK
  <1>6. CASE RpcCallback
    BY <1>2, <1>6 DEF RpcCallback, netOnly, NetStates, TypeInv, TypeOK
  <1>7. CASE ResetLast
    BY <1>7 DEF ResetLast
  <1>8. ASSUME net.task.kind # "rpc", UNCHANGED <<ui, tasks, lastCallType>>
        PROVE  LastIsOutstanding'
    BY <1>8 DEF Outstanding, BeingPosted
  <1>9. CASE LocalCallback
    BY <1>8, <1>9 DEF LocalCallback, netOnly, TypeInv, HandlersWellFormed
  <1>10. CASE CancelFull \/ SwitchFull \/ CancelSolidity \/ SwitchSolidity
    BY <1>8, <1>10 DEF CancelFull, SwitchFull, CancelSolidity, SwitchSolidity, netOnly,
                       ResetSteps, TypeInv, HandlersWellFormed
  <1> QED
    BY <1>1, <1>3, <1>4, <1>5, <1>6, <1>7, <1>9, <1>10 DEF NetNext

\* RPC_PROC refuses a call only while a call of the same type is outstanding:
\* neither lastCallType_ nor the pool ever blocks a type by a mark left behind,
\* however the two threads' accesses to them interleave.
THEOREM RefusalIsJustified == Spec => []RefusedOnlyWhileOutstanding
  <1>1. Init => LastIsOutstanding
    BY ConstantsAssumption DEF Init, LastIsOutstanding
  <1>2. LastIsOutstanding /\ UNCHANGED vars => LastIsOutstanding'
    BY DEF vars, LastIsOutstanding, Outstanding, BeingPosted
  <1>3. TypeInv /\ LastIsOutstanding /\ [Next]_vars => LastIsOutstanding'
    BY <1>2, LastUI, LastNet DEF Next
  <1>4. ASSUME TypeInv, PoolHoldsLiveContexts, LastIsOutstanding
        PROVE  RefusedOnlyWhileOutstanding
    <2>1. ASSUME NEW t \in Types, NEW c, Owned(t, c) PROVE Outstanding(t)
      BY <1>4, <2>1 DEF Owned, Outstanding, RpcSteps, TypeInv, HandlersWellFormed
    <2> QED
      BY <1>4, <2>1 DEF RefusedOnlyWhileOutstanding, PoolHoldsLiveContexts, LastIsOutstanding
  <1> QED
    BY <1>1, <1>3, <1>4, TypeInvAlways, PoolIsLive, PTL DEF Spec
-----------------------------------------------------------------------------
(* The nodes that the calls go to.                                          *)

\* What the handlers of the queue make of one of the two nodes: s has, for each
\* of them, the address it records or sets, and due is the node once the running
\* handler is through.  When the handlers before the i-th are through as well,
\* the node is a.
NodeAt(s, due, i, a) ==
    \/ due = a /\ \A k \in 1..(i - 1) : s[k] = NoAddress
    \/ \E j \in 1..(i - 1) :
          s[j] = a /\ \A k \in (j + 1)..(i - 1) : s[k] = NoAddress

\* A handler that records the node it was posted for leaves the node alone; one
\* that resets it sets it.
Fulls      == [i \in DOMAIN tasks |-> tasks[i].full]
Solidities == [i \in DOMAIN tasks |-> tasks[i].solidity]

\* The nodes once the running handler is through.
FullDue ==
    IF net.pc \in {"cancelFull", "switchFull"} /\ net.task.full # NoAddress
    THEN net.task.full ELSE full
SolidityDue ==
    IF net.pc \in ResetSteps /\ net.task.solidity # NoAddress
    THEN net.task.solidity ELSE solidity

\* Every handler that waits will find the nodes it was posted for, and so will
\* the next one; the one that runs has found them.
NodesInv ==
    /\ \A i \in DOMAIN tasks : tasks[i].kind # "reset" =>
          /\ NodeAt(Fulls, FullDue, i, tasks[i].full)
          /\ NodeAt(Solidities, SolidityDue, i, tasks[i].solidity)
    /\ NodeAt(Fulls, FullDue, Len(tasks) + 1, configured.full)
    /\ NodeAt(Solidities, SolidityDue, Len(tasks) + 1, configured.solidity)
    /\ net.pc \in RpcSteps \cup {"local"} =>
          net.task.full = full /\ net.task.solidity = solidity

\* A handler that is posted changes nothing for those before it; the next one
\* finds the address it sets, or what it would have found before.
LEMMA NodeAfterPost ==
    ASSUME NEW S, NEW s \in Seq(S), NEW x \in S, NEW due, NEW c,
           NodeAt(s, due, Len(s) + 1, c)
    PROVE  /\ \A i \in 1..(Len(s) + 1) : \A a :
                 NodeAt(s, due, i, a) => NodeAt(Append(s, x), due, i, a)
           /\ x = NoAddress => NodeAt(Append(s, x), due, Len(s) + 2, c)
           /\ x # NoAddress => NodeAt(Append(s, x), due, Len(s) + 2, x)
  <1>1. /\ Len(s) \in Nat
        /\ \A k \in 1..Len(s) : Append(s, x)[k] = s[k]
        /\ Append(s, x)[Len(s) + 1] = x
    BY AppendFacts
  <1>2. ASSUME NEW i \in 1..(Len(s) + 1), NEW a, NodeAt(s, due, i, a)
        PROVE  NodeAt(Append(s, x), due, i, a)
    <2>1. \A k \in 1..(i - 1) : Append(s, x)[k] = s[k]
      BY <1>1
    <2> QED
      BY <1>2, <2>1 DEF NodeAt
  <1>3. ASSUME x = NoAddress PROVE NodeAt(Append(s, x), due, Len(s) + 2, c)
    <2>2. CASE due = c /\ \A k \in 1..Len(s) : s[k] = NoAddress
      <3>1. \A k \in 1..(Len(s) + 2 - 1) : Append(s, x)[k] = NoAddress
        BY <1>1, <1>3, <2>2
      <3> QED
        BY <2>2, <3>1 DEF NodeAt
    <2>3. ASSUME NEW j \in 1..Len(s), s[j] = c, \A k \in (j + 1)..Len(s) : s[k] = NoAddress
          PROVE  NodeAt(Append(s, x), due, Len(s) + 2, c)
      <3>1. j \in 1..(Len(s) + 1) /\ Append(s, x)[j] = c
        BY <1>1, <2>3
      <3>2. \A k \in (j + 1)..(Len(s) + 1) : Append(s, x)[k] = NoAddress
        BY <1>1, <1>3, <2>3
      <3> QED
        BY <1>1, <3>1, <3>2 DEF NodeAt
    <2> QED
      BY <1>1, <2>2, <2>3 DEF NodeAt
  <1>4. NodeAt(Append(s, x), due, Len(s) + 2, x)
    BY <1>1 DEF NodeAt
  <1> QED
    BY <1>2, <1>3, <1>4

\* A handler that is taken leaves the queue, and what it sets is due.
LEMMA NodeAfterTake ==
    ASSUME NEW S, NEW s \in Seq(S), s # <<>>, NEW due, NEW due2,
           due2 = IF s[1] = NoAddress THEN due ELSE s[1],
           NEW i \in 2..(Len(s) + 1), NEW a, a # NoAddress, NodeAt(s, due, i, a)
    PROVE  NodeAt(Tail(s), due2, i - 1, a)
  <1>1. \A k \in 1..(Len(s) - 1) : Tail(s)[k] = s[k + 1]
    BY TailFacts
  <1>2. CASE due = a /\ \A k \in 1..(i - 1) : s[k] = NoAddress
    BY <1>1, <1>2 DEF NodeAt
  <1>3. ASSUME NEW j \in 1..(i - 1), s[j] = a,
               \A k \in (j + 1)..(i - 1) : s[k] = NoAddress
        PROVE  NodeAt(Tail(s), due2, i - 1, a)
    <2>1. \A k \in j..(i - 2) : Tail(s)[k] = NoAddress
      BY <1>1, <1>3
    <2>2. CASE j = 1
      <3>1. \A k \in 1..(i - 1 - 1) : Tail(s)[k] = NoAddress
        BY <2>1, <2>2
      <3>2. due2 = a
        BY <1>3, <2>2
      <3> QED
        BY <3>1, <3>2 DEF NodeAt
    <2>3. CASE j # 1
      <3>1. j - 1 \in 1..(i - 1 - 1) /\ Tail(s)[j - 1] = a
        BY <1>1, <1>3, <2>3
      <3>2. \A k \in ((j - 1) + 1)..(i - 1 - 1) : Tail(s)[k] = NoAddress
        BY <2>1, <2>3
      <3> QED
        BY <3>1, <3>2 DEF NodeAt
    <2> QED
      BY <2>2, <2>3
  <1> QED
    BY <1>2, <1>3 DEF NodeAt

\* The addresses in the queue, and where they go when a handler is posted or taken.
LEMMA NodesOfQueue ==
    ASSUME NEW q \in Seq(Tasks)
    PROVE  LET F(r) == [i \in DOMAIN r |-> r[i].full]
               S(r) == [i \in DOMAIN r |-> r[i].solidity]
               A    == Addresses \cup {NoAddress}
           IN  /\ F(q) \in Seq(A) /\ Len(F(q)) = Len(q)
               /\ S(q) \in Seq(A) /\ Len(S(q)) = Len(q)
               /\ \A e \in Tasks : /\ F(Append(q, e)) = Append(F(q), e.full)
                                   /\ S(Append(q, e)) = Append(S(q), e.solidity)
               /\ q # <<>> => /\ F(Tail(q)) = Tail(F(q)) /\ F(q)[1] = Head(q).full
                              /\ S(Tail(q)) = Tail(S(q)) /\ S(q)[1] = Head(q).solidity
  <1> DEFINE F(r) == [i \in DOMAIN r |-> r[i].full]
             S(r) == [i \in DOMAIN r |-> r[i].solidity]
             A    == Addresses \cup {NoAddress}
  <1>1. \A i \in 1..Len(q) : q[i].full \in A /\ q[i].solidity \in A
    <2>1. \A i \in 1..Len(q) : q[i] \in Tasks
      OBVIOUS
    <2> QED
      BY <2>1 DEF Tasks
  <1>2. /\ DOMAIN q = 1..Len(q) /\ Len(q) \in Nat
    OBVIOUS
  <1>3. /\ F(q) \in Seq(A) /\ Len(F(q)) = Len(q)
        /\ S(q) \in Seq(A) /\ Len(S(q)) = Len(q)
    BY <1>1, <1>2
  <1>4. ASSUME NEW e \in Tasks
        PROVE  /\ F(Append(q, e)) = Append(F(q), e.full)
               /\ S(Append(q, e)) = Append(S(q), e.solidity)
    BY <1>1, <1>2
  <1>5. ASSUME q # <<>>
        PROVE  /\ F(Tail(q)) = Tail(F(q)) /\ F(q)[1] = Head(q).full
               /\ S(Tail(q)) = Tail(S(q)) /\ S(q)[1] = Head(q).solidity
    BY <1>1, <1>2, <1>5
  <1> QED
    BY <1>3, <1>4, <1>5

\* A step that neither posts nor takes a handler and does not change what is due.
LEMMA NodesStay ==
    ASSUME NodesInv, UNCHANGED <<tasks, configured>>,
           FullDue' = FullDue, SolidityDue' = SolidityDue,
           net'.pc \in RpcSteps \cup {"local"} =>
               net'.task.full = full' /\ net'.task.solidity = solidity'
    PROVE  NodesInv'
  <1>1. Fulls' = Fulls /\ Solidities' = Solidities
    BY DEF Fulls, Solidities
  <1> QED
    BY <1>1 DEF NodesInv, NodeAt

\* A handler is posted: one that calls a node, for the nodes that are configured,
\* or one that resets them, and then they are configured.
LEMMA NodesPost ==
    ASSUME TypeInv, NodesInv, NEW e \in Tasks, tasks' = Append(tasks, e),
           UNCHANGED <<net, full, solidity>>,
           e.kind # "reset" => e.full = configured.full /\ e.solidity = configured.solidity,
           configured'.full = IF e.full = NoAddress THEN configured.full ELSE e.full,
           configured'.solidity =
               IF e.solidity = NoAddress THEN configured.solidity ELSE e.solidity
    PROVE  NodesInv'
  <1>0. tasks \in Seq(Tasks) /\ Len(tasks) \in Nat
    BY DEF TypeInv, TypeOK
  <1>1. /\ Fulls \in Seq(Addresses \cup {NoAddress}) /\ Len(Fulls) = Len(tasks)
        /\ Fulls' = Append(Fulls, e.full)
        /\ Solidities \in Seq(Addresses \cup {NoAddress}) /\ Len(Solidities) = Len(tasks)
        /\ Solidities' = Append(Solidities, e.solidity)
    BY <1>0, NodesOfQueue DEF Fulls, Solidities
  <1>2. e.full \in Addresses \cup {NoAddress} /\ e.solidity \in Addresses \cup {NoAddress}
    BY DEF Tasks
  <1>3. FullDue' = FullDue /\ SolidityDue' = SolidityDue
    BY DEF FullDue, SolidityDue
  <1>4. /\ \A i \in 1..(Len(tasks) + 1) : \A a :
              NodeAt(Fulls, FullDue, i, a) => NodeAt(Fulls', FullDue, i, a)
        /\ NodeAt(Fulls', FullDue, Len(tasks) + 2, configured'.full)
    BY <1>1, <1>2, NodeAfterPost DEF NodesInv
  <1>5. /\ \A i \in 1..(Len(tasks) + 1) : \A a :
              NodeAt(Solidities, SolidityDue, i, a) => NodeAt(Solidities', SolidityDue, i, a)
        /\ NodeAt(Solidities', SolidityDue, Len(tasks) + 2, configured'.solidity)
    BY <1>1, <1>2, NodeAfterPost DEF NodesInv
  <1>6. /\ Len(tasks') = Len(tasks) + 1 /\ DOMAIN tasks' = 1..(Len(tasks) + 1)
        /\ DOMAIN tasks = 1..Len(tasks)
        /\ \A i \in DOMAIN tasks : tasks'[i] = tasks[i]
        /\ tasks'[Len(tasks) + 1] = e
    BY <1>0, AppendFacts
  <1>7. ASSUME NEW i \in DOMAIN tasks', tasks'[i].kind # "reset"
        PROVE  /\ NodeAt(Fulls', FullDue, i, tasks'[i].full)
               /\ NodeAt(Solidities', SolidityDue, i, tasks'[i].solidity)
    <2>1. CASE i \in DOMAIN tasks
      BY <1>4, <1>5, <1>6, <1>7, <2>1 DEF NodesInv
    <2>2. CASE i = Len(tasks) + 1
      BY <1>4, <1>5, <1>6, <1>7, <2>2 DEF NodesInv
    <2> QED
      BY <1>0, <1>6, <2>1, <2>2
  <1>8. /\ NodeAt(Fulls', FullDue', Len(tasks') + 1, configured'.full)
        /\ NodeAt(Solidities', SolidityDue', Len(tasks') + 1, configured'.solidity)
    BY <1>0, <1>3, <1>4, <1>5, <1>6
  <1> QED
    BY <1>3, <1>7, <1>8 DEF NodesInv, NodeAt

\* The network thread takes a handler: it finds the nodes it was posted for, or it
\* is about to set them.
LEMMA NodesTake == TypeInv /\ NodesInv /\ TakeTask => NodesInv'
  <1> SUFFICES ASSUME TypeInv, NodesInv, TakeTask PROVE NodesInv'
    OBVIOUS
  <1> USE ConstantsAssumption
  <1> DEFINE e == Head(tasks)
  <1>0. /\ tasks \in Seq(Tasks) /\ Len(tasks) \in Nat /\ tasks # <<>>
        /\ tasks' = Tail(tasks) /\ UNCHANGED <<full, solidity, configured>>
        /\ net.pc = "idle" /\ net'.task = e /\ net'.pc = FirstStep(e.kind)
    BY DEF TakeTask, netOnly, TypeInv, TypeOK
  <1>1. /\ e \in Tasks /\ e = tasks[1] /\ 1 \in DOMAIN tasks /\ WellFormed(e)
    BY <1>0, TailFacts DEF TypeInv, HandlersWellFormed
  <1>2. /\ Len(tasks') = Len(tasks) - 1 /\ DOMAIN tasks' = 1..(Len(tasks) - 1)
        /\ DOMAIN tasks = 1..Len(tasks) /\ Len(tasks) >= 1
        /\ \A i \in DOMAIN tasks' : tasks'[i] = tasks[i + 1] /\ i + 1 \in DOMAIN tasks
    BY <1>0
  <1>3. FullDue = full /\ SolidityDue = solidity
    BY <1>0 DEF FullDue, SolidityDue, ResetSteps
  <1>4. /\ Fulls \in Seq(Addresses \cup {NoAddress}) /\ Len(Fulls) = Len(tasks)
        /\ Fulls' = Tail(Fulls) /\ Fulls[1] = e.full /\ Fulls # <<>>
        /\ Solidities \in Seq(Addresses \cup {NoAddress}) /\ Len(Solidities) = Len(tasks)
        /\ Solidities' = Tail(Solidities) /\ Solidities[1] = e.solidity /\ Solidities # <<>>
    <2>1. /\ Fulls \in Seq(Addresses \cup {NoAddress}) /\ Len(Fulls) = Len(tasks)
          /\ Fulls' = Tail(Fulls) /\ Fulls[1] = e.full
          /\ Solidities \in Seq(Addresses \cup {NoAddress}) /\ Len(Solidities) = Len(tasks)
          /\ Solidities' = Tail(Solidities) /\ Solidities[1] = e.solidity
      BY <1>0, NodesOfQueue DEF Fulls, Solidities
    <2> QED
      BY <1>2, <2>1
  <1>5. e.kind \in {"rpc", "local", "reset"}
    BY <1>1 DEF Tasks
  <1>6. e.kind # "reset" => e.full = full /\ e.solidity = solidity
    BY <1>1, <1>3 DEF NodesInv, NodeAt
  <1>7. /\ FullDue' = IF Fulls[1] = NoAddress THEN FullDue ELSE Fulls[1]
        /\ SolidityDue' = IF Solidities[1] = NoAddress THEN SolidityDue ELSE Solidities[1]
    <2>1. CASE e.kind = "reset"
      <3>1. net'.pc = "cancelFull"
        BY <1>0, <2>1 DEF FirstStep
      <3> QED
        BY <1>0, <1>3, <1>4, <3>1 DEF FullDue, SolidityDue, ResetSteps
    <2>2. CASE e.kind # "reset"
      <3>1. net'.pc \in {"rpc", "local"}
        BY <1>0, <1>5, <2>2 DEF FirstStep
      <3>2. FullDue' = full /\ SolidityDue' = solidity
        BY <1>0, <3>1 DEF FullDue, SolidityDue, ResetSteps
      <3> QED
        BY <1>3, <1>4, <1>6, <2>2, <3>2
    <2> QED
      BY <2>1, <2>2
  <1>8. \A i \in 2..(Len(tasks) + 1), a \in Addresses :
          /\ NodeAt(Fulls, FullDue, i, a) => NodeAt(Fulls', FullDue', i - 1, a)
          /\ NodeAt(Solidities, SolidityDue, i, a) => NodeAt(Solidities', SolidityDue', i - 1, a)
    BY <1>4, <1>7, NodeAfterTake
  <1>9. ASSUME NEW i \in DOMAIN tasks', tasks'[i].kind # "reset"
        PROVE  /\ NodeAt(Fulls', FullDue', i, tasks'[i].full)
               /\ NodeAt(Solidities', SolidityDue', i, tasks'[i].solidity)
    <2>1. i + 1 \in 2..(Len(tasks) + 1) /\ i + 1 \in DOMAIN tasks /\ tasks'[i] = tasks[i + 1]
          /\ (i + 1) - 1 = i
      BY <1>2
    <2>2. tasks[i + 1].full \in Addresses /\ tasks[i + 1].solidity \in Addresses
      BY <1>9, <2>1 DEF TypeInv, HandlersWellFormed, WellFormed
    <2>3. /\ NodeAt(Fulls, FullDue, i + 1, tasks[i + 1].full)
          /\ NodeAt(Solidities, SolidityDue, i + 1, tasks[i + 1].solidity)
      BY <1>9, <2>1 DEF NodesInv
    <2> QED
      BY <1>8, <2>1, <2>2, <2>3
  <1>10. /\ NodeAt(Fulls', FullDue', Len(tasks') + 1, configured'.full)
         /\ NodeAt(Solidities', SolidityDue', Len(tasks') + 1, configured'.solidity)
    <2>1. configured.full \in Addresses /\ configured.solidity \in Addresses
      BY DEF TypeInv, TypeOK
    <2>2. /\ Len(tasks) + 1 \in 2..(Len(tasks) + 1)
          /\ (Len(tasks) + 1) - 1 = Len(tasks') + 1 /\ configured' = configured
      BY <1>0, <1>2
    <2> QED
      BY <1>8, <2>1, <2>2 DEF NodesInv
  <1>11. net'.pc \in RpcSteps \cup {"local"} =>
             net'.task.full = full' /\ net'.task.solidity = solidity'
    BY <1>0, <1>5, <1>6 DEF FirstStep, RpcSteps
  <1> QED
    BY <1>9, <1>10, <1>11 DEF NodesInv, NodeAt

\* The UI thread posts handlers, and changes nothing else that matters here.
LEMMA NodesUI == TypeInv /\ NodesInv /\ UINext => NodesInv'
  <1> SUFFICES ASSUME TypeInv, NodesInv, UINext PROVE NodesInv'
    OBVIOUS
  <1> USE ConstantsAssumption
  <1>1. ASSUME UNCHANGED <<tasks, net, full, solidity, configured>> PROVE NodesInv'
    BY <1>1, NodesStay DEF FullDue, SolidityDue, NodesInv
  <1>2. configured.full \in Addresses /\ configured.solidity \in Addresses
    BY DEF TypeInv, TypeOK
  <1>3. CASE PostRpc
    <2> DEFINE e == [kind |-> "rpc", type |-> ui.type, request |-> ui.context[1],
                     full |-> configured.full, solidity |-> configured.solidity]
    <2>1. e \in Tasks
      BY <1>2, <1>3 DEF PostRpc, Tasks, Requests, TypeInv, TypeOK, HandlersWellFormed
    <2>2. tasks' = Append(tasks, e) /\ UNCHANGED <<net, full, solidity, configured>>
      BY <1>3 DEF PostRpc, PostTask, uiOnly
    <2>3. e.full = configured.full /\ e.solidity = configured.solidity
      OBVIOUS
    <2> HIDE DEF e
    <2> QED
      BY <1>2, <2>1, <2>2, <2>3, NodesPost
  <1>4. CASE PostLocal
    <2> DEFINE e == [kind |-> "local", type |-> RequestCount, request |-> issued + 1,
                     full |-> configured.full, solidity |-> configured.solidity]
    <2>1. e \in Tasks
      BY <1>2, <1>4 DEF PostLocal, Tasks, TypeInv, TypeOK
    <2>2. tasks' = Append(tasks, e) /\ UNCHANGED <<net, full, solidity, configured>>
      BY <1>4 DEF PostLocal, PostTask, uiOnly
    <2>3. e.full = configured.full /\ e.solidity = configured.solidity
      OBVIOUS
    <2> HIDE DEF e
    <2> QED
      BY <1>2, <2>1, <2>2, <2>3, NodesPost
  <1>5. ASSUME NEW f \in Addresses \cup {NoAddress}, NEW s \in Addresses \cup {NoAddress},
               ReSetSub(f, s)
        PROVE  NodesInv'
    <2> DEFINE e == [kind |-> "reset", type |-> RequestCount, request |-> issued,
                     full |-> f, solidity |-> s]
    <2>1. e \in Tasks
      BY <1>5 DEF ReSetSub, Tasks, TypeInv, TypeOK
    <2>2. /\ tasks' = Append(tasks, e) /\ UNCHANGED <<net, full, solidity>>
          /\ configured'.full = IF f = NoAddress THEN configured.full ELSE f
          /\ configured'.solidity = IF s = NoAddress THEN configured.solidity ELSE s
      BY <1>5 DEF ReSetSub, PostTask
    <2>3. e.full = f /\ e.solidity = s /\ e.kind = "reset"
      OBVIOUS
    <2> HIDE DEF e
    <2> QED
      BY <2>1, <2>2, <2>3, NodesPost
  <1> QED
    BY <1>1, <1>3, <1>4, <1>5 DEF UINext, Duplicated, CallRpc, GetLast, TryCancelLast, Lookup,
       Register, SetLast, OnNetCallback, uiOnly, vars

\* A reset sets one node after the other to what is due.
LEMMA NodesNet == TypeInv /\ NodesInv /\ NetNext => NodesInv'
  <1> SUFFICES ASSUME TypeInv, NodesInv, NetNext PROVE NodesInv'
    OBVIOUS
  <1> USE ConstantsAssumption
  <1> USE DEF RpcSteps, ResetSteps
  <1>0. net \in NetStates
    BY DEF TypeInv, TypeOK
  <1>1. ASSUME UNCHANGED <<tasks, full, solidity, configured>>, net.pc \in RpcSteps \cup {"local"},
               net' = NetIdle \/ (net'.pc \in RpcSteps /\ net'.task = net.task)
        PROVE  NodesInv'
    <2>1. FullDue' = FullDue /\ SolidityDue' = SolidityDue
      BY <1>1, NetIdleType DEF FullDue, SolidityDue
    <2>2. net'.pc \in RpcSteps \cup {"local"} =>
              net'.task.full = full' /\ net'.task.solidity = solidity'
      BY <1>1, NetIdleType DEF NodesInv
    <2> QED
      BY <1>1, <2>1, <2>2, NodesStay
  <1>2. CASE TakeTask
    BY <1>2, NodesTake
  <1>3. ASSUME NEW status \in Statuses, RpcReturns(status) PROVE NodesInv'
    BY <1>0, <1>1, <1>3 DEF RpcReturns, netOnly, NetStates
  <1>4. CASE Unregister
    BY <1>0, <1>1, <1>4 DEF Unregister, netOnly, NetStates
  <1>5. CASE RegisterAgain
    BY <1>0, <1>1, <1>5 DEF RegisterAgain, netOnly, NetStates
  <1>6. CASE RpcCallback
    BY <1>0, <1>1, <1>6 DEF RpcCallback, netOnly, NetStates
  <1>7. CASE ResetLast
    BY <1>0, <1>1, <1>7 DEF ResetLast, netOnly, NetStates
  <1>8. CASE LocalCallback
    BY <1>0, <1>1, <1>8 DEF LocalCallback, netOnly, NetStates
  <1>9. CASE CancelFull
    <2>1. /\ net.pc = "cancelFull" /\ net'.task = net.task
          /\ UNCHANGED <<tasks, full, solidity, configured>>
          /\ \/ net'.pc = "switchFull"
             \/ net'.pc = "cancelSolidity" /\ net.task.full \in {NoAddress, full}
      BY <1>0, <1>9 DEF CancelFull, netOnly, NetStates
    <2>2. FullDue' = FullDue /\ SolidityDue' = SolidityDue
      BY <2>1 DEF FullDue, SolidityDue
    <2> QED
      BY <2>1, <2>2, NodesStay
  <1>10. CASE SwitchFull
    <2>1. /\ net.pc = "switchFull" /\ net'.task = net.task /\ net'.pc = "cancelSolidity"
          /\ full' = net.task.full /\ net.task.full # NoAddress
          /\ UNCHANGED <<tasks, solidity, configured>>
      BY <1>0, <1>10 DEF SwitchFull, CreateFullStub, netOnly, NetStates, TypeInv, HandlersWellFormed
    <2>2. FullDue' = FullDue /\ SolidityDue' = SolidityDue
      BY <2>1 DEF FullDue, SolidityDue
    <2> QED
      BY <2>1, <2>2, NodesStay
  <1>11. CASE CancelSolidity
    <2>1. /\ net.pc = "cancelSolidity"
          /\ UNCHANGED <<tasks, full, solidity, configured>>
          /\ \/ net'.pc = "switchSolidity" /\ net'.task = net.task
             \/ net'.pc = "idle" /\ net.task.solidity \in {NoAddress, solidity}
      BY <1>0, <1>11, NetIdleType DEF CancelSolidity, netOnly, NetStates
    <2>2. FullDue' = FullDue /\ SolidityDue' = SolidityDue
      BY <2>1 DEF FullDue, SolidityDue
    <2> QED
      BY <2>1, <2>2, NodesStay
  <1>12. CASE SwitchSolidity
    <2>1. /\ net.pc = "switchSolidity" /\ net'.pc = "idle"
          /\ solidity' = net.task.solidity /\ net.task.solidity # NoAddress
          /\ UNCHANGED <<tasks, full, configured>>
      BY <1>12, NetIdleType DEF SwitchSolidity, CreateSolidutyStub, netOnly, TypeInv,
                                HandlersWellFormed
    <2>2. FullDue' = FullDue /\ SolidityDue' = SolidityDue
      BY <2>1 DEF FullDue, SolidityDue
    <2> QED
      BY <2>1, <2>2, NodesStay
  <1> QED
    BY <1>2, <1>3, <1>4, <1>5, <1>6, <1>7, <1>8, <1>9, <1>10, <1>11, <1>12 DEF NetNext

\* A call goes to the node that was configured when the user made the request: a
\* reset that was asked for later is queued behind it, one asked for before is
\* through, and the retry finds the stub as the first attempt did.
THEOREM CallsConfiguredNodeAlways == Spec => []CallsConfiguredNode
  <1>1. Init => NodesInv
    BY DEF Init, NodesInv, NodeAt, FullDue, SolidityDue, NetIdle, RpcSteps, ResetSteps
  <1>2. TypeInv /\ NodesInv /\ [Next]_vars => NodesInv'
    <2>1. ASSUME NodesInv, UNCHANGED vars PROVE NodesInv'
      BY <2>1, NodesStay DEF vars, FullDue, SolidityDue, NodesInv
    <2> QED
      BY <2>1, NodesUI, NodesNet DEF Next
  <1>3. NodesInv => CallsConfiguredNode
    BY DEF NodesInv, CallsConfiguredNode, RpcSteps
  <1> QED
    BY <1>1, <1>2, <1>3, TypeInvAlways, PTL DEF Spec
=============================================================================
