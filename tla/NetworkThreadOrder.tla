------------------------- MODULE NetworkThreadOrder -------------------------
(***************************************************************************)
(* Requests pass through the two threads in the order of their acceptance, *)
(* for any number of requests, types, nodes and resets: the proof that     *)
(* NetworkThread implements the safety part of RequestService, and that    *)
(* ReSetSub's Clear only ever finds requests younger than itself.          *)
(***************************************************************************)
EXTENDS NetworkThreadProofs

\* How many requests have been posted to the network thread.
Posted == IF ui.pc \in {"setLast", "post"} THEN issued - 1 ELSE issued

\* The callbacks that are under way: younger than the one that ran last, older
\* than everything that has yet to run, and in order.
MessagesInOrder ==
    \A i \in DOMAIN messages :
        /\ answered < messages[i].request
        /\ messages[i].request <= Posted
        /\ \A j \in DOMAIN messages : i < j => messages[i].request < messages[j].request
        /\ \A j \in DOMAIN tasks :
              tasks[j].kind # "reset" => messages[i].request < tasks[j].request
        /\ net.pc \in AnswerDue => messages[i].request < net.task.request

\* The queued handlers: a request is younger than whatever is queued before it,
\* a reset counting as old as the last request made before it.
TasksInOrder ==
    \A i \in DOMAIN tasks :
        /\ tasks[i].request <= Posted
        /\ tasks[i].kind # "reset" => answered < tasks[i].request
        /\ \A j \in DOMAIN tasks :
              i < j /\ tasks[j].kind # "reset" => tasks[i].request < tasks[j].request
        /\ net.pc # "idle" /\ tasks[i].kind # "reset" => net.task.request < tasks[i].request

NetInOrder ==
    /\ net.pc # "idle" => net.task.request <= Posted
    /\ net.pc \in AnswerDue => answered < net.task.request

InOrder == answered <= Posted /\ MessagesInOrder /\ TasksInOrder /\ NetInOrder

OrderInv == TypeInv /\ InOrder

\* No request is under way in the initial state.
LEMMA InOrderInit == Init => InOrder
  BY ConstantsAssumption
     DEF Init, InOrder, MessagesInOrder, TasksInOrder, NetInOrder, Posted, Idle, NetIdle, AnswerDue

\* The numbers that the order is about are natural numbers.
LEMMA RequestsAreNat ==
    ASSUME TypeInv
    PROVE  /\ Posted \in Int /\ issued \in Nat /\ answered \in Nat
           /\ net.task.request \in Nat
           /\ \A i \in DOMAIN tasks : tasks[i] \in Tasks /\ tasks[i].request \in Nat
           /\ \A i \in DOMAIN messages : messages[i].request \in Nat
           /\ DOMAIN tasks \subseteq Nat /\ DOMAIN messages \subseteq Nat
  <1>1. Posted \in Int /\ issued \in Nat /\ answered \in Nat
    BY ConstantsAssumption DEF TypeInv, TypeOK, Posted
  <1>2. \A task \in Tasks : task.request \in Nat
    BY ConstantsAssumption DEF Tasks
  <1>3. /\ net.task \in Tasks
        /\ \A i \in DOMAIN tasks : tasks[i] \in Tasks
        /\ DOMAIN tasks \subseteq Nat
    BY DEF TypeInv, TypeOK, NetStates
  <1>4. /\ \A i \in DOMAIN messages : messages[i].request \in Nat
        /\ DOMAIN messages \subseteq Nat
    <2> DEFINE M == [request : Requests, result : Results]
    <2>1. \A m \in M : m.request \in Nat
      BY ConstantsAssumption DEF Requests
    <2>2. messages \in Seq(M)
      BY DEF TypeInv, TypeOK
    <2> HIDE DEF M
    <2>3. \A i \in DOMAIN messages : messages[i] \in M /\ i \in Nat
      BY <2>2
    <2> QED
      BY <2>1, <2>3
  <1> QED
    BY <1>1, <1>2, <1>3, <1>4

\* A handler that is posted is younger than everything else, or is a reset and
\* as old as the last request.
LEMMA InOrderPost ==
    ASSUME TypeInv, InOrder, NEW e \in Tasks, tasks' = Append(tasks, e),
           UNCHANGED <<net, messages, answered>>,
           Posted' \in Int, Posted <= Posted',
           e.request <= Posted',
           IF e.kind = "reset" THEN TRUE ELSE Posted < e.request
    PROVE  InOrder'
  <1> USE RequestsAreNat
  <1>1. /\ DOMAIN tasks' = 1..(Len(tasks) + 1) /\ DOMAIN tasks = 1..Len(tasks) /\ Len(tasks) \in Nat
        /\ \A i \in DOMAIN tasks : tasks'[i] = tasks[i]
        /\ tasks'[Len(tasks) + 1] = e
    BY AppendFacts DEF TypeInv, TypeOK
  <1>2. e.request \in Nat
    BY ConstantsAssumption DEF Tasks
  <1>3. MessagesInOrder'
    BY <1>1, <1>2 DEF InOrder, MessagesInOrder
  <1>4. TasksInOrder'
    <2> SUFFICES ASSUME NEW i \in DOMAIN tasks' PROVE
           /\ tasks'[i].request <= Posted'
           /\ tasks'[i].kind # "reset" => answered < tasks'[i].request
           /\ \A j \in DOMAIN tasks' :
                 i < j /\ tasks'[j].kind # "reset" => tasks'[i].request < tasks'[j].request
           /\ net.pc # "idle" /\ tasks'[i].kind # "reset"
                 => net.task.request < tasks'[i].request
      BY DEF TasksInOrder
    <2>1. CASE i \in DOMAIN tasks
      BY <1>1, <1>2, <2>1 DEF InOrder, TasksInOrder
    <2>2. CASE i = Len(tasks) + 1
      BY <1>1, <1>2, <2>2 DEF InOrder, NetInOrder
    <2> QED
      BY <1>1, <2>1, <2>2
  <1> QED
    BY <1>3, <1>4 DEF InOrder, NetInOrder

\* A step of the UI thread that posts nothing and runs no callback.
LEMMA InOrderStutter ==
    ASSUME InOrder, Posted' = Posted, UNCHANGED <<tasks, net, messages, answered>>
    PROVE  InOrder'
  BY DEF InOrder, MessagesInOrder, TasksInOrder, NetInOrder

\* The UI thread keeps the order.
LEMMA InOrderUI == OrderInv /\ UINext => InOrder'
  <1> SUFFICES ASSUME TypeInv, InOrder, UINext PROVE InOrder'
    BY DEF OrderInv
  <1> USE ConstantsAssumption, RequestsAreNat
  <1>1. ASSUME NEW t \in Types, Duplicated(t) PROVE InOrder'
    BY <1>1, InOrderStutter DEF Duplicated, vars, Posted
  <1>2. ASSUME NEW t \in Types, CallRpc(t) PROVE InOrder'
    BY <1>2, InOrderStutter DEF CallRpc, uiOnly, Posted
  <1>3. CASE GetLast
    BY <1>3, InOrderStutter DEF GetLast, uiOnly, Posted, TypeInv, TypeOK
  <1>4. CASE TryCancelLast
    BY <1>4, InOrderStutter DEF TryCancelLast, uiOnly, Posted, TypeInv, TypeOK
  <1>5. CASE Lookup
    BY <1>5, InOrderStutter DEF Lookup, Idle, uiOnly, Posted, TypeInv, TypeOK
  <1>6. CASE Register
    BY <1>6, InOrderStutter DEF Register, uiOnly, Posted, TypeInv, TypeOK
  <1>7. CASE SetLast
    BY <1>7, InOrderStutter DEF SetLast, uiOnly, Posted, TypeInv, TypeOK
  <1>8. CASE PostRpc
    <2> DEFINE e == [kind |-> "rpc", type |-> ui.type, request |-> ui.context[1],
                     full |-> configured.full, solidity |-> configured.solidity]
    <2>1. /\ e \in Tasks /\ tasks' = Append(tasks, e) /\ UNCHANGED <<net, messages, answered>>
          /\ e.request = issued /\ e.kind # "reset"
      BY <1>8 DEF PostRpc, PostTask, uiOnly, Tasks, Requests, TypeInv, TypeOK, HandlersWellFormed
    <2>2. Posted = issued - 1 /\ Posted' = issued
      BY <1>8 DEF PostRpc, Posted, Idle
    <2> HIDE DEF e
    <2> QED
      BY <2>1, <2>2, InOrderPost
  <1>9. CASE PostLocal
    <2> DEFINE e == [kind |-> "local", type |-> RequestCount, request |-> issued + 1,
                     full |-> configured.full, solidity |-> configured.solidity]
    <2>1. /\ e \in Tasks /\ tasks' = Append(tasks, e) /\ UNCHANGED <<net, messages, answered>>
          /\ e.request = issued + 1 /\ e.kind # "reset"
      BY <1>9 DEF PostLocal, PostTask, uiOnly, Tasks, TypeInv, TypeOK
    <2>2. Posted = issued /\ Posted' = issued + 1
      BY <1>9 DEF PostLocal, Posted
    <2> HIDE DEF e
    <2> QED
      BY <2>1, <2>2, InOrderPost
  <1>10. ASSUME NEW f \in Addresses \cup {NoAddress}, NEW s \in Addresses \cup {NoAddress},
                ReSetSub(f, s)
         PROVE  InOrder'
    <2> DEFINE e == [kind |-> "reset", type |-> RequestCount, request |-> issued,
                     full |-> f, solidity |-> s]
    <2>1. /\ e \in Tasks /\ tasks' = Append(tasks, e) /\ UNCHANGED <<net, messages, answered>>
          /\ e.request = issued /\ e.kind = "reset"
      BY <1>10 DEF ReSetSub, PostTask, Tasks, TypeInv, TypeOK
    <2>2. Posted = issued /\ Posted' = issued
      BY <1>10 DEF ReSetSub, Posted
    <2> HIDE DEF e
    <2> QED
      BY <2>1, <2>2, InOrderPost
  <1>11. CASE OnNetCallback
    <2>1. /\ Posted' = Posted /\ UNCHANGED <<tasks, net>>
          /\ messages # <<>> /\ messages' = Tail(messages) /\ answered' = Head(messages).request
      BY <1>11 DEF OnNetCallback, Posted
    <2>2. /\ 1 \in DOMAIN messages /\ answered' = messages[1].request
          /\ \A i \in DOMAIN messages' :
                i \in Nat /\ i + 1 \in DOMAIN messages /\ messages'[i] = messages[i + 1] /\ 1 < i + 1
      BY <2>1, TailFacts DEF TypeInv, TypeOK
    <2>3. MessagesInOrder'
      BY <2>1, <2>2 DEF InOrder, MessagesInOrder
    <2>4. TasksInOrder'
      BY <2>1, <2>2 DEF InOrder, MessagesInOrder, TasksInOrder
    <2>5. answered' <= Posted' /\ NetInOrder'
      BY <2>1, <2>2 DEF InOrder, MessagesInOrder, NetInOrder
    <2> QED
      BY <2>3, <2>4, <2>5 DEF InOrder
  <1> QED
    BY <1>1, <1>2, <1>3, <1>4, <1>5, <1>6, <1>7, <1>8, <1>9, <1>10, <1>11 DEF UINext

\* A step of the network thread that takes no handler and posts no callback:
\* it goes on with its handler or is through with it.
LEMMA InOrderNetStutter ==
    ASSUME InOrder, UNCHANGED <<tasks, ui, issued, messages, answered>>,
           \/ net'.pc = "idle"
           \/ /\ net'.task = net.task
              /\ net.pc # "idle"
              /\ net'.pc \in AnswerDue => net.pc \in AnswerDue
    PROVE  InOrder'
  <1>1. Posted' = Posted /\ "idle" \notin AnswerDue
    BY DEF Posted, AnswerDue
  <1> QED
    BY <1>1 DEF InOrder, MessagesInOrder, TasksInOrder, NetInOrder

\* The network thread posts the callback of its handler.
LEMMA InOrderCallback ==
    ASSUME TypeInv, InOrder, NEW result \in Results, InvokeCallback(result),
           UNCHANGED <<tasks, ui, issued, answered>>,
           net.pc \in AnswerDue, net.task.request \in Requests, net'.pc \notin AnswerDue,
           net'.pc = "idle" \/ net'.task = net.task
    PROVE  InOrder'
  <1> USE RequestsAreNat
  <1> DEFINE m == [request |-> net.task.request, result |-> result]
  <1>1. m \in [request : Requests, result : Results] /\ m.request = net.task.request
    OBVIOUS
  <1>2. messages' = Append(messages, m)
    BY DEF InvokeCallback
  <1> HIDE DEF m
  <1>3. /\ DOMAIN messages' = 1..(Len(messages) + 1)
        /\ DOMAIN messages = 1..Len(messages) /\ Len(messages) \in Nat
        /\ \A i \in DOMAIN messages : messages'[i] = messages[i]
        /\ messages'[Len(messages) + 1].request = net.task.request
    BY <1>1, <1>2, AppendFacts DEF TypeInv, TypeOK
  <1>4. Posted' = Posted /\ net.pc # "idle"
    BY DEF Posted, AnswerDue
  <1>5. MessagesInOrder'
    <2> SUFFICES ASSUME NEW i \in DOMAIN messages' PROVE
           /\ answered < messages'[i].request
           /\ messages'[i].request <= Posted
           /\ \A j \in DOMAIN messages' :
                 i < j => messages'[i].request < messages'[j].request
           /\ \A j \in DOMAIN tasks :
                 tasks[j].kind # "reset" => messages'[i].request < tasks[j].request
      BY <1>4 DEF MessagesInOrder
    <2>1. CASE i \in DOMAIN messages
      BY <1>3, <1>4, <2>1, SMTT(60) DEF InOrder, MessagesInOrder
    <2>2. CASE i = Len(messages) + 1
      BY <1>3, <1>4, <2>2 DEF InOrder, TasksInOrder, NetInOrder
    <2> QED
      BY <1>3, <2>1, <2>2
  <1>6. TasksInOrder' /\ NetInOrder' /\ answered' <= Posted'
    BY <1>4 DEF InOrder, TasksInOrder, NetInOrder
  <1> QED
    BY <1>5, <1>6 DEF InOrder

\* The network thread keeps the order.
LEMMA InOrderNet == OrderInv /\ NetNext => InOrder'
  <1> SUFFICES ASSUME TypeInv, InOrder, NetNext PROVE InOrder'
    BY DEF OrderInv
  <1> USE ConstantsAssumption
  <1>0. net \in NetStates
    BY DEF TypeInv, TypeOK
  <1>1. CASE TakeTask
    <2>1. /\ net.pc = "idle" /\ tasks # <<>> /\ tasks' = Tail(tasks) /\ net'.task = Head(tasks)
          /\ UNCHANGED <<messages, answered>> /\ Posted' = Posted
          /\ net'.pc \in AnswerDue => Head(tasks).kind # "reset"
      <3>1. net'.pc = FirstStep(Head(tasks).kind)
        BY <1>1 DEF TakeTask
      <3>2. net'.pc \in AnswerDue => Head(tasks).kind # "reset"
        BY <3>1 DEF FirstStep, AnswerDue
      <3> QED
        BY <1>1, <3>2 DEF TakeTask, netOnly, Posted
    <2>2. /\ 1 \in DOMAIN tasks /\ net'.task = tasks[1]
          /\ net'.pc \in AnswerDue => tasks[1].kind # "reset"
          /\ \A i \in DOMAIN tasks' :
                i \in Nat /\ i + 1 \in DOMAIN tasks /\ tasks'[i] = tasks[i + 1] /\ 1 < i + 1
      BY <2>1, TailFacts DEF TypeInv, TypeOK
    <2>3. MessagesInOrder'
      BY <2>1, <2>2, RequestsAreNat DEF InOrder, MessagesInOrder
    <2>4. TasksInOrder'
      BY <2>1, <2>2, RequestsAreNat DEF InOrder, TasksInOrder
    <2>5. NetInOrder' /\ answered' <= Posted'
      BY <2>1, <2>2, RequestsAreNat DEF InOrder, TasksInOrder, NetInOrder
    <2> QED
      BY <2>3, <2>4, <2>5 DEF InOrder
  <1>2. ASSUME NEW status \in Statuses, RpcReturns(status) PROVE InOrder'
    BY <1>0, <1>2, InOrderNetStutter DEF RpcReturns, netOnly, AnswerDue, NetStates
  <1>3. CASE Unregister
    BY <1>0, <1>3, InOrderNetStutter DEF Unregister, netOnly, AnswerDue, NetStates
  <1>4. CASE RegisterAgain
    BY <1>0, <1>4, InOrderNetStutter DEF RegisterAgain, netOnly, AnswerDue, NetStates
  <1>5. CASE RpcCallback
    <2>1. /\ net.pc = "callback" /\ net'.pc = "resetLast" /\ net'.task = net.task
          /\ UNCHANGED <<tasks, ui, issued, answered>>
          /\ \E result \in Results : InvokeCallback(result)
      BY <1>0, <1>5 DEF RpcCallback, netOnly, NetStates, Results
    <2>2. net.task.request \in Requests
      BY <2>1 DEF TypeInv, HandlersWellFormed, WellFormed, RpcSteps
    <2> QED
      BY <2>1, <2>2, InOrderCallback DEF AnswerDue
  <1>6. CASE ResetLast
    BY <1>6, InOrderNetStutter, NetIdleType DEF ResetLast, netOnly
  <1>7. CASE LocalCallback
    <2>1. /\ net.pc = "local" /\ net'.pc = "idle"
          /\ UNCHANGED <<tasks, ui, issued, answered>>
          /\ \E result \in Results : InvokeCallback(result)
      BY <1>7, NetIdleType DEF LocalCallback, netOnly, Results
    <2>2. net.task.request \in Requests
      BY <2>1 DEF TypeInv, HandlersWellFormed, WellFormed
    <2> QED
      BY <2>1, <2>2, InOrderCallback DEF AnswerDue
  <1>8. CASE CancelFull
    BY <1>0, <1>8, InOrderNetStutter DEF CancelFull, netOnly, AnswerDue, NetStates
  <1>9. CASE SwitchFull
    BY <1>0, <1>9, InOrderNetStutter DEF SwitchFull, netOnly, AnswerDue, NetStates
  <1>10. CASE CancelSolidity
    BY <1>0, <1>10, InOrderNetStutter, NetIdleType DEF CancelSolidity, netOnly, AnswerDue, NetStates
  <1>11. CASE SwitchSolidity
    BY <1>11, InOrderNetStutter, NetIdleType DEF SwitchSolidity, netOnly
  <1> QED
    BY <1>1, <1>2, <1>3, <1>4, <1>5, <1>6, <1>7, <1>8, <1>9, <1>10, <1>11 DEF NetNext

\* In every state, requests stand in the order of their acceptance.
LEMMA OrderIsKept == Spec => []OrderInv
  <1>1. InOrder /\ UNCHANGED vars => InOrder'
    BY DEF vars, InOrder, MessagesInOrder, TasksInOrder, NetInOrder, Posted
  <1>2. TypeInv /\ InOrder /\ [Next]_vars => InOrder'
    BY <1>1, InOrderUI, InOrderNet DEF OrderInv, Next
  <1> QED
    BY <1>2, InOrderInit, TypeInvAlways, PTL DEF Spec, OrderInv

\* ReSetSub's Clear cancels no request that was made before the nodes were
\* changed: whatever it finds in the pool was made after it was posted.
THEOREM ClearHitsOnlyNewer == Spec => []ClearHitsOnlyNewerRequests
  <1>1. OrderInv /\ PoolHoldsLiveContexts => ClearHitsOnlyNewerRequests
    <2> SUFFICES ASSUME TypeInv, InOrder, PoolHoldsLiveContexts, NEW t \in Types,
                        net.pc \in ResetSteps, requestContextPool[t] # NoContext
                 PROVE  requestContextPool[t][1] > net.task.request
      BY DEF OrderInv, ClearHitsOnlyNewerRequests, ResetSteps
    <2> DEFINE c == requestContextPool[t]
    <2>1. Owned(t, c)
      BY DEF PoolHoldsLiveContexts
    <2>2. net.pc # "idle" /\ net.pc \notin {"rpc", "unregister", "rpcAgain", "unregisterAgain"}
      BY DEF ResetSteps
    <2>3. net.task.request <= Posted
      BY <2>2 DEF InOrder, NetInOrder
    <2>4. CASE BeingPosted(t) /\ ui.context = c
      BY <2>3, <2>4, RequestsAreNat DEF BeingPosted, Posted, TypeInv, HandlersWellFormed
    <2>5. ASSUME NEW i \in DOMAIN tasks, tasks[i].kind = "rpc", c = <<tasks[i].request, 1>>
          PROVE  c[1] > net.task.request
      BY <2>2, <2>5, RequestsAreNat DEF InOrder, TasksInOrder
    <2> QED
      BY <2>1, <2>2, <2>4, <2>5 DEF Owned
  <1> QED
    BY <1>1, OrderIsKept, PoolIsLive, PTL

-----------------------------------------------------------------------------
(* NetworkThread implements the safety part of RequestService.              *)

\* Where a request that waits for its callback can be.
Waits(r) ==
    \/ ui.pc \in {"setLast", "post"} /\ r = ui.context[1]
    \/ \E i \in DOMAIN tasks : tasks[i].kind # "reset" /\ r = tasks[i].request
    \/ net.pc \in AnswerDue /\ r = net.task.request
    \/ \E i \in DOMAIN messages : r = messages[i].request

\* Waiting is the set of the requests that wait.
LEMMA WaitingMembers ==
    /\ \A r : r \in Waiting <=> Waits(r)
    /\ \A r : r \in Waiting' <=> Waits(r)'
  BY DEF Waiting, Waits

\* A step that moves a request on, at most, is a stuttering step of the service.
LEMMA ServiceStutter ==
    ASSUME UNCHANGED <<issued, answered>>, \A r : Waits(r)' <=> Waits(r)
    PROVE  UNCHANGED Service!serviceVars
  BY WaitingMembers DEF Service!serviceVars

\* The first callback in the message queue is that of the oldest request.
LEMMA HeadIsOldest ==
    ASSUME TypeInv, InOrder, messages # <<>>
    PROVE  /\ \A r : Waits(r) => r \in Nat /\ messages[1].request <= r
           /\ \A i \in DOMAIN messages : i # 1 => messages[i].request # messages[1].request
  <1>1. 1 \in DOMAIN messages /\ \A i \in DOMAIN messages : i # 1 => 1 < i
    BY TailFacts, RequestsAreNat DEF TypeInv, TypeOK
  <1>2. ui.pc \in {"setLast", "post"} =>
            ui.context[1] \in Nat /\ messages[1].request < ui.context[1]
    BY <1>1, RequestsAreNat DEF TypeInv, HandlersWellFormed, InOrder, MessagesInOrder, Posted
  <1>3. \A i \in DOMAIN tasks :
            tasks[i].kind # "reset" => messages[1].request < tasks[i].request
    BY <1>1 DEF InOrder, MessagesInOrder
  <1>4. net.pc \in AnswerDue => messages[1].request < net.task.request
    BY <1>1 DEF InOrder, MessagesInOrder
  <1>5. \A i \in DOMAIN messages : i # 1 => messages[1].request < messages[i].request
    BY <1>1 DEF InOrder, MessagesInOrder
  <1> QED
    BY <1>1, <1>2, <1>3, <1>4, <1>5, RequestsAreNat DEF Waits

\* Every step of the UI thread accepts a request, answers one or is invisible.
LEMMA ServiceUI ==
    OrderInv /\ UINext => Service!ServiceNext \/ UNCHANGED Service!serviceVars
  <1> SUFFICES ASSUME TypeInv, InOrder, UINext
               PROVE  Service!ServiceNext \/ UNCHANGED Service!serviceVars
    BY DEF OrderInv
  <1> USE ConstantsAssumption
  <1> DEFINE Stutter == UNCHANGED <<issued, answered>> /\ \A r : Waits(r)' <=> Waits(r)
  <1>1. ASSUME NEW t \in Types, Duplicated(t) PROVE Stutter
    BY <1>1 DEF Duplicated, vars, Waits
  <1>2. ASSUME NEW t \in Types, CallRpc(t) PROVE Stutter
    BY <1>2 DEF CallRpc, uiOnly, Waits
  <1>3. ASSUME GetLast PROVE Stutter
    BY <1>3 DEF GetLast, uiOnly, Waits, TypeInv, TypeOK
  <1>4. ASSUME TryCancelLast PROVE Stutter
    BY <1>4 DEF TryCancelLast, uiOnly, Waits, TypeInv, TypeOK
  <1>5. ASSUME Lookup PROVE Stutter
    BY <1>5 DEF Lookup, Idle, uiOnly, Waits, TypeInv, TypeOK
  <1>6. CASE Register
    <2>1. /\ ui.pc = "register" /\ ui'.pc = "setLast" /\ ui'.context[1] = issued + 1
          /\ issued < MaxRequests /\ issued' = issued + 1
          /\ UNCHANGED <<tasks, net, messages, answered>>
      BY <1>6 DEF Register, uiOnly, TypeInv, TypeOK, HandlersWellFormed
    <2>2. \A r : Waits(r)' <=> Waits(r) \/ r = issued + 1
      BY <2>1 DEF Waits
    <2>3. Service!Accept
      BY <2>1, <2>2, WaitingMembers DEF Service!Accept
    <2> QED
      BY <2>3 DEF Service!ServiceNext
  <1>7. ASSUME SetLast PROVE Stutter
    BY <1>7 DEF SetLast, uiOnly, Waits, TypeInv, TypeOK
  <1>8. ASSUME PostRpc PROVE Stutter
    <2> DEFINE e == [kind |-> "rpc", type |-> ui.type, request |-> ui.context[1],
                     full |-> configured.full, solidity |-> configured.solidity]
    <2>1. /\ e \in Tasks /\ tasks' = Append(tasks, e) /\ UNCHANGED <<net, messages, answered, issued>>
          /\ e.request = ui.context[1] /\ e.kind # "reset"
          /\ ui.pc = "post" /\ ui'.pc = "idle"
      BY <1>8 DEF PostRpc, PostTask, uiOnly, Tasks, Requests, Idle, TypeInv, TypeOK,
                  HandlersWellFormed
    <2> HIDE DEF e
    <2>2. /\ DOMAIN tasks' = DOMAIN tasks \cup {Len(tasks) + 1}
          /\ \A i \in DOMAIN tasks : tasks'[i] = tasks[i]
          /\ tasks'[Len(tasks) + 1] = e
      BY <2>1, AppendFacts DEF TypeInv, TypeOK
    <2> QED
      BY <2>1, <2>2 DEF Waits
  <1>9. CASE PostLocal
    <2> DEFINE e == [kind |-> "local", type |-> RequestCount, request |-> issued + 1,
                     full |-> configured.full, solidity |-> configured.solidity]
    <2>1. /\ e \in Tasks /\ tasks' = Append(tasks, e) /\ UNCHANGED <<ui, net, messages, answered>>
          /\ e.request = issued + 1 /\ e.kind # "reset"
          /\ issued < MaxRequests /\ issued' = issued + 1
      BY <1>9 DEF PostLocal, PostTask, uiOnly, Tasks, TypeInv, TypeOK
    <2> HIDE DEF e
    <2>2. /\ DOMAIN tasks' = DOMAIN tasks \cup {Len(tasks) + 1}
          /\ \A i \in DOMAIN tasks : tasks'[i] = tasks[i]
          /\ tasks'[Len(tasks) + 1] = e
      BY <2>1, AppendFacts DEF TypeInv, TypeOK
    <2>3. \A r : Waits(r)' <=> Waits(r) \/ r = issued + 1
      BY <2>1, <2>2 DEF Waits
    <2>4. Service!Accept
      BY <2>1, <2>3, WaitingMembers DEF Service!Accept
    <2> QED
      BY <2>4 DEF Service!ServiceNext
  <1>10. ASSUME NEW f \in Addresses \cup {NoAddress}, NEW s \in Addresses \cup {NoAddress},
                ReSetSub(f, s)
         PROVE  Stutter
    <2> DEFINE e == [kind |-> "reset", type |-> RequestCount, request |-> issued,
                     full |-> f, solidity |-> s]
    <2>1. /\ e \in Tasks /\ tasks' = Append(tasks, e)
          /\ UNCHANGED <<ui, net, messages, answered, issued>> /\ e.kind = "reset"
      BY <1>10 DEF ReSetSub, PostTask, Tasks, TypeInv, TypeOK
    <2> HIDE DEF e
    <2>2. /\ DOMAIN tasks' = DOMAIN tasks \cup {Len(tasks) + 1}
          /\ \A i \in DOMAIN tasks : tasks'[i] = tasks[i]
          /\ tasks'[Len(tasks) + 1] = e
      BY <2>1, AppendFacts DEF TypeInv, TypeOK
    <2> QED
      BY <2>1, <2>2 DEF Waits
  <1>11. CASE OnNetCallback
    <2> DEFINE r0 == messages[1].request
    <2>1. /\ UNCHANGED <<ui, tasks, net, issued>> /\ ui.pc = "idle"
          /\ messages # <<>> /\ messages' = Tail(messages) /\ answered' = Head(messages).request
      BY <1>11 DEF OnNetCallback
    <2>2. /\ 1 \in DOMAIN messages /\ answered' = r0
          /\ \A i \in DOMAIN messages' :
                i + 1 \in DOMAIN messages /\ messages'[i] = messages[i + 1] /\ i + 1 # 1
          /\ \A i \in DOMAIN messages :
                i # 1 => i - 1 \in DOMAIN messages' /\ messages'[i - 1] = messages[i]
      <3>1. \A i \in DOMAIN messages' : i \in Nat /\ i # 0
        BY <2>1, TailFacts DEF TypeInv, TypeOK
      <3> QED
        BY <2>1, <3>1, TailFacts DEF TypeInv, TypeOK
    <2>3. /\ \A r : Waits(r) => r \in Nat /\ r0 <= r
          /\ \A i \in DOMAIN messages : i # 1 => messages[i].request # r0
      BY <2>1, HeadIsOldest
    <2>4. r0 \in Nat /\ answered < r0 /\ Waits(r0)
      BY <2>2, RequestsAreNat DEF Waits, InOrder, MessagesInOrder
    <2>5. \A r : Waits(r)' <=> Waits(r) /\ r # r0
      <3>1. \A i \in DOMAIN tasks : tasks[i].kind # "reset" => tasks[i].request # r0
        BY <2>2, RequestsAreNat DEF InOrder, MessagesInOrder
      <3>2. net.pc \in AnswerDue => net.task.request # r0
        BY <2>2, RequestsAreNat DEF InOrder, MessagesInOrder
      <3>3. \A r : (\E i \in DOMAIN messages' : r = messages'[i].request)
                    <=> r # r0 /\ \E i \in DOMAIN messages : r = messages[i].request
        BY <2>2, <2>3
      <3> QED
        BY <2>1, <3>1, <3>2, <3>3, ZenonT(60) DEF Waits
    <2>6. Service!Answer
      <3>1. r0 \in Waiting /\ \A other \in Waiting : r0 <= other
        BY <2>3, <2>4, WaitingMembers
      <3>2. Waiting' = Waiting \ {r0}
        BY <2>5, WaitingMembers
      <3> QED
        BY <2>1, <2>2, <2>4, <3>1, <3>2 DEF Service!Answer
    <2> QED
      BY <2>6 DEF Service!ServiceNext
  <1> QED
    BY <1>1, <1>2, <1>3, <1>4, <1>5, <1>6, <1>7, <1>8, <1>9, <1>10, <1>11, ServiceStutter
       DEF UINext

\* Every step of the network thread is invisible: it only moves requests on.
LEMMA ServiceNet == OrderInv /\ NetNext => UNCHANGED Service!serviceVars
  <1> SUFFICES ASSUME TypeInv, NetNext PROVE UNCHANGED Service!serviceVars
    BY DEF OrderInv
  <1> USE ConstantsAssumption
  <1> DEFINE Stutter == UNCHANGED <<issued, answered>> /\ \A r : Waits(r)' <=> Waits(r)
  <1>0. net \in NetStates
    BY DEF TypeInv, TypeOK
  <1>1. ASSUME TakeTask PROVE Stutter
    <2>1. /\ net.pc = "idle" /\ tasks # <<>> /\ tasks' = Tail(tasks) /\ net'.task = Head(tasks)
          /\ UNCHANGED <<messages, answered, issued, ui>>
          /\ net'.pc = FirstStep(Head(tasks).kind)
      BY <1>1 DEF TakeTask, netOnly
    <2>2. /\ 1 \in DOMAIN tasks /\ Head(tasks) = tasks[1] /\ Head(tasks) \in Tasks
          /\ \A i \in DOMAIN tasks' : i + 1 \in DOMAIN tasks /\ tasks'[i] = tasks[i + 1]
          /\ \A i \in DOMAIN tasks :
                i # 1 => i - 1 \in DOMAIN tasks' /\ tasks'[i - 1] = tasks[i]
      BY <2>1, TailFacts DEF TypeInv, TypeOK
    <2>3. net'.pc \in AnswerDue <=> tasks[1].kind # "reset"
      BY <2>1, <2>2 DEF FirstStep, AnswerDue, Tasks
    <2>4. \A r : (\E i \in DOMAIN tasks : tasks[i].kind # "reset" /\ r = tasks[i].request)
                 <=> \/ tasks[1].kind # "reset" /\ r = tasks[1].request
                     \/ \E i \in DOMAIN tasks' :
                           tasks'[i].kind # "reset" /\ r = tasks'[i].request
      BY <2>2
    <2> QED
      BY <2>1, <2>2, <2>3, <2>4 DEF Waits, AnswerDue
  <1>2. ASSUME NEW status \in Statuses, RpcReturns(status) PROVE Stutter
    BY <1>0, <1>2 DEF RpcReturns, netOnly, AnswerDue, NetStates, Waits
  <1>3. ASSUME Unregister PROVE Stutter
    BY <1>0, <1>3 DEF Unregister, netOnly, AnswerDue, NetStates, Waits
  <1>4. ASSUME RegisterAgain PROVE Stutter
    BY <1>0, <1>4 DEF RegisterAgain, netOnly, AnswerDue, NetStates, Waits
  <1>5. ASSUME NEW result \in Results, InvokeCallback(result),
               UNCHANGED <<tasks, ui, issued, answered>>,
               net.pc \in AnswerDue, net.task.request \in Requests, net'.pc \notin AnswerDue
        PROVE  Stutter
    <2> DEFINE m == [request |-> net.task.request, result |-> result]
    <2>1. m \in [request : Requests, result : Results] /\ m.request = net.task.request
      BY <1>5
    <2>2. messages' = Append(messages, m)
      BY <1>5 DEF InvokeCallback
    <2> HIDE DEF m
    <2>3. /\ DOMAIN messages' = DOMAIN messages \cup {Len(messages) + 1}
          /\ \A i \in DOMAIN messages : messages'[i] = messages[i]
          /\ messages'[Len(messages) + 1] = m
      BY <2>1, <2>2, AppendFacts DEF TypeInv, TypeOK
    <2> QED
      BY <1>5, <2>1, <2>3 DEF Waits
  <1>6. ASSUME RpcCallback PROVE Stutter
    <2>1. /\ net.pc = "callback" /\ net'.pc = "resetLast"
          /\ UNCHANGED <<tasks, ui, issued, answered>>
          /\ \E result \in Results : InvokeCallback(result)
      BY <1>0, <1>6 DEF RpcCallback, netOnly, NetStates, Results
    <2>2. net.task.request \in Requests
      BY <2>1 DEF TypeInv, HandlersWellFormed, WellFormed, RpcSteps
    <2> QED
      BY <1>5, <2>1, <2>2 DEF AnswerDue
  <1>7. ASSUME LocalCallback PROVE Stutter
    <2>1. /\ net.pc = "local" /\ net'.pc = "idle"
          /\ UNCHANGED <<tasks, ui, issued, answered>>
          /\ \E result \in Results : InvokeCallback(result)
      BY <1>7, NetIdleType DEF LocalCallback, netOnly, Results
    <2>2. net.task.request \in Requests
      BY <2>1 DEF TypeInv, HandlersWellFormed, WellFormed
    <2> QED
      BY <1>5, <2>1, <2>2 DEF AnswerDue
  <1>8. ASSUME ResetLast PROVE Stutter
    BY <1>8, NetIdleType DEF ResetLast, netOnly, AnswerDue, Waits
  <1>9. ASSUME CancelFull PROVE Stutter
    BY <1>0, <1>9 DEF CancelFull, netOnly, AnswerDue, NetStates, Waits
  <1>10. ASSUME SwitchFull PROVE Stutter
    BY <1>0, <1>10 DEF SwitchFull, netOnly, AnswerDue, NetStates, Waits
  <1>11. ASSUME CancelSolidity PROVE Stutter
    BY <1>0, <1>11, NetIdleType DEF CancelSolidity, netOnly, AnswerDue, NetStates, Waits
  <1>12. ASSUME SwitchSolidity PROVE Stutter
    BY <1>12, NetIdleType DEF SwitchSolidity, netOnly, AnswerDue, Waits
  <1>13. Stutter
    BY <1>1, <1>2, <1>3, <1>4, <1>6, <1>7, <1>8, <1>9, <1>10, <1>11, <1>12 DEF NetNext
  <1> QED
    BY <1>13, ServiceStutter

\* The network thread implements the safety part of the service: every accepted
\* request is answered at most once and in the order of acceptance, whatever is
\* cancelled, retried, dropped or reset, for every interleaving of the threads.
THEOREM ImplementsOrder == Spec => AnswersInOrder
  <1>1. Init => Service!ServiceInit
    <2> SUFFICES ASSUME Init PROVE Service!ServiceInit
      OBVIOUS
    <2>1. \A r : ~Waits(r)
      BY DEF Init, Waits, Idle, NetIdle, AnswerDue
    <2> QED
      BY <2>1, WaitingMembers DEF Init, Service!ServiceInit
  <1>2. UNCHANGED vars => UNCHANGED Service!serviceVars
    BY DEF vars, Service!serviceVars, Waiting
  <1>3. OrderInv /\ [Next]_vars => [Service!ServiceNext]_(Service!serviceVars)
    BY <1>2, ServiceUI, ServiceNet DEF Next
  <1> QED
    BY <1>1, <1>3, OrderIsKept, PTL DEF Spec, AnswersInOrder, Service!ServiceSafety
=============================================================================
