---------------------------- MODULE NetworkThread ---------------------------
(***************************************************************************)
(* CNetworkThread (wallet/core/network_thread.{h,cpp}): the UI thread      *)
(* starts remote calls through RPC_PROC, one network thread runs the       *)
(* posted tasks of an io_service in order, and every finished task posts   *)
(* its callback back to the UI thread's message queue.                     *)
(*                                                                         *)
(* The two threads share requestContextPool_ (behind contextPoolLock_,     *)
(* except in ReSetSub's Clear) and lastCallType_ (unprotected).  Each      *)
(* access to either of them is a step of its own.                          *)
(***************************************************************************)
EXTENDS Naturals, Sequences

CONSTANTS
    Types,          \* NetworkRequestType, without RequestCount.
    ExtensionTypes, \* The types sent through extension_stub_, the stub of
                    \* the solidity node; the others use stub_.
    RequestCount,   \* The enum's end marker: no call is the last one.
    Addresses,      \* host:port strings of nodes.
    NoAddress,      \* The empty string, an argument ReSetSub ignores.
    MaxRequests,    \* Bound on the accepted requests.
    MaxResets       \* Bound on the calls of ReSetSub.

ASSUME ConstantsAssumption ==
    /\ ExtensionTypes \subseteq Types
    /\ RequestCount \notin Types
    /\ NoAddress \notin Addresses
    /\ MaxRequests \in Nat
    /\ MaxResets \in Nat

VARIABLES
    lastCallType,       \* lastCallType_
    requestContextPool, \* requestContextPool_: type -> context or NoContext
    cancelled,          \* the contexts on which TryCancel was called
    full, solidity,     \* full_address_port_, solidity_address_port_ and so
                        \* the nodes that the stubs are connected to
    tasks,              \* the handlers queued in io_service_, oldest first
    net,                \* the network thread: where it is in which task
    ui,                 \* the UI thread: where it is in RPC_PROC
    messages,           \* Event_Network_Response messages not yet handled
    issued,             \* how many requests with a callback were accepted
    answered,           \* the request whose callback ran last (history)
    configured,         \* the nodes asked for by the ReSetSub calls so far
                        \* (history)
    resets              \* how many ReSetSub calls were made

vars == <<lastCallType, requestContextPool, cancelled, full, solidity, tasks,
          net, ui, messages, issued, answered, configured, resets>>

\* Requests are numbered as they are accepted.  A grpc::ClientContext is named
\* after the request that made it and the attempt (1, or 2 for the retry) it
\* was made for, so that a new context is never one that exists.
Requests  == 1..MaxRequests
Contexts  == Requests \X {1, 2}
NoContext == <<0, 0>>

\* What a status tells RPC_PROC: only UNAVAILABLE is looked at, and the answer
\* is the default message unless the call went through.
Statuses == {"OK", "UNAVAILABLE", "FAILED"}
Results  == {"answer", "default"}

\* A queued handler.  "rpc" is RPC_PROC's, "local" the one of Login and of
\* CreateAccountWrapper, "reset" ReSetSub's.  request numbers the callback; for
\* a reset it is how many requests were accepted before it.  full and solidity
\* are ReSetSub's arguments; for the others they record, as history, the nodes
\* that were configured when the handler was posted.
Tasks == [kind : {"rpc", "local", "reset"}, type : Types \cup {RequestCount},
          request : 0..MaxRequests,
          full : Addresses \cup {NoAddress}, solidity : Addresses \cup {NoAddress}]

NoTask == [kind |-> "local", type |-> RequestCount, request |-> 0,
           full |-> NoAddress, solidity |-> NoAddress]

Idle == [pc |-> "idle", type |-> RequestCount, context |-> NoContext]

NetIdle == [pc |-> "idle", task |-> NoTask, context |-> NoContext, status |-> "OK"]

\* Load: the nodes of config.json, or the compiled-in ones where it names none.
Load ==
    /\ full \in Addresses
    /\ solidity \in Addresses

Init ==
    /\ lastCallType = RequestCount
    /\ requestContextPool = [t \in Types |-> NoContext]
    /\ cancelled = {}
    /\ Load
    /\ tasks = <<>>
    /\ net = NetIdle
    /\ ui = Idle
    /\ messages = <<>>
    /\ issued = 0
    /\ answered = 0
    /\ configured = [full |-> full, solidity |-> solidity]
    /\ resets = 0

-----------------------------------------------------------------------------
(* The context pool.                                                        *)

\* GetRequestContext; nothing is ever registered for RequestCount.
GetRequestContext(t) ==
    IF t \in Types THEN requestContextPool[t] ELSE NoContext

\* RegisterRequestContext: std::map::emplace keeps an entry that is there.
RegisterRequestContext(t, c) ==
    requestContextPool' =
        [requestContextPool EXCEPT ![t] = IF @ = NoContext THEN c ELSE @]

\* UnregiesterRequestContext erases the type's entry, whoever made it.
UnregiesterRequestContext(t) ==
    requestContextPool' = [requestContextPool EXCEPT ![t] = NoContext]

-----------------------------------------------------------------------------
(* The UI thread: RPC_PROC up to its return.                                *)

uiOnly == <<full, solidity, net, messages, answered, configured, resets>>

\* The call is refused: it has the type of the last one.
Duplicated(t) ==
    /\ ui.pc = "idle"
    /\ lastCallType = t
    /\ UNCHANGED vars

CallRpc(t) ==
    /\ ui.pc = "idle"
    /\ issued < MaxRequests
    /\ lastCallType # t
    /\ ui' = [Idle EXCEPT !.pc = "getLast", !.type = t]
    /\ UNCHANGED <<uiOnly, lastCallType, requestContextPool, cancelled, tasks, issued>>

\* lastCallType_ is read a second time to find the context to cancel.
GetLast ==
    /\ ui.pc = "getLast"
    /\ ui' = [ui EXCEPT !.pc = "tryCancel",
                        !.context = GetRequestContext(lastCallType)]
    /\ UNCHANGED <<uiOnly, lastCallType, requestContextPool, cancelled, tasks, issued>>

TryCancelLast ==
    /\ ui.pc = "tryCancel"
    /\ cancelled' = cancelled \cup ({ui.context} \ {NoContext})
    /\ ui' = [ui EXCEPT !.pc = "lookup", !.context = NoContext]
    /\ UNCHANGED <<uiOnly, lastCallType, requestContextPool, tasks, issued>>

\* A context for the type means a call of it is under way: drop this one.
Lookup ==
    /\ ui.pc = "lookup"
    /\ ui' = IF GetRequestContext(ui.type) = NoContext
             THEN [ui EXCEPT !.pc = "register"] ELSE Idle
    /\ UNCHANGED <<uiOnly, lastCallType, requestContextPool, cancelled, tasks, issued>>

Register ==
    /\ ui.pc = "register"
    /\ issued' = issued + 1
    /\ ui' = [ui EXCEPT !.pc = "setLast", !.context = <<issued + 1, 1>>]
    /\ RegisterRequestContext(ui.type, <<issued + 1, 1>>)
    /\ UNCHANGED <<uiOnly, lastCallType, cancelled, tasks>>

SetLast ==
    /\ ui.pc = "setLast"
    /\ lastCallType' = ui.type
    /\ ui' = [ui EXCEPT !.pc = "post"]
    /\ UNCHANGED <<uiOnly, requestContextPool, cancelled, tasks, issued>>

\* Fault: a reset overtakes the handlers that are queued.
PostTask_ResetFirst(kind, t, r, f, s) ==
    LET task == [kind |-> kind, type |-> t, request |-> r, full |-> f, solidity |-> s]
    IN  tasks' = IF kind = "reset" THEN <<task>> \o tasks ELSE Append(tasks, task)

\* PostTask appends a handler to the io_service's queue.
PostTask(kind, t, r, f, s) ==
    tasks' = Append(tasks, [kind |-> kind, type |-> t, request |-> r,
                            full |-> f, solidity |-> s])

PostRpc ==
    /\ ui.pc = "post"
    /\ PostTask("rpc", ui.type, ui.context[1], configured.full, configured.solidity)
    /\ ui' = Idle
    /\ UNCHANGED <<uiOnly, lastCallType, requestContextPool, cancelled, issued>>

\* Login and CreateAccountWrapper: a task of its own, no context, no check.
PostLocal ==
    /\ ui.pc = "idle"
    /\ issued < MaxRequests
    /\ issued' = issued + 1
    /\ PostTask("local", RequestCount, issued + 1, configured.full, configured.solidity)
    /\ UNCHANGED <<uiOnly, lastCallType, requestContextPool, cancelled, ui>>

\* Fault: the UI thread replaces the full node's stub itself.
ReSetSub_OnUIThread(f, s) ==
    /\ ui.pc = "idle"
    /\ resets < MaxResets
    /\ resets' = resets + 1
    /\ full' = IF f = NoAddress THEN full ELSE f
    /\ PostTask("reset", RequestCount, issued, NoAddress, s)
    /\ configured' = [full |-> full',
                      solidity |-> IF s = NoAddress THEN configured.solidity ELSE s]
    /\ UNCHANGED <<lastCallType, requestContextPool, cancelled, solidity,
                   net, ui, messages, issued, answered>>

ReSetSub(f, s) ==
    /\ ui.pc = "idle"
    /\ resets < MaxResets
    /\ resets' = resets + 1
    /\ PostTask("reset", RequestCount, issued, f, s)
    /\ configured' = [full     |-> IF f = NoAddress THEN configured.full ELSE f,
                      solidity |-> IF s = NoAddress THEN configured.solidity ELSE s]
    /\ UNCHANGED <<lastCallType, requestContextPool, cancelled, full, solidity,
                   net, ui, messages, issued, answered>>

\* OnNetCallback runs the oldest posted callback.  What the callback does next
\* is a further call of the UI thread.
OnNetCallback ==
    /\ ui.pc = "idle"
    /\ messages # <<>>
    /\ answered' = Head(messages).request
    /\ messages' = Tail(messages)
    /\ UNCHANGED <<lastCallType, requestContextPool, cancelled, full, solidity,
                   tasks, net, ui, issued, configured, resets>>

UINext ==
    \/ \E t \in Types : Duplicated(t) \/ CallRpc(t)
    \/ GetLast \/ TryCancelLast \/ Lookup \/ Register \/ SetLast \/ PostRpc
    \/ PostLocal
    \/ \E f, s \in Addresses \cup {NoAddress} : ReSetSub(f, s)
    \/ OnNetCallback

-----------------------------------------------------------------------------
(* The network thread: io_service::run, one handler after the other.        *)

netOnly == <<ui, issued, answered, configured, resets>>

\* The label at which each kind of handler starts.
FirstStep(kind) ==
    CASE kind = "rpc"   -> "rpc"
      [] kind = "local" -> "local"
      [] kind = "reset" -> "cancelFull"

\* A call whose context was cancelled before it starts can only fail.
TakeTask ==
    /\ net.pc = "idle"
    /\ tasks # <<>>
    /\ net' = [pc |-> FirstStep(Head(tasks).kind), task |-> Head(tasks),
               context |-> <<Head(tasks).request, 1>>,
               status |-> IF <<Head(tasks).request, 1>> \in cancelled
                          THEN "FAILED" ELSE "OK"]
    /\ tasks' = Tail(tasks)
    /\ UNCHANGED <<netOnly, lastCallType, requestContextPool, cancelled, full,
                   solidity, messages>>

\* The blocking stub call returns.  A TryCancel during the call may come too
\* late to change its outcome.
RpcReturns(status) ==
    /\ net.pc \in {"rpc", "rpcAgain"}
    /\ net.status = "FAILED" => status = "FAILED"
    /\ net' = [net EXCEPT !.pc = IF @ = "rpc" THEN "unregister" ELSE "unregisterAgain",
                          !.status = status]
    /\ UNCHANGED <<netOnly, lastCallType, requestContextPool, cancelled, full,
                   solidity, tasks, messages>>

\* Fault: the retry's context stays in the pool.
Unregister_FirstOnly ==
    /\ net.pc \in {"unregister", "unregisterAgain"}
    /\ IF net.pc = "unregister" THEN UnregiesterRequestContext(net.task.type)
                                ELSE UNCHANGED requestContextPool
    /\ net' = [net EXCEPT !.pc = IF @ = "unregister" /\ net.status = "UNAVAILABLE"
                                 THEN "registerAgain" ELSE "callback"]
    /\ UNCHANGED <<netOnly, lastCallType, cancelled, full, solidity, tasks, messages>>

\* Fault: the call is repeated for as long as the node is not available.
Unregister_RetryForever ==
    /\ net.pc \in {"unregister", "unregisterAgain"}
    /\ UnregiesterRequestContext(net.task.type)
    /\ net' = [net EXCEPT !.pc = IF net.status = "UNAVAILABLE"
                                 THEN "registerAgain" ELSE "callback"]
    /\ UNCHANGED <<netOnly, lastCallType, cancelled, full, solidity, tasks, messages>>

Unregister ==
    /\ net.pc \in {"unregister", "unregisterAgain"}
    /\ UnregiesterRequestContext(net.task.type)
    /\ net' = [net EXCEPT !.pc = IF @ = "unregister" /\ net.status = "UNAVAILABLE"
                                 THEN "registerAgain" ELSE "callback"]
    /\ UNCHANGED <<netOnly, lastCallType, cancelled, full, solidity, tasks, messages>>

\* The one retry, with a context of its own.
RegisterAgain ==
    /\ net.pc = "registerAgain"
    /\ RegisterRequestContext(net.task.type, <<net.task.request, 2>>)
    /\ net' = [net EXCEPT !.pc = "rpcAgain", !.context = <<net.task.request, 2>>,
                          !.status = "OK"]
    /\ UNCHANGED <<netOnly, lastCallType, cancelled, full, solidity, tasks, messages>>

InvokeCallback(result) ==
    messages' = Append(messages, [request |-> net.task.request, result |-> result])

\* Fault: a failed call has no callback.
RpcCallback_OnlyOnSuccess ==
    /\ net.pc = "callback"
    /\ IF net.status = "OK" THEN InvokeCallback("answer") ELSE UNCHANGED messages
    /\ net' = [net EXCEPT !.pc = "resetLast"]
    /\ UNCHANGED <<netOnly, lastCallType, requestContextPool, cancelled, full,
                   solidity, tasks>>

RpcCallback ==
    /\ net.pc = "callback"
    /\ InvokeCallback(IF net.status = "OK" THEN "answer" ELSE "default")
    /\ net' = [net EXCEPT !.pc = "resetLast"]
    /\ UNCHANGED <<netOnly, lastCallType, requestContextPool, cancelled, full,
                   solidity, tasks>>

\* Fault: only a handler whose call failed resets the last call.
ResetLast_OnlyOnFailure ==
    /\ net.pc = "resetLast"
    /\ lastCallType' = IF net.status = "OK" THEN lastCallType ELSE RequestCount
    /\ net' = NetIdle
    /\ UNCHANGED <<netOnly, requestContextPool, cancelled, full, solidity, tasks,
                   messages>>

\* Whatever call is the last one by now.
ResetLast ==
    /\ net.pc = "resetLast"
    /\ lastCallType' = RequestCount
    /\ net' = NetIdle
    /\ UNCHANGED <<netOnly, requestContextPool, cancelled, full, solidity, tasks,
                   messages>>

LocalCallback ==
    /\ net.pc = "local"
    /\ InvokeCallback("answer")
    /\ net' = NetIdle
    /\ UNCHANGED <<netOnly, lastCallType, requestContextPool, cancelled, full,
                   solidity, tasks>>

\* ReSetSub's Clear takes no lock: the UI thread may register a context between
\* the loop that cancels and the clear that erases.
CancelAll ==
    cancelled' = cancelled \cup
        ({requestContextPool[t] : t \in Types} \ {NoContext})

EraseAll == requestContextPool' = [t \in Types |-> NoContext]

\* The address is stored and a stub made for it: from now on the calls of the
\* stub go there.
CreateFullStub(address)     == full' = address
CreateSolidutyStub(address) == solidity' = address

\* Fault: an empty address is taken for a new one.
CancelFull_EvenEmpty ==
    /\ net.pc = "cancelFull"
    /\ IF net.task.full # full
       THEN CancelAll /\ net' = [net EXCEPT !.pc = "switchFull"]
       ELSE UNCHANGED cancelled /\ net' = [net EXCEPT !.pc = "cancelSolidity"]
    /\ UNCHANGED <<netOnly, lastCallType, requestContextPool, full, solidity, tasks,
                   messages>>

CancelFull ==
    /\ net.pc = "cancelFull"
    /\ IF net.task.full \notin {NoAddress, full}
       THEN CancelAll /\ net' = [net EXCEPT !.pc = "switchFull"]
       ELSE UNCHANGED cancelled /\ net' = [net EXCEPT !.pc = "cancelSolidity"]
    /\ UNCHANGED <<netOnly, lastCallType, requestContextPool, full, solidity, tasks,
                   messages>>

SwitchFull ==
    /\ net.pc = "switchFull"
    /\ EraseAll
    /\ CreateFullStub(net.task.full)
    /\ net' = [net EXCEPT !.pc = "cancelSolidity"]
    /\ UNCHANGED <<netOnly, lastCallType, cancelled, solidity, tasks, messages>>

CancelSolidity ==
    /\ net.pc = "cancelSolidity"
    /\ IF net.task.solidity \notin {NoAddress, solidity}
       THEN CancelAll /\ net' = [net EXCEPT !.pc = "switchSolidity"]
       ELSE UNCHANGED cancelled /\ net' = NetIdle
    /\ UNCHANGED <<netOnly, lastCallType, requestContextPool, full, solidity, tasks,
                   messages>>

SwitchSolidity ==
    /\ net.pc = "switchSolidity"
    /\ EraseAll
    /\ CreateSolidutyStub(net.task.solidity)
    /\ net' = NetIdle
    /\ UNCHANGED <<netOnly, lastCallType, cancelled, full, tasks, messages>>

NetNext ==
    \/ TakeTask
    \/ \E status \in Statuses : RpcReturns(status)
    \/ Unregister \/ RegisterAgain \/ RpcCallback \/ ResetLast
    \/ LocalCallback
    \/ CancelFull \/ SwitchFull \/ CancelSolidity \/ SwitchSolidity

Next == UINext \/ NetNext

\* The network thread never stops; a stub call returns because the node answers
\* or the connection breaks (no deadline is set: this is an assumption about
\* the node).  The UI thread finishes a handler it began, and GetMessage
\* hands out posted messages before input, so that a user who keeps clicking
\* does not starve the callbacks.
Fairness ==
    /\ WF_vars(NetNext)
    /\ WF_vars(GetLast \/ TryCancelLast \/ Lookup \/ Register \/ SetLast \/ PostRpc)
    /\ SF_vars(OnNetCallback)

Spec == Init /\ [][Next]_vars

FairSpec == Spec /\ Fairness

-----------------------------------------------------------------------------
(* Properties.                                                              *)

UISteps  == {"idle", "getLast", "tryCancel", "lookup", "register", "setLast", "post"}

NetSteps == {"idle", "rpc", "unregister", "registerAgain", "rpcAgain",
             "unregisterAgain", "callback", "resetLast", "local", "cancelFull",
             "switchFull", "cancelSolidity", "switchSolidity"}

NetStates == [pc : NetSteps, task : Tasks, context : (0..MaxRequests) \X {0, 1, 2},
              status : Statuses]

\* The variables have their types.
TypeOK ==
    /\ lastCallType \in Types \cup {RequestCount}
    /\ requestContextPool \in [Types -> Contexts \cup {NoContext}]
    /\ cancelled \in SUBSET Contexts
    /\ full \in Addresses
    /\ solidity \in Addresses
    /\ tasks \in Seq(Tasks)
    /\ net \in NetStates
    /\ ui \in [pc : UISteps, type : Types \cup {RequestCount},
               context : Contexts \cup {NoContext}]
    /\ messages \in Seq([request : Requests, result : Results])
    /\ issued \in 0..MaxRequests
    /\ answered \in 0..MaxRequests
    /\ configured \in [full : Addresses, solidity : Addresses]
    /\ resets \in 0..MaxResets

\* The request that the UI thread has accepted but not posted yet.
BeingPosted(t) == ui.pc \in {"setLast", "post"} /\ ui.type = t

\* A request of type t whose handler has not run to its end.
Outstanding(t) ==
    \/ BeingPosted(t)
    \/ \E i \in DOMAIN tasks : tasks[i].kind = "rpc" /\ tasks[i].type = t
    \/ net.pc # "idle" /\ net.task.kind = "rpc" /\ net.task.type = t

\* RPC_PROC refuses a call when lastCallType_ has its type or the pool holds a
\* context for it.  Both are left behind by other calls, erased and overwritten
\* by the two threads in any order.  A call is refused only while a call of its
\* type is outstanding: no stale mark blocks a type of request.
RefusedOnlyWhileOutstanding ==
    \A t \in Types :
        lastCallType = t \/ requestContextPool[t] # NoContext => Outstanding(t)

\* The context c belongs to a request of type t that has not been answered yet
\* and will use c for a stub call.
Owned(t, c) ==
    \/ BeingPosted(t) /\ ui.context = c
    \/ \E i \in DOMAIN tasks :
           tasks[i].kind = "rpc" /\ tasks[i].type = t /\ c = <<tasks[i].request, 1>>
    \/ /\ net.pc \in {"rpc", "unregister", "rpcAgain", "unregisterAgain"}
       /\ net.task.type = t
       /\ net.context = c

\* Every context in the pool can still be cancelled to some effect: it is the
\* context of a stub call that runs or is still to come, for the type it is
\* filed under, and never one that an older handler left behind.
PoolHoldsLiveContexts ==
    \A t \in Types :
        requestContextPool[t] # NoContext => Owned(t, requestContextPool[t])

\* A stub call goes to the node that was configured when the user made the
\* request, although the stubs are replaced by a task on the other thread.
CallsConfiguredNode ==
    net.pc \in {"rpc", "rpcAgain"} =>
        IF net.task.type \in ExtensionTypes THEN solidity = net.task.solidity
                                            ELSE full = net.task.full

\* What ReSetSub's Clear finds to cancel: the handlers run in order, so every
\* request made before the switch is over, and the contexts in the pool are
\* those of requests that the user made after it, for the new node.
ClearHitsOnlyNewerRequests ==
    net.pc \in {"cancelFull", "switchFull", "cancelSolidity", "switchSolidity"} =>
        \A t \in Types :
            requestContextPool[t] # NoContext =>
                requestContextPool[t][1] > net.task.request

\* The network thread is in a handler that has yet to post its callback.
AnswerDue == {"rpc", "unregister", "registerAgain", "rpcAgain", "unregisterAgain",
              "callback", "local"}

\* The wallet as a RequestService: the requests that were accepted and whose
\* callback has not run are the one being posted, those queued, the one in the
\* network thread and those whose message is under way.
Waiting ==
    (IF ui.pc \in {"setLast", "post"} THEN {ui.context[1]} ELSE {}) \cup
    {tasks[i].request : i \in {j \in DOMAIN tasks : tasks[j].kind # "reset"}} \cup
    (IF net.pc \in AnswerDue THEN {net.task.request} ELSE {}) \cup
    {messages[i].request : i \in DOMAIN messages}

Service == INSTANCE RequestService WITH waiting <- Waiting

\* Every accepted request is answered exactly once and in the order of
\* acceptance, whatever is cancelled, retried or reset meanwhile; and it is
\* answered eventually.
ImplementsService == Service!ServiceSpec

\* The safety part alone: no callback is lost, repeated or overtaken.
AnswersInOrder == Service!ServiceSafety

\* A type that refuses calls accepts them again.
RefusalEnds ==
    \A t \in Types :
        (lastCallType = t \/ requestContextPool[t] # NoContext)
            ~> (lastCallType # t /\ requestContextPool[t] = NoContext)

\* RPC_PROC aborts a call that duplicates one under way ("duplicated, abort this
\* one"): while the stub call of a type runs, no further one is accepted, and
\* never are two of them queued.
NoDuplicateOutstanding ==
    \A t \in Types :
        LET queued == {i \in DOMAIN tasks : tasks[i].kind = "rpc" /\ tasks[i].type = t}
            running == net.pc \in {"rpc", "rpcAgain"} /\ net.task.type = t
        IN  /\ \A i, j \in queued : i = j
            /\ queued # {} => ~running /\ ~BeingPosted(t)
            /\ ~(running /\ BeingPosted(t))
-----------------------------------------------------------------------------
(* What the proofs need to know of the handlers beside their types.         *)

RpcSteps   == {"rpc", "unregister", "registerAgain", "rpcAgain",
               "unregisterAgain", "callback", "resetLast"}
ResetSteps == {"cancelFull", "switchFull", "cancelSolidity", "switchSolidity"}

\* What PostTask puts into a handler of each kind.
WellFormed(task) ==
    /\ task.kind = "rpc" => task.type \in Types
    /\ task.kind # "reset" =>
          task.request \in Requests /\ task.full \in Addresses /\ task.solidity \in Addresses

\* Where a thread is tells what it is working on.
HandlersWellFormed ==
    /\ ui.pc # "idle" => ui.type \in Types
    /\ ui.pc \in {"getLast", "tryCancel", "lookup", "register"} => issued < MaxRequests
    /\ ui.pc \in {"setLast", "post"} => issued \in Requests /\ ui.context = <<issued, 1>>
    /\ \A i \in DOMAIN tasks : WellFormed(tasks[i])
    /\ net.pc # "idle" => WellFormed(net.task)
    /\ net.pc \in RpcSteps => net.task.kind = "rpc"
    /\ net.pc = "local" => net.task.kind = "local"
    /\ net.pc \in ResetSteps => net.task.kind = "reset"
    /\ net.pc \in {"rpc", "unregister"} => net.context = <<net.task.request, 1>>
    /\ net.pc \in {"rpcAgain", "unregisterAgain"} => net.context = <<net.task.request, 2>>
    /\ net.pc = "switchFull" => net.task.full \in Addresses
    /\ net.pc = "switchSolidity" => net.task.solidity \in Addresses
=============================================================================
