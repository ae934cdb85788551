-------------------------- MODULE MainWindowProofs --------------------------
(***************************************************************************)
(* Proofs about MainWindow, for any set of accounts, any forms, lists and  *)
(* kinds of transactions and any number of clicks and tasks.               *)
(***************************************************************************)
EXTENDS MainWindow, FiniteSetTheorems, TLAPS

-----------------------------------------------------------------------------
(* Tasks and messages.                                                      *)

\* What a task is of follows from its step.
LEMMA TaskTypes ==
    \A t \in Tasks :
        /\ t = Task(t.step, t.what, t.of)
        /\ t.step \in {"login", "view", "net", "page", "from", "to", "check", "create", "broadcast"}
        /\ t.of \in Address
        /\ t.step \in {"login", "view", "net", "from", "to"} => t.of \in Accounts
        /\ t.step \in {"view", "net"} => t.what \in AllViews
        /\ t.step = "page" => t.what \in AllPages \ {"transactions"}
        /\ t.step \in {"check", "create", "broadcast"} => t.what \in AllKinds
        /\ t.step \in {"from", "to"} => t.what = "transactions"
  BY DEF Tasks, Task, Address

\* The tasks that the handlers make are tasks.
LEMMA TaskMade ==
    /\ \A a \in Accounts : Task("login", "login", a) \in Tasks
    /\ \A a \in Accounts, f \in AllViews : Task("view", f, a) \in Tasks /\ Task("net", f, a) \in Tasks
    /\ \A p \in AllPages \ {"transactions"} : Task("page", p, None) \in Tasks
    /\ \A a \in Accounts : Task("from", "transactions", a) \in Tasks
    /\ \A a \in Accounts : Task("to", "transactions", a) \in Tasks
    /\ \A k \in AllKinds, a \in Address :
          /\ Task("check", k, a) \in Tasks
          /\ Task("create", k, a) \in Tasks
          /\ Task("broadcast", k, a) \in Tasks
  BY DEF Tasks, Task

\* The fields of a task that is made.
LEMMA TaskFields ==
    \A s, w, a : Task(s, w, a).step = s /\ Task(s, w, a).what = w /\ Task(s, w, a).of = a
  BY DEF Task

\* NoTask is not a task.
LEMMA NoTaskIsNone == NoTask \notin Tasks /\ NoTask.step = "none" /\ NoTask.of = None
  BY TaskTypes, TaskFields DEF NoTask

\* The messages that the handlers post are messages.
LEMMA MessageMade ==
    /\ \A b \in BOOLEAN : /\ Event("show", b) \in Events /\ Event("show", b).event = "show"
                          /\ Event("hide", b) \in Events /\ Event("hide", b).event = "hide"
                          /\ Event("bar", b) \in Events /\ Event("bar", b).event = "bar"
                          /\ Event("balanceList", b) \in Events
                          /\ Event("balanceList", b).event = "balanceList"
    /\ \A t \in Tasks, b \in BOOLEAN :
          /\ Message("callback", t, b) \in Callbacks
          /\ Message("callback", t, b).task = t
          /\ Message("callback", t, b).ok = b
          /\ Message("callback", t, b).event = "callback"
  BY DEF Event, Message, Events, Callbacks

\* A message is a callback with a task or an event without one.
LEMMA MessageTypes ==
    \A m \in Callbacks \cup Events :
        /\ m.ok \in BOOLEAN
        /\ m.event = "callback" => m \in Callbacks /\ m.task \in Tasks
        /\ m.event # "callback" => m \in Events /\ m.task = NoTask
        /\ m \in Events => m.event # "callback"
        /\ m.task \in Tasks \cup {NoTask}
  BY DEF Events, Callbacks

\* The ends of a sequence.
LEMMA Ends1 ==
    ASSUME NEW S, NEW s \in Seq(S), s # <<>>
    PROVE  /\ Head(s) \in S /\ Head(s) = s[1] /\ 1 \in DOMAIN s
           /\ Tail(s) \in Seq(S) /\ Len(Tail(s)) = Len(s) - 1 /\ Len(s) > 0
           /\ DOMAIN s = 1 .. Len(s) /\ DOMAIN Tail(s) = 1 .. Len(s) - 1
           /\ \A i \in DOMAIN Tail(s) : i + 1 \in DOMAIN s /\ Tail(s)[i] = s[i + 1]
           /\ \A i \in DOMAIN s : i = 1 \/ (i - 1 \in DOMAIN Tail(s) /\ Tail(s)[i - 1] = s[i])
  OBVIOUS

LEMMA Append1 ==
    ASSUME NEW S, NEW s \in Seq(S), NEW e \in S
    PROVE  /\ Append(s, e) \in Seq(S) /\ Append(s, e) # <<>>
           /\ Len(Append(s, e)) = Len(s) + 1 /\ Len(s) \in Nat
           /\ DOMAIN s = 1 .. Len(s) /\ DOMAIN Append(s, e) = 1 .. Len(s) + 1
           /\ \A i \in DOMAIN s : i \in DOMAIN Append(s, e) /\ Append(s, e)[i] = s[i]
           /\ Append(s, e)[Len(s) + 1] = e
           /\ Head(Append(s, e)) = (IF s = <<>> THEN e ELSE Head(s))
  <1>1. Append(s, e) \in Seq(S) /\ Len(Append(s, e)) = Len(s) + 1 /\ Len(s) \in Nat
    OBVIOUS
  <1>5. Append(s, e) # <<>>
    BY <1>1
  <1>2. Head(Append(s, e)) = Append(s, e)[1]
    OBVIOUS
  <1>3. s # <<>> => Len(s) > 0 /\ Head(s) = s[1] /\ Append(s, e)[1] = s[1]
    OBVIOUS
  <1>4. s = <<>> => Len(s) = 0 /\ Append(s, e)[1] = e
    OBVIOUS
  <1> QED
    BY <1>1, <1>2, <1>3, <1>4, <1>5

\* Short sequences of events.
LEMMA ShortSeq ==
    ASSUME NEW S, NEW d \in S, NEW e \in S
    PROVE  <<>> \in Seq(S) /\ <<d>> \in Seq(S) /\ <<d, e>> \in Seq(S)
  OBVIOUS

-----------------------------------------------------------------------------
(* Types.                                                                   *)

\* What TypeOK says of the network thread and of the message loop.
NetworkOK ==
    /\ queue \in Seq(Tasks)
    /\ net \in {"run", "loggedIn", "posted"}
    /\ net # "run" => queue # <<>>
    /\ net = "loggedIn" => Head(queue).step = "login"

LoopOK == messages \in Seq(Callbacks \cup Events) /\ owed \in Seq(Events)

WindowOK ==
    /\ content \in Contents
    /\ signOut \in BOOLEAN
    /\ form \in [AllViews -> Form]
    /\ freezeAddress \in Address
    /\ rows \cup listed \subseteq Accounts

HistoryOK == lost \in BOOLEAN /\ misSigned \in BOOLEAN /\ hasty \in BOOLEAN /\ duplicated \in BOOLEAN

LEMMA TypeParts ==
    TypeOK <=> LayerTypeOK /\ session \in Address /\ NetworkOK /\ LoopOK /\ WindowOK /\ HistoryOK
  BY DEF TypeOK, NetworkOK, LoopOK, WindowOK, HistoryOK

\* An RPC appends its task or leaves the queue alone.
LEMMA RpcOK ==
    ASSUME NetworkOK, NEW t \in Tasks, NEW accepted \in BOOLEAN, Rpc(t, accepted)
    PROVE  /\ NetworkOK'
           /\ net' = net
           /\ queue' = (IF accepted THEN Append(queue, t) ELSE queue)
           /\ duplicated \in BOOLEAN => duplicated' \in BOOLEAN
  BY Append1 DEF Rpc, NetworkOK

LEMMA LayerOK ==
    ASSUME LayerTypeOK
    PROVE  /\ Update => LayerTypeOK'
           /\ \A b \in BOOLEAN : Show(b) => LayerTypeOK'
           /\ OnUITimer => LayerTypeOK'
           /\ UNCHANGED layer => LayerTypeOK'
  BY DEF LayerTypeOK, Update, Show, OnUITimer, layer

\* Taking a message.
LEMMA TakeOK ==
    ASSUME LoopOK, NEW e, Take(e)
    PROVE  /\ owed = <<>> /\ messages # <<>>
           /\ messages' = Tail(messages)
           /\ messages' \in Seq(Callbacks \cup Events)
           /\ Head(messages) \in Callbacks \cup Events
           /\ Head(messages).event = e
           /\ Head(messages).ok \in BOOLEAN
           /\ e = "callback" => Head(messages).task \in Tasks
           /\ e # "callback" => Head(messages).task = NoTask
  <1>1. Head(messages) \in Callbacks \cup Events /\ Tail(messages) \in Seq(Callbacks \cup Events)
    BY Ends1 DEF Take, LoopOK
  <1> QED
    BY <1>1, MessageTypes DEF Take

LEMMA HideStatusOK ==
    ASSUME LayerTypeOK, lost \in BOOLEAN, NEW text \in BOOLEAN, HideStatus(text)
    PROVE  LayerTypeOK' /\ lost' \in BOOLEAN
  <1>1. Show(~text) /\ lost' \in BOOLEAN
    BY DEF HideStatus
  <1> QED
    BY <1>1, LayerOK

\* What the three actions that change the forms do to each of them.
LEMMA SetAddressForms ==
    ASSUME form \in [AllViews -> Form], NEW f \in AllViews, NEW a \in Accounts,
           NEW b \in BOOLEAN, SetAddress(f, a, b)
    PROVE  /\ form' \in [AllViews -> Form]
           /\ \A g \in AllViews : g # f => form'[g] = form[g]
           /\ form'[f].address = a
           /\ form'[f].label = IF Spins(f) THEN form[f].label ELSE a
           /\ form'[f].data = form[f].data
           /\ form'[f].bandwidth = form[f].bandwidth
           /\ form'[f].refused = ~b
           /\ form'[f].netRefused = form[f].netRefused
  <1> DEFINE new == [form[f] EXCEPT !.address = a, !.refused = ~b,
                                    !.label = IF Spins(f) THEN @ ELSE a]
  <1>1. form' = [form EXCEPT ![f] = new]
    BY DEF SetAddress
  <1>2. new \in Form /\ new.address = a /\ new.data = form[f].data
        /\ new.label = (IF Spins(f) THEN form[f].label ELSE a)
        /\ new.bandwidth = form[f].bandwidth
        /\ new.refused = ~b /\ new.netRefused = form[f].netRefused
    BY DEF Form, Address
  <1> HIDE DEF new
  <1> QED
    BY <1>1, <1>2

LEMMA OnViewForms ==
    ASSUME form \in [AllViews -> Form], Head(messages).task.what \in AllViews,
           Head(messages).task.of \in Accounts, Head(messages).ok \in BOOLEAN,
           NEW b \in BOOLEAN, OnView(b)
    PROVE  LET f == Head(messages).task.what IN
           /\ form' \in [AllViews -> Form]
           /\ \A g \in AllViews : g # f => form'[g] = form[g]
           /\ form'[f].address = form[f].address
           /\ form'[f].label = form[f].address
           /\ form'[f].data = Answer(Head(messages))
           /\ form'[f].bandwidth = form[f].bandwidth
           /\ form'[f].refused = form[f].refused
           /\ form'[f].netRefused = (Spins(f) /\ ~b)
  <1> DEFINE m == Head(messages)
             f == m.task.what
             n == Answer(m)
             refused == Spins(f) /\ ~b
             new == [form[f] EXCEPT !.label = form[f].address, !.data = n,
                                    !.tokens = IF Spins(f) \/ ~m.ok THEN @ ELSE @ \cup {m.task.of},
                                    !.netRefused = refused]
  <1>1. form' = [form EXCEPT ![f] = new]
    BY DEF OnView
  <1>2. n \in Address /\ refused \in BOOLEAN /\ f \in AllViews /\ m.task.of \in Accounts
    BY DEF Answer, Address
  <1> HIDE DEF m, f, n, refused
  <1>3. new \in Form /\ new.address = form[f].address /\ new.label = form[f].address
        /\ new.data = n /\ new.bandwidth = form[f].bandwidth
        /\ new.refused = form[f].refused /\ new.netRefused = refused
    BY <1>2 DEF Form
  <1> HIDE DEF new
  <1>4. /\ form' \in [AllViews -> Form]
        /\ \A g \in AllViews : g # f => form'[g] = form[g]
        /\ form'[f] = new
    BY <1>1, <1>2, <1>3
  <1> QED
    BY <1>3, <1>4 DEF f, n, m, refused

LEMMA OnNetForms ==
    ASSUME form \in [AllViews -> Form], Head(messages).task.what \in AllViews,
           Head(messages).task.of \in Accounts, OnNet
    PROVE  LET f == Head(messages).task.what IN
           /\ form' \in [AllViews -> Form]
           /\ \A g \in AllViews :
                  /\ g # f => form'[g] = form[g]
                  /\ form'[g].address = form[g].address /\ form'[g].label = form[g].label
                  /\ form'[g].data = form[g].data
                  /\ form'[g].refused = form[g].refused
                  /\ form'[g].netRefused = form[g].netRefused
           /\ form'[f].bandwidth = Answer(Head(messages))
  <1> DEFINE f == Head(messages).task.what
             n == Answer(Head(messages))
             new == [form[f] EXCEPT !.bandwidth = n]
  <1>1. form' = [form EXCEPT ![f] = new]
    BY DEF OnNet
  <1>2. n \in Address /\ f \in AllViews
    BY DEF Answer, Address
  <1> HIDE DEF n, f
  <1>3. new \in Form /\ new.address = form[f].address /\ new.label = form[f].label
        /\ new.data = form[f].data /\ new.bandwidth = n
        /\ new.refused = form[f].refused /\ new.netRefused = form[f].netRefused
    BY <1>2 DEF Form
  <1> HIDE DEF new
  <1>4. /\ form' \in [AllViews -> Form]
        /\ \A g \in AllViews : g # f => form'[g] = form[g]
        /\ form'[f] = new
    BY <1>1, <1>2, <1>3
  <1> QED
    BY <1>2, <1>3, <1>4 DEF f, n

\* All but the bandwidth is left alone.
FormsKept ==
    \A g \in AllViews :
        /\ form'[g].address = form[g].address /\ form'[g].label = form[g].label
        /\ form'[g].data = form[g].data /\ form'[g].refused = form[g].refused

LEMMA OnNetKeeps == TypeOK /\ OnNet => FormsKept
  <1> SUFFICES ASSUME TypeOK, OnNet PROVE FormsKept
    OBVIOUS
  <1>1. Head(messages).task \in Tasks /\ Head(messages).task.step = "net"
    BY TakeOK, TypeParts DEF OnNet, Answered
  <1> QED
    BY <1>1, TaskTypes, TypeParts, OnNetForms DEF WindowOK, FormsKept

\* SetAddress leaves the forms and the rest in their types.
LEMMA SetAddressOK ==
    ASSUME TypeOK, NEW f \in AllViews, NEW a \in Accounts, NEW accepted \in BOOLEAN,
           SetAddress(f, a, accepted)
    PROVE  NetworkOK' /\ duplicated' \in BOOLEAN /\ lost' \in BOOLEAN
           /\ owed' \in Seq(Events) /\ form' \in [AllViews -> Form]
  <1>1. NetworkOK' /\ duplicated' \in BOOLEAN
    <2>1. Rpc(Task("view", f, a), accepted) /\ Task("view", f, a) \in Tasks
      BY TaskMade DEF SetAddress
    <2> QED
      BY <2>1, RpcOK, TypeParts DEF HistoryOK
  <1>2. lost' \in BOOLEAN /\ owed' \in Seq(Events)
    <2>1. lost' \in BOOLEAN
      BY TypeParts DEF SetAddress, HistoryOK
    <2>2. owed' = <<Event("show", FALSE)>> \/ owed' = <<>>
      BY DEF SetAddress
    <2>3. Event("show", FALSE) \in Events
      BY MessageMade
    <2> QED
      BY <2>1, <2>2, <2>3, ShortSeq
  <1>3. form' \in [AllViews -> Form]
    BY SetAddressForms, TypeParts DEF WindowOK
  <1> QED
    BY <1>1, <1>2, <1>3

LEMMA TypePartsNext ==
    TypeOK' <=> LayerTypeOK' /\ session' \in Address /\ NetworkOK' /\ LoopOK' /\ WindowOK' /\ HistoryOK'
  BY DEF TypeOK, NetworkOK, LoopOK, WindowOK, HistoryOK

\* What is left alone keeps its type.
LEMMA TypeUnchanged ==
    ASSUME TypeOK
    PROVE  /\ UNCHANGED layer => LayerTypeOK'
           /\ UNCHANGED network => NetworkOK'
           /\ UNCHANGED window => WindowOK'
           /\ UNCHANGED history => HistoryOK'
           /\ NoRpc => NetworkOK' /\ duplicated' \in BOOLEAN
  <1> USE TypeParts
  <1>1. UNCHANGED layer => LayerTypeOK'
    BY LayerOK
  <1>2. UNCHANGED network => NetworkOK'
    BY DEF NetworkOK, network
  <1>3. UNCHANGED window => WindowOK'
    BY DEF WindowOK, window
  <1>4. UNCHANGED history => HistoryOK'
    BY DEF HistoryOK, history
  <1>5. NoRpc => NetworkOK' /\ duplicated' \in BOOLEAN
    BY <1>2 DEF NoRpc, HistoryOK
  <1> QED
    BY <1>1, <1>2, <1>3, <1>4, <1>5

\* Initially the variables have their types.
LEMMA TypeInit == Init => TypeOK
  <1> SUFFICES ASSUME Init PROVE TypeOK
    OBVIOUS
  <1>1. NetworkOK /\ LoopOK
    BY DEF Init, NetworkOK, LoopOK
  <1>2. WindowOK /\ HistoryOK /\ LayerTypeOK /\ session \in Address
    BY DEF Init, WindowOK, HistoryOK, LayerInit, LayerTypeOK, Contents, Form, NoForm, Address
  <1> QED
    BY <1>1, <1>2, TypeParts

\* The network thread keeps the types.
LEMMA TypeNetwork ==
    ASSUME TypeOK, NetworkNext
    PROVE  TypeOK'
  <1> USE TypeParts, TypePartsNext, TypeUnchanged
  <1>1. CASE LogIn
    <2>1. Head(queue) \in Tasks /\ queue # <<>> /\ Head(queue).step = "login"
      BY <1>1, Ends1 DEF LogIn, NetworkOK
    <2>2. session' \in Address
      BY <1>1, <2>1, TaskTypes DEF LogIn
    <2>3. NetworkOK'
      BY <1>1, <2>1 DEF LogIn, NetworkOK
    <2>4. LoopOK'
      BY <1>1 DEF LogIn, loop, LoopOK
    <2> QED
      BY <1>1, <2>2, <2>3, <2>4 DEF LogIn
  <1>2. ASSUME NEW ok \in BOOLEAN, PostCallback(ok) PROVE TypeOK'
    <2>1. Head(queue) \in Tasks /\ queue # <<>>
      BY <1>2, Ends1 DEF PostCallback, NetworkOK
    <2>2. Message("callback", Head(queue), ok) \in Callbacks \cup Events
      BY <2>1, MessageMade
    <2>3. LoopOK'
      BY <1>2, <2>2, Append1 DEF PostCallback, LoopOK
    <2>4. NetworkOK'
      BY <1>2, <2>1 DEF PostCallback, NetworkOK
    <2> QED
      BY <1>2, <2>3, <2>4 DEF PostCallback
  <1>3. CASE EndTask
    <2>1. NetworkOK'
      BY <1>3, Ends1 DEF EndTask, NetworkOK
    <2>2. LoopOK'
      BY <1>3 DEF EndTask, loop, LoopOK
    <2> QED
      BY <1>3, <2>1, <2>2 DEF EndTask
  <1> QED
    BY <1>1, <1>2, <1>3 DEF NetworkNext

\* The message loop and its timer keep the types.
LEMMA TypeLoop ==
    ASSUME TypeOK, Post \/ OnShowStatus \/ OnHideStatus \/ Timer
    PROVE  TypeOK'
  <1> USE TypeParts, TypePartsNext, TypeUnchanged
  <1>1. CASE Post
    <2>1. Head(owed) \in Events /\ Tail(owed) \in Seq(Events)
      BY <1>1, Ends1 DEF Post, LoopOK
    <2>2. LoopOK'
      BY <1>1, <2>1, Append1 DEF Post, LoopOK
    <2> QED
      BY <1>1, <2>2 DEF Post
  <1>2. CASE OnShowStatus
    <2>1. LoopOK' /\ LayerTypeOK'
      BY <1>2, TakeOK, LayerOK DEF OnShowStatus, LoopOK
    <2> QED
      BY <1>2, <2>1 DEF OnShowStatus
  <1>3. CASE OnHideStatus
    <2>1. LoopOK' /\ Head(messages).ok \in BOOLEAN
      BY <1>3, TakeOK DEF OnHideStatus, LoopOK
    <2>2. LayerTypeOK' /\ HistoryOK'
      BY <1>3, <2>1, HideStatusOK DEF OnHideStatus, HistoryOK
    <2> QED
      BY <1>3, <2>1, <2>2 DEF OnHideStatus
  <1>4. CASE Timer
    <2>1. LoopOK' /\ LayerTypeOK' /\ HistoryOK'
      BY <1>4, LayerOK DEF Timer, LoopOK, loop, HistoryOK
    <2> QED
      BY <1>4, <2>1 DEF Timer
  <1> QED
    BY <1>1, <1>2, <1>3, <1>4

\* Logging in and out keeps the types.
LEMMA TypeLogin ==
    ASSUME TypeOK,
           \/ OnShowLogin \/ OnLogin \/ SignOut \/ CheckLoginFails \/ ShowAddresses
           \/ \E a \in Accounts : ClickLogin(a)
    PROVE  TypeOK'
  <1> USE TypeParts, TypePartsNext, TypeUnchanged
  <1>0. \A b \in BOOLEAN : /\ <<Event("show", b)>> \in Seq(Events)
                           /\ <<Event("hide", b)>> \in Seq(Events)
                           /\ <<Event("hide", b), Event("bar", b)>> \in Seq(Events)
    BY MessageMade, ShortSeq
  <1>1. CASE OnShowLogin
    BY <1>1 DEF OnShowLogin, Input, LoopOK, WindowOK, Contents
  <1>2. CASE OnLogin
    <2>1. LoopOK'
      BY <1>0, <1>2, TakeOK DEF OnLogin, Answered, LoopOK
    <2>2. WindowOK'
      BY <1>2 DEF OnLogin, WindowOK, Contents
    <2> QED
      BY <1>2, <2>1, <2>2 DEF OnLogin
  <1>3. CASE SignOut
    <2>1. LoopOK' /\ WindowOK' /\ HistoryOK' /\ session' \in Address
      BY <1>3 DEF SignOut, Input, LoopOK, WindowOK, Contents, HistoryOK, Address
    <2> QED
      BY <1>3, <2>1 DEF SignOut
  <1>4. CASE CheckLoginFails
    <2>1. LoopOK'
      BY <1>0, <1>4 DEF CheckLoginFails, Input, LoopOK
    <2> QED
      BY <1>4, <2>1 DEF CheckLoginFails
  <1>5. CASE ShowAddresses
    BY <1>5 DEF ShowAddresses, Input, LoopOK, WindowOK, Contents
  <1>6. ASSUME NEW a \in Accounts, ClickLogin(a) PROVE TypeOK'
    <2>1. Task("login", "login", a) \in Tasks
      BY TaskMade
    <2>2. NetworkOK'
      BY <1>6, <2>1, Append1 DEF ClickLogin, NetworkOK
    <2>3. LoopOK' /\ HistoryOK'
      BY <1>0, <1>6 DEF ClickLogin, Ready, Input, LoopOK, HistoryOK
    <2> QED
      BY <1>6, <2>2, <2>3 DEF ClickLogin
  <1> QED
    BY <1>1, <1>2, <1>3, <1>4, <1>5, <1>6

\* The forms of an account keep the types.
LEMMA TypeViews ==
    ASSUME TypeOK,
           \/ \E f \in Views, a \in Accounts, b \in BOOLEAN : ClickView(f, a, b)
           \/ \E b \in BOOLEAN : OnView(b) \/ OnAccountBarLogin(b)
           \/ OnNet
    PROVE  TypeOK'
  <1> USE TypeParts, TypePartsNext, TypeUnchanged
  <1>1. ASSUME NEW f \in Views, NEW a \in Accounts, NEW b \in BOOLEAN, ClickView(f, a, b)
        PROVE  TypeOK'
    <2>1. /\ NetworkOK' /\ duplicated' \in BOOLEAN /\ lost' \in BOOLEAN
          /\ owed' \in Seq(Events) /\ form' \in [AllViews -> Form]
      BY <1>1, SetAddressOK, MainWindowAssumption DEF ClickView
    <2>2. LoopOK' /\ WindowOK' /\ HistoryOK'
      BY <1>1, <2>1 DEF ClickView, Ready, Input, LoopOK, WindowOK, HistoryOK
    <2> QED
      BY <1>1, <2>1, <2>2 DEF ClickView
  <1>2. ASSUME NEW b \in BOOLEAN, OnView(b) PROVE TypeOK'
    <2> DEFINE m == Head(messages)
               f == m.task.what
    <2>1. /\ m.task \in Tasks /\ m.task.step = "view" /\ m.ok \in BOOLEAN
          /\ messages' \in Seq(Callbacks \cup Events)
      BY <1>2, TakeOK DEF OnView, Answered
    <2>2. f \in AllViews /\ m.task.of \in Accounts
      BY <2>1, TaskTypes
    <2>3. NetworkOK' /\ duplicated' \in BOOLEAN
      <3>1. CASE Spins(f)
        <4>1. Rpc(Task("net", f, m.task.of), b) /\ Task("net", f, m.task.of) \in Tasks
          BY <1>2, <2>2, <3>1, TaskMade DEF OnView
        <4> QED
          BY <4>1, RpcOK DEF HistoryOK
      <3>2. CASE ~Spins(f)
        BY <1>2, <3>2 DEF OnView
      <3> QED
        BY <3>1, <3>2
    <2>4. owed' \in Seq(Events)
      <3>1. Event("hide", FALSE) \in Events
        BY MessageMade
      <3>2. owed' = <<Event("hide", FALSE)>> \/ owed' = owed
        BY <1>2 DEF OnView
      <3> QED
        BY <3>1, <3>2, ShortSeq DEF LoopOK
    <2>5. form' \in [AllViews -> Form] /\ content' \in Contents
      <3>3. content' \in Contents
        BY <1>2, <2>2 DEF OnView, Contents
      <3>4. form' \in [AllViews -> Form]
        BY <1>2, <2>1, <2>2, OnViewForms DEF WindowOK
      <3> QED
        BY <3>3, <3>4
    <2> QED
      BY <1>2, <2>1, <2>3, <2>4, <2>5 DEF OnView, LoopOK, WindowOK, HistoryOK
  <1>3. ASSUME NEW b \in BOOLEAN, OnAccountBarLogin(b) PROVE TypeOK'
    <2>1. messages' \in Seq(Callbacks \cup Events)
      BY <1>3, TakeOK DEF OnAccountBarLogin
    <2>2. /\ NetworkOK' /\ duplicated' \in BOOLEAN /\ lost' \in BOOLEAN
          /\ owed' \in Seq(Events) /\ form' \in [AllViews -> Form]
      <3>1. CASE session = None
        BY <1>3, <3>1 DEF OnAccountBarLogin, ShowBalanceList, LoopOK, WindowOK, HistoryOK
      <3>2. CASE session # None
        <4>1. SetAddress("balance", session, b) /\ session \in Accounts /\ "balance" \in AllViews
          BY <1>3, <3>2 DEF OnAccountBarLogin, ShowBalanceList, Address, AllViews
        <4> QED
          BY <4>1, SetAddressOK
      <3> QED
        BY <3>1, <3>2
    <2>3. WindowOK' /\ LoopOK' /\ HistoryOK'
      BY <1>3, <2>1, <2>2 DEF OnAccountBarLogin, WindowOK, LoopOK, HistoryOK
    <2> QED
      BY <1>3, <2>2, <2>3 DEF OnAccountBarLogin
  <1>4. CASE OnNet
    <2>1. LoopOK' /\ Head(messages).task \in Tasks /\ Head(messages).task.step = "net"
      BY <1>4, TakeOK DEF OnNet, Answered, LoopOK
    <2>2. form' \in [AllViews -> Form]
      BY <1>4, <2>1, TaskTypes, OnNetForms DEF WindowOK
    <2>3. WindowOK'
      BY <1>4, <2>2 DEF OnNet, WindowOK
    <2> QED
      BY <1>4, <2>1, <2>3 DEF OnNet
  <1> QED
    BY <1>1, <1>2, <1>3, <1>4

\* The lists keep the types.
LEMMA TypePages ==
    ASSUME TypeOK,
           \/ \E p \in Pages \ {"transactions"}, b \in BOOLEAN : ClickPage(p, b)
           \/ \E b \in BOOLEAN : ShowTransactions(b) \/ OnFrom(b)
           \/ OnPage \/ OnTo
    PROVE  TypeOK'
  <1> USE TypeParts, TypePartsNext, TypeUnchanged
  <1>0. \A b \in BOOLEAN : <<Event("show", b)>> \in Seq(Events) /\ <<Event("hide", b)>> \in Seq(Events)
    BY MessageMade, ShortSeq
  <1>00. <<>> \in Seq(Events)
    OBVIOUS
  <1>1. ASSUME NEW p \in Pages \ {"transactions"}, NEW b \in BOOLEAN, ClickPage(p, b) PROVE TypeOK'
    <2>1. Task("page", p, None) \in Tasks
      BY TaskMade, MainWindowAssumption
    <2>2. NetworkOK' /\ duplicated' \in BOOLEAN
      BY <1>1, <2>1, RpcOK DEF ClickPage, HistoryOK
    <2>3. LoopOK' /\ HistoryOK' /\ LayerTypeOK'
      BY <1>0, <1>00, <1>1, <2>2, LayerOK DEF ClickPage, Ready, Input, LoopOK, HistoryOK
    <2> QED
      BY <1>1, <2>2, <2>3 DEF ClickPage
  <1>2. ASSUME NEW b \in BOOLEAN, ShowTransactions(b) PROVE TypeOK'
    <2>1. Task("from", "transactions", session) \in Tasks
      BY <1>2, TaskMade DEF ShowTransactions, Address
    <2>2. NetworkOK' /\ duplicated' \in BOOLEAN
      BY <1>2, <2>1, RpcOK DEF ShowTransactions, HistoryOK
    <2>3. LoopOK' /\ HistoryOK' /\ LayerTypeOK'
      BY <1>2, <2>2, LayerOK DEF ShowTransactions, ShowStatus, Ready, Input, LoopOK, HistoryOK
    <2> QED
      BY <1>2, <2>2, <2>3 DEF ShowTransactions
  <1>3. ASSUME NEW b \in BOOLEAN, OnFrom(b) PROVE TypeOK'
    <2>1. Head(messages).task \in Tasks /\ Head(messages).task.step = "from" /\ LoopOK'
      BY <1>3, TakeOK DEF OnFrom, Answered, LoopOK
    <2>2. Head(messages).task.of \in Accounts
      BY <2>1, TaskTypes
    <2>3. Task("to", "transactions", Head(messages).task.of) \in Tasks
      BY <2>2, TaskMade
    <2>4. NetworkOK' /\ duplicated' \in BOOLEAN
      BY <1>3, <2>3, RpcOK DEF OnFrom, HistoryOK
    <2>5. WindowOK' /\ HistoryOK'
      BY <1>3, <2>2, <2>4 DEF OnFrom, Push, WindowOK, HistoryOK
    <2> QED
      BY <1>3, <2>1, <2>4, <2>5 DEF OnFrom
  <1>4. CASE OnPage
    <2>1. /\ Head(messages).task \in Tasks /\ Head(messages).task.step = "page"
          /\ messages' \in Seq(Callbacks \cup Events) /\ Head(messages).ok \in BOOLEAN
      BY <1>4, TakeOK DEF OnPage, Answered
    <2> DEFINE p == Head(messages).task.what
               empty == p = "mytokens" /\ ~Head(messages).ok
    <2>2. p \in AllPages
      BY <2>1, TaskTypes
    <2>3. LoopOK'
      BY <1>0, <1>00, <1>4, <2>1 DEF OnPage, LoopOK
    <2>4. LayerTypeOK' /\ HistoryOK'
      <3>1. empty \in BOOLEAN
        OBVIOUS
      <3>2. HideStatus(empty) \/ UNCHANGED <<layer, lost>>
        BY <1>4 DEF OnPage
      <3>3. HideStatus(empty) => LayerTypeOK' /\ lost' \in BOOLEAN
        BY <3>1, HideStatusOK DEF HistoryOK
      <3>4. UNCHANGED <<layer, lost>> => LayerTypeOK' /\ lost' \in BOOLEAN
        BY DEF HistoryOK
      <3>5. UNCHANGED <<misSigned, hasty, duplicated>>
        BY <1>4 DEF OnPage
      <3> QED
        BY <3>2, <3>3, <3>4, <3>5 DEF HistoryOK
    <2>5. WindowOK'
      BY <1>4, <2>2 DEF OnPage, WindowOK, Contents
    <2> QED
      BY <1>4, <2>3, <2>4, <2>5 DEF OnPage
  <1>5. CASE OnTo
    <2>1. Head(messages).task \in Tasks /\ Head(messages).task.step = "to" /\ LoopOK'
      BY <1>5, TakeOK DEF OnTo, Answered, LoopOK
    <2>2. Head(messages).task.of \in Accounts
      BY <2>1, TaskTypes
    <2>3. LayerTypeOK' /\ HistoryOK'
      BY <1>5, HideStatusOK DEF OnTo, HistoryOK
    <2>4. WindowOK'
      BY <1>5, <2>2 DEF OnTo, Push, WindowOK, Contents, AllPages
    <2> QED
      BY <1>5, <2>1, <2>3, <2>4 DEF OnTo
  <1> QED
    BY <1>1, <1>2, <1>3, <1>4, <1>5

\* The owner of a transaction is an address.
LEMMA OwnerOK == TypeOK => \A k \in AllKinds : OwnerOf(k) \in Address
  BY DEF TypeOK, OwnerOf, Form, AllViews

\* Transactions keep the types.
LEMMA TypeTransactions ==
    ASSUME TypeOK,
           \/ \E f \in {"freeze", "issue", "modify"} \cap Kinds : OpenForm(f)
           \/ \E k \in Kinds, b \in BOOLEAN : ClickTransaction(k, b)
           \/ \E b \in BOOLEAN : OnCheckPasses(b) \/ OnCreateSigns(b) \/ OnBroadcast(b)
           \/ OnCheckFails \/ OnCreateFails
    PROVE  TypeOK'
  <1> USE TypeParts, TypePartsNext, TypeUnchanged
  <1>0. \A b \in BOOLEAN : /\ <<Event("show", b)>> \in Seq(Events)
                           /\ <<Event("hide", b)>> \in Seq(Events)
                           /\ <<Event("hide", b), Event("balanceList", TRUE)>> \in Seq(Events)
    BY MessageMade, ShortSeq
  <1>00. <<>> \in Seq(Events)
    OBVIOUS
  <1>1. ASSUME NEW f \in {"freeze", "issue", "modify"} \cap Kinds, OpenForm(f) PROVE TypeOK'
    BY <1>1 DEF OpenForm, Input, LoopOK, WindowOK, Contents
  <1>2. ASSUME NEW k \in Kinds, NEW b \in BOOLEAN, ClickTransaction(k, b) PROVE TypeOK'
    <2>1. Task(IF Checked(k) THEN "check" ELSE "create", k, OwnerOf(k)) \in Tasks
      BY TaskMade, OwnerOK, MainWindowAssumption
    <2>2. NetworkOK' /\ duplicated' \in BOOLEAN
      BY <1>2, <2>1, RpcOK DEF ClickTransaction, HistoryOK
    <2>3. LoopOK' /\ HistoryOK'
      BY <1>0, <1>00, <1>2, <2>2 DEF ClickTransaction, Ready, Input, LoopOK, HistoryOK
    <2> QED
      BY <1>2, <2>2, <2>3 DEF ClickTransaction
  <1>3. ASSUME NEW b \in BOOLEAN, OnCheckPasses(b) PROVE TypeOK'
    <2>1. /\ Head(messages).task \in Tasks /\ Head(messages).task.step = "check"
          /\ messages' \in Seq(Callbacks \cup Events)
      BY <1>3, TakeOK DEF OnCheckPasses, Answered
    <2> DEFINE k == Head(messages).task.what
    <2>2. Task("create", k, Head(messages).task.of) \in Tasks
      BY <2>1, TaskTypes, TaskMade
    <2>3. NetworkOK' /\ duplicated' \in BOOLEAN
      BY <1>3, <2>2, RpcOK DEF OnCheckPasses, HistoryOK
    <2>4. LoopOK' /\ LayerTypeOK' /\ HistoryOK'
      BY <1>0, <1>00, <1>3, <2>1, <2>3, LayerOK DEF OnCheckPasses, LoopOK, HistoryOK
    <2> QED
      BY <1>3, <2>3, <2>4 DEF OnCheckPasses
  <1>4. ASSUME NEW b \in BOOLEAN, OnCreateSigns(b) PROVE TypeOK'
    <2>1. /\ Head(messages).task \in Tasks /\ Head(messages).task.step = "create"
          /\ messages' \in Seq(Callbacks \cup Events)
      BY <1>4, TakeOK DEF OnCreateSigns, Answered
    <2> DEFINE t == Head(messages).task
    <2>2. Task("broadcast", t.what, t.of) \in Tasks
      BY <2>1, TaskTypes, TaskMade
    <2>3. NetworkOK' /\ duplicated' \in BOOLEAN
      BY <1>4, <2>2, RpcOK DEF OnCreateSigns, HistoryOK
    <2>4. LoopOK' /\ HistoryOK'
      BY <1>0, <1>00, <1>4, <2>1, <2>3 DEF OnCreateSigns, LoopOK, HistoryOK
    <2> QED
      BY <1>4, <2>3, <2>4 DEF OnCreateSigns
  <1>5. ASSUME NEW b \in BOOLEAN, OnBroadcast(b) PROVE TypeOK'
    <2>1. messages' \in Seq(Callbacks \cup Events)
      BY <1>5, TakeOK DEF OnBroadcast, Answered
    <2>2. LoopOK'
      BY <1>0, <1>5, <2>1 DEF OnBroadcast, LoopOK
    <2>3. LayerTypeOK' /\ HistoryOK'
      <3>1. HideStatus(b) \/ UNCHANGED <<layer, lost>>
        BY <1>5 DEF OnBroadcast
      <3>2. HideStatus(b) => LayerTypeOK' /\ lost' \in BOOLEAN
        BY HideStatusOK DEF HistoryOK
      <3> QED
        BY <1>5, <3>1, <3>2 DEF OnBroadcast, HistoryOK
    <2>4. WindowOK'
      BY <1>5 DEF OnBroadcast, WindowOK, Contents
    <2> QED
      BY <1>5, <2>2, <2>3, <2>4 DEF OnBroadcast
  <1>6. CASE OnCheckFails
    <2>1. LoopOK'
      BY <1>6, TakeOK DEF OnCheckFails, Answered, LoopOK
    <2> QED
      BY <1>6, <2>1 DEF OnCheckFails
  <1>7. CASE OnCreateFails
    <2>1. LoopOK'
      BY <1>0, <1>7, TakeOK DEF OnCreateFails, Answered, LoopOK
    <2>2. LayerTypeOK' /\ HistoryOK'
      <3>1. HideStatus(TRUE) \/ UNCHANGED <<layer, lost>>
        BY <1>7 DEF OnCreateFails
      <3>2. HideStatus(TRUE) => LayerTypeOK' /\ lost' \in BOOLEAN
        BY HideStatusOK DEF HistoryOK
      <3> QED
        BY <1>7, <3>1, <3>2 DEF OnCreateFails, HistoryOK
    <2> QED
      BY <1>7, <2>1, <2>2 DEF OnCreateFails
  <1> QED
    BY <1>1, <1>2, <1>3, <1>4, <1>5, <1>6, <1>7

\* Every step keeps the types.
LEMMA TypeNext == TypeOK /\ [Next]_vars => TypeOK'
  <1> SUFFICES ASSUME TypeOK, [Next]_vars PROVE TypeOK'
    OBVIOUS
  <1>1. CASE NetworkNext
    BY <1>1, TypeNetwork
  <1>2. CASE MessageNext
    BY <1>2, TypeLoop, TypeLogin, TypeViews, TypePages, TypeTransactions DEF MessageNext
  <1>3. CASE UserNext
    BY <1>3, TypeLogin, TypeViews, TypePages, TypeTransactions DEF UserNext
  <1>4. CASE Timer
    BY <1>4, TypeLoop
  <1>5. CASE UNCHANGED vars
    BY <1>5, TypeParts, TypePartsNext, TypeUnchanged DEF vars, loop, LoopOK
  <1> QED
    BY <1>1, <1>2, <1>3, <1>4, <1>5 DEF Next, Rest

\* The variables have their types: messages are callbacks of tasks or events, what the
\* running handler has yet to post is events, and a task is under way as long as its
\* callback has to be posted or its handler to return.
THEOREM TypeCorrect == Spec => []TypeOK
  BY TypeInit, TypeNext, PTL DEF Spec

-----------------------------------------------------------------------------
(* The line of tasks.                                                       *)

\* The last task of A, if there is one, is in B.
LastIs(l, A, B) ==
    \A p \in DOMAIN l :
        l[p] \in A /\ (\A r \in DOMAIN l : p < r => l[r] \notin A) => l[p] \in B

\* After every task of A there is one of B.
Followed(l, A, B) ==
    \A p \in DOMAIN l : l[p] \in A => \E r \in DOMAIN l : p < r /\ l[r] \in B

\* There is at most one task of A.
Unique(l, A) == \A p, r \in DOMAIN l : l[p] \in A /\ l[r] \in A => p = r

\* No task of B comes before one of A.
InOrder(l, A, B) == \A p, r \in DOMAIN l : l[p] \in A /\ l[r] \in B => p < r

\* There is a task of A.
Has(l, A) == \E p \in DOMAIN l : l[p] \in A

\* The line m is l with NoTask put in at place k, l without its first task, and l with
\* the task t at its end.
Inserted(l, m, k) ==
    \E n \in Nat :
        /\ k \in 1 .. n + 1
        /\ DOMAIN l = 1 .. n /\ DOMAIN m = 1 .. n + 1
        /\ m[k] = NoTask
        /\ \A p \in 1 .. n : m[IF p < k THEN p ELSE p + 1] = l[p]

Popped(l, m) ==
    \E n \in Nat :
        /\ DOMAIN l = 1 .. n + 1 /\ DOMAIN m = 1 .. n
        /\ \A p \in 1 .. n : m[p] = l[p + 1]

Pushed(l, m, t) ==
    \E n \in Nat :
        /\ DOMAIN l = 1 .. n /\ DOMAIN m = 1 .. n + 1
        /\ m[n + 1] = t
        /\ \A p \in 1 .. n : m[p] = l[p]

\* A place without a task makes no difference.
LEMMA InsertedKeeps ==
    ASSUME NEW l, NEW m, NEW k, Inserted(l, m, k),
           NEW A, NEW B, NoTask \notin A, NoTask \notin B
    PROVE  /\ LastIs(l, A, B) <=> LastIs(m, A, B)
           /\ Followed(l, A, B) <=> Followed(m, A, B)
           /\ Unique(l, A) <=> Unique(m, A)
           /\ InOrder(l, A, B) <=> InOrder(m, A, B)
           /\ Has(l, A) <=> Has(m, A)
  <1> DEFINE up(p) == IF p < k THEN p ELSE p + 1
  <1>1. PICK n \in Nat : /\ k \in 1 .. n + 1
                         /\ DOMAIN l = 1 .. n /\ DOMAIN m = 1 .. n + 1
                         /\ m[k] = NoTask
                         /\ \A p \in 1 .. n : m[IF p < k THEN p ELSE p + 1] = l[p]
    BY DEF Inserted
  <1>2. \A p \in DOMAIN l : up(p) \in DOMAIN m /\ m[up(p)] = l[p]
    BY <1>1
  <1>3. \A r \in DOMAIN m : m[r] = NoTask \/ \E p \in DOMAIN l : r = up(p)
    <2> TAKE r \in DOMAIN m
    <2>1. CASE r < k
      <3>1. r \in DOMAIN l /\ r = up(r)
        BY <1>1, <2>1
      <3> QED
        BY <3>1
    <2>2. CASE r > k
      <3>1. r - 1 \in DOMAIN l /\ r = up(r - 1)
        BY <1>1, <2>2
      <3> QED
        BY <3>1
    <2> QED
      BY <1>1, <2>1, <2>2
  <1>4. \A p, r \in DOMAIN l : (p < r <=> up(p) < up(r)) /\ (p = r <=> up(p) = up(r))
    BY <1>1
  <1> HIDE DEF up
  <1>5. LastIs(l, A, B) <=> LastIs(m, A, B)
    BY <1>2, <1>3, <1>4 DEF LastIs
  <1>6. Followed(l, A, B) <=> Followed(m, A, B)
    BY <1>2, <1>3, <1>4 DEF Followed
  <1>7. Unique(l, A) <=> Unique(m, A)
    BY <1>2, <1>3, <1>4 DEF Unique
  <1>8. InOrder(l, A, B) <=> InOrder(m, A, B)
    BY <1>2, <1>3, <1>4 DEF InOrder
  <1>9. Has(l, A) <=> Has(m, A)
    BY <1>2, <1>3 DEF Has
  <1> QED
    BY <1>5, <1>6, <1>7, <1>8, <1>9

\* The first task is handled.
LEMMA PoppedKeeps ==
    ASSUME NEW l, NEW m, Popped(l, m), NEW A, NEW B
    PROVE  /\ 1 \in DOMAIN l
           /\ LastIs(l, A, B) => LastIs(m, A, B)
           /\ LastIs(l, A, B) /\ l[1] \in A => Has(m, A) \/ l[1] \in B
           /\ Followed(l, A, B) => Followed(m, A, B)
           /\ Followed(l, A, B) /\ l[1] \in A => Has(m, B)
           /\ Unique(l, A) => Unique(m, A)
           /\ Unique(l, A) /\ l[1] \in A => ~Has(m, A)
           /\ InOrder(l, A, B) => InOrder(m, A, B)
           /\ InOrder(l, A, B) /\ l[1] \in B => ~Has(m, A)
           /\ Has(l, A) <=> l[1] \in A \/ Has(m, A)
  <1>1. PICK n \in Nat : /\ DOMAIN l = 1 .. n + 1 /\ DOMAIN m = 1 .. n
                         /\ \A p \in 1 .. n : m[p] = l[p + 1]
    BY DEF Popped
  <1> DEFINE up(p) == p + 1
  <1>2. \A p \in DOMAIN m : up(p) \in DOMAIN l /\ m[p] = l[up(p)] /\ 1 < up(p) /\ 1 # up(p)
    BY <1>1
  <1>3. \A r \in DOMAIN l : r = 1 \/ \E p \in DOMAIN m : r = up(p)
    <2> TAKE r \in DOMAIN l
    <2>1. CASE r # 1
      <3>1. r - 1 \in DOMAIN m /\ r = up(r - 1)
        BY <1>1, <2>1
      <3> QED
        BY <3>1
    <2> QED
      BY <2>1
  <1>4. \A p, r \in DOMAIN m : (p < r <=> up(p) < up(r)) /\ (p = r <=> up(p) = up(r))
    BY <1>1
  <1>5. 1 \in DOMAIN l /\ ~(1 < 1) /\ \A p \in DOMAIN l : ~(p < 1)
    BY <1>1
  <1> HIDE DEF up
  <1>6. /\ LastIs(l, A, B) => LastIs(m, A, B)
        /\ LastIs(l, A, B) /\ l[1] \in A => Has(m, A) \/ l[1] \in B
    BY <1>2, <1>3, <1>4, <1>5 DEF LastIs, Has
  <1>7. /\ Followed(l, A, B) => Followed(m, A, B)
        /\ Followed(l, A, B) /\ l[1] \in A => Has(m, B)
    BY <1>2, <1>3, <1>4, <1>5 DEF Followed, Has
  <1>8. /\ Unique(l, A) => Unique(m, A)
        /\ Unique(l, A) /\ l[1] \in A => ~Has(m, A)
    BY <1>2, <1>4, <1>5 DEF Unique, Has
  <1>9. /\ InOrder(l, A, B) => InOrder(m, A, B)
        /\ InOrder(l, A, B) /\ l[1] \in B => ~Has(m, A)
    BY <1>2, <1>4, <1>5 DEF InOrder, Has
  <1>10. Has(l, A) <=> l[1] \in A \/ Has(m, A)
    BY <1>2, <1>3, <1>5 DEF Has
  <1> QED
    BY <1>5, <1>6, <1>7, <1>8, <1>9, <1>10

\* A task is asked for.
LEMMA PushedKeeps ==
    ASSUME NEW l, NEW m, NEW t, Pushed(l, m, t), NEW A, NEW B
    PROVE  /\ LastIs(l, A, B) /\ t \notin A => LastIs(m, A, B)
           /\ t \in A /\ t \in B => LastIs(m, A, B)
           /\ Followed(l, A, B) /\ t \notin A => Followed(m, A, B)
           /\ t \notin A /\ t \in B => Followed(m, A, B)
           /\ Unique(l, A) /\ (t \notin A \/ ~Has(l, A)) => Unique(m, A)
           /\ InOrder(l, A, B) /\ (t \notin A \/ (t \notin B /\ ~Has(l, B))) => InOrder(m, A, B)
           /\ Has(m, A) <=> t \in A \/ Has(l, A)
  <1>1. PICK n \in Nat : /\ DOMAIN l = 1 .. n /\ DOMAIN m = 1 .. n + 1
                         /\ m[n + 1] = t
                         /\ \A p \in 1 .. n : m[p] = l[p]
    BY DEF Pushed
  <1> DEFINE e == n + 1
  <1>2. \A p \in DOMAIN l : p \in DOMAIN m /\ m[p] = l[p] /\ p < e /\ p # e
    BY <1>1
  <1>3. \A r \in DOMAIN m : r = e \/ r \in DOMAIN l
    BY <1>1
  <1>4. e \in DOMAIN m /\ m[e] = t /\ \A r \in DOMAIN m : ~(e < r)
    BY <1>1
  <1> HIDE DEF e
  <1>5. /\ LastIs(l, A, B) /\ t \notin A => LastIs(m, A, B)
        /\ t \in A /\ t \in B => LastIs(m, A, B)
    BY <1>2, <1>3, <1>4 DEF LastIs
  <1>6. /\ Followed(l, A, B) /\ t \notin A => Followed(m, A, B)
        /\ t \notin A /\ t \in B => Followed(m, A, B)
    BY <1>2, <1>3, <1>4 DEF Followed
  <1>7. Unique(l, A) /\ (t \notin A \/ ~Has(l, A)) => Unique(m, A)
    BY <1>2, <1>3, <1>4 DEF Unique, Has
  <1>8. InOrder(l, A, B) /\ (t \notin A \/ (t \notin B /\ ~Has(l, B))) => InOrder(m, A, B)
    BY <1>2, <1>3, <1>4 DEF InOrder, Has
  <1>9. Has(m, A) <=> t \in A \/ Has(l, A)
    BY <1>2, <1>3, <1>4 DEF Has
  <1> QED
    BY <1>5, <1>6, <1>7, <1>8, <1>9

\* How the line changes with the queue and the messages.
LEMMA LinePosts ==
    ASSUME NEW ms \in Seq(Callbacks \cup Events), NEW q \in Seq(Tasks), q # <<>>,
           NEW c \in Callbacks, c.task = Head(q)
    PROVE  Inserted(LineOf(ms, q, FALSE), LineOf(Append(ms, c), q, TRUE), Len(ms) + 2)
  <1> DEFINE n == Len(ms) + Len(q)
             l == LineOf(ms, q, FALSE)
             m == LineOf(Append(ms, c), q, TRUE)
  <1>1. Len(ms) \in Nat /\ Len(q) \in Nat /\ Len(q) > 0 /\ Head(q) = q[1]
    BY Ends1
  <1>2. Len(Append(ms, c)) = Len(ms) + 1 /\ Append(ms, c)[Len(ms) + 1] = c
        /\ \A i \in 1 .. Len(ms) : Append(ms, c)[i] = ms[i]
    OBVIOUS
  <1>3. DOMAIN l = 1 .. n /\ DOMAIN m = 1 .. n + 1 /\ n \in Nat /\ Len(ms) + 2 \in 1 .. n + 1
    BY <1>1, <1>2 DEF LineOf
  <1>4. m[Len(ms) + 2] = NoTask
    BY <1>1, <1>2, <1>3 DEF LineOf
  <1>5. ASSUME NEW p \in 1 .. n
        PROVE  m[IF p < Len(ms) + 2 THEN p ELSE p + 1] = l[p]
    <2>1. CASE p <= Len(ms)
      BY <1>1, <1>2, <2>1 DEF LineOf
    <2>2. CASE p = Len(ms) + 1
      BY <1>1, <1>2, <2>2 DEF LineOf
    <2>3. CASE p > Len(ms) + 1
      BY <1>1, <1>2, <2>3 DEF LineOf
    <2>4. p <= Len(ms) \/ p = Len(ms) + 1 \/ p > Len(ms) + 1
      BY <1>1
    <2> QED
      BY <2>1, <2>2, <2>3, <2>4
  <1> QED
    BY <1>3, <1>4, <1>5 DEF Inserted

LEMMA LineEnds ==
    ASSUME NEW ms \in Seq(Callbacks \cup Events), NEW q \in Seq(Tasks), q # <<>>
    PROVE  Inserted(LineOf(ms, Tail(q), FALSE), LineOf(ms, q, TRUE), Len(ms) + 1)
  <1> DEFINE n == Len(ms) + Len(Tail(q))
             l == LineOf(ms, Tail(q), FALSE)
             m == LineOf(ms, q, TRUE)
  <1>1. /\ Len(ms) \in Nat /\ Len(q) \in Nat /\ Len(q) > 0 /\ Len(Tail(q)) = Len(q) - 1
        /\ \A i \in 1 .. Len(q) - 1 : Tail(q)[i] = q[i + 1]
    BY Ends1
  <1>3. DOMAIN l = 1 .. n /\ DOMAIN m = 1 .. n + 1 /\ n \in Nat /\ Len(ms) + 1 \in 1 .. n + 1
    BY <1>1 DEF LineOf
  <1>4. m[Len(ms) + 1] = NoTask
    BY <1>1, <1>3 DEF LineOf
  <1>5. ASSUME NEW p \in 1 .. n
        PROVE  m[IF p < Len(ms) + 1 THEN p ELSE p + 1] = l[p]
    <2>1. CASE p <= Len(ms)
      BY <1>1, <2>1 DEF LineOf
    <2>2. CASE p > Len(ms)
      BY <1>1, <2>2 DEF LineOf
    <2>3. p <= Len(ms) \/ p > Len(ms)
      BY <1>1
    <2> QED
      BY <2>1, <2>2, <2>3
  <1> QED
    BY <1>3, <1>4, <1>5 DEF Inserted

LEMMA LineEvent ==
    ASSUME NEW ms \in Seq(Callbacks \cup Events), NEW q \in Seq(Tasks), NEW posted \in BOOLEAN,
           NEW e \in Events
    PROVE  Inserted(LineOf(ms, q, posted), LineOf(Append(ms, e), q, posted), Len(ms) + 1)
  <1> DEFINE n == Len(ms) + Len(q)
             l == LineOf(ms, q, posted)
             m == LineOf(Append(ms, e), q, posted)
  <1>1. Len(ms) \in Nat /\ Len(q) \in Nat /\ e.task = NoTask
    BY MessageTypes
  <1>2. Len(Append(ms, e)) = Len(ms) + 1 /\ Append(ms, e)[Len(ms) + 1] = e
        /\ \A i \in 1 .. Len(ms) : Append(ms, e)[i] = ms[i]
    OBVIOUS
  <1>3. DOMAIN l = 1 .. n /\ DOMAIN m = 1 .. n + 1 /\ n \in Nat /\ Len(ms) + 1 \in 1 .. n + 1
    BY <1>1, <1>2 DEF LineOf
  <1>4. m[Len(ms) + 1] = NoTask
    BY <1>1, <1>2, <1>3 DEF LineOf
  <1>5. ASSUME NEW p \in 1 .. n
        PROVE  m[IF p < Len(ms) + 1 THEN p ELSE p + 1] = l[p]
    <2>1. CASE p <= Len(ms)
      BY <1>1, <1>2, <2>1 DEF LineOf
    <2>2. CASE p > Len(ms)
      BY <1>1, <1>2, <2>2 DEF LineOf
    <2>3. p <= Len(ms) \/ p > Len(ms)
      BY <1>1
    <2> QED
      BY <2>1, <2>2, <2>3
  <1> QED
    BY <1>3, <1>4, <1>5 DEF Inserted

LEMMA LineTakes ==
    ASSUME NEW ms \in Seq(Callbacks \cup Events), NEW q \in Seq(Tasks), NEW posted \in BOOLEAN,
           ms # <<>>
    PROVE  /\ Popped(LineOf(ms, q, posted), LineOf(Tail(ms), q, posted))
           /\ LineOf(ms, q, posted)[1] = Head(ms).task
  <1> DEFINE n == Len(Tail(ms)) + Len(q)
             l == LineOf(ms, q, posted)
             m == LineOf(Tail(ms), q, posted)
  <1>1. /\ Len(ms) \in Nat /\ Len(q) \in Nat /\ Len(ms) > 0 /\ Len(Tail(ms)) = Len(ms) - 1
        /\ Head(ms) = ms[1] /\ \A i \in 1 .. Len(ms) - 1 : Tail(ms)[i] = ms[i + 1]
    BY Ends1
  <1>2. DOMAIN l = 1 .. n + 1 /\ DOMAIN m = 1 .. n /\ n \in Nat
    BY <1>1 DEF LineOf
  <1>3. ASSUME NEW p \in 1 .. n
        PROVE  m[p] = l[p + 1]
    <2>1. CASE p <= Len(ms) - 1
      BY <1>1, <2>1 DEF LineOf
    <2>2. CASE p > Len(ms) - 1
      <3>0. p \in Nat /\ p <= Len(Tail(ms)) + Len(q) /\ Len(Tail(ms)) \in Nat
        BY <1>1
      <3> DEFINE k == Len(Tail(ms))
      <3>4. Len(ms) = k + 1 /\ p > k /\ k \in Nat
        BY <1>1, <2>2, <3>0
      <3> HIDE DEF k
      <3>5. Len(Tail(ms)) = k
        BY DEF k
      <3>1. /\ p + 1 - Len(ms) = p - k
            /\ ~(p <= k) /\ ~(p + 1 <= Len(ms))
            /\ (p = k + 1) <=> (p + 1 = Len(ms) + 1)
            /\ p + 1 \in 1 .. Len(ms) + Len(q)
        BY <1>1, <3>0, <3>4, <3>5
      <3>2. m[p] = IF posted /\ p = Len(Tail(ms)) + 1 THEN NoTask ELSE q[p - Len(Tail(ms))]
        BY <3>1, <3>5 DEF LineOf
      <3>3. l[p + 1] = IF posted /\ p + 1 = Len(ms) + 1 THEN NoTask ELSE q[p + 1 - Len(ms)]
        BY <3>1 DEF LineOf
      <3> QED
        BY <3>1, <3>2, <3>3, <3>5
    <2>3. p <= Len(ms) - 1 \/ p > Len(ms) - 1
      BY <1>1
    <2> QED
      BY <2>1, <2>2, <2>3
  <1>4. l[1] = Head(ms).task
    BY <1>1 DEF LineOf
  <1> QED
    BY <1>2, <1>3, <1>4 DEF Popped

LEMMA LineAsks ==
    ASSUME NEW ms \in Seq(Callbacks \cup Events), NEW q \in Seq(Tasks), NEW posted \in BOOLEAN,
           NEW t \in Tasks, posted => q # <<>>
    PROVE  Pushed(LineOf(ms, q, posted), LineOf(ms, Append(q, t), posted), t)
  <1> DEFINE n == Len(ms) + Len(q)
             l == LineOf(ms, q, posted)
             m == LineOf(ms, Append(q, t), posted)
  <1>1. Len(ms) \in Nat /\ Len(q) \in Nat /\ (posted => Len(q) > 0)
    BY Ends1
  <1>2. Len(Append(q, t)) = Len(q) + 1 /\ Append(q, t)[Len(q) + 1] = t
        /\ \A i \in 1 .. Len(q) : Append(q, t)[i] = q[i]
    OBVIOUS
  <1>3. DOMAIN l = 1 .. n /\ DOMAIN m = 1 .. n + 1 /\ n \in Nat
    BY <1>1, <1>2 DEF LineOf
  <1>4. m[n + 1] = t
    BY <1>1, <1>2 DEF LineOf
  <1>5. ASSUME NEW p \in 1 .. n
        PROVE  m[p] = l[p]
    <2>1. CASE p <= Len(ms)
      BY <1>1, <1>2, <2>1 DEF LineOf
    <2>2. CASE p > Len(ms)
      BY <1>1, <1>2, <2>2 DEF LineOf
    <2>3. p <= Len(ms) \/ p > Len(ms)
      BY <1>1
    <2> QED
      BY <2>1, <2>2, <2>3
  <1> QED
    BY <1>3, <1>4, <1>5 DEF Pushed

\* There are only tasks in a line, and places without a task.
LEMMA LineTasks ==
    ASSUME NEW ms \in Seq(Callbacks \cup Events), NEW q \in Seq(Tasks), NEW posted \in BOOLEAN,
           NEW p \in DOMAIN LineOf(ms, q, posted)
    PROVE  LineOf(ms, q, posted)[p] \in Tasks \cup {NoTask}
  <1> DEFINE l == LineOf(ms, q, posted)
  <1>1. p \in 1 .. Len(ms) + Len(q)
    BY DEF LineOf
  <1>2. CASE p <= Len(ms)
    <2>1. ms[p] \in Callbacks \cup Events /\ l[p] = ms[p].task
      BY <1>1, <1>2 DEF LineOf
    <2> QED
      BY <2>1, MessageTypes
  <1>3. CASE p > Len(ms)
    <2>1. p - Len(ms) \in 1 .. Len(q) /\ ~(p <= Len(ms))
      BY <1>1, <1>3
    <2>2. q[p - Len(ms)] \in Tasks
      BY <2>1
    <2>3. l[p] = NoTask \/ l[p] = q[p - Len(ms)]
      BY <1>1, <2>1 DEF LineOf
    <2> QED
      BY <2>2, <2>3
  <1>4. p <= Len(ms) \/ p > Len(ms)
    BY <1>1
  <1> QED
    BY <1>2, <1>3, <1>4

\* Pending is a set of tasks, the ones that are in the line.
LEMMA PendingIsLine ==
    ASSUME TypeOK
    PROVE  /\ Pending \subseteq Tasks
           /\ \A t \in Tasks : t \in Pending <=> Has(Line, {t})
           /\ \A A \in SUBSET Tasks : Has(Line, A) <=> \E t \in Pending : t \in A
  <1>1. \A p \in DOMAIN Line : Line[p] \in Tasks \cup {NoTask}
    BY LineTasks DEF TypeOK, Line
  <1> QED
    BY <1>1, NoTaskIsNone DEF Pending, Has

LEMMA PendingIsLineNext ==
    ASSUME TypeOK'
    PROVE  /\ Pending' \subseteq Tasks
           /\ \A t \in Tasks : t \in Pending' <=> Has(Line', {t})
           /\ \A A \in SUBSET Tasks : Has(Line', A) <=> \E t \in Pending' : t \in A
  <1>1. \A p \in DOMAIN Line' : Line'[p] \in Tasks \cup {NoTask}
    BY LineTasks DEF TypeOK, Line
  <1> QED
    BY <1>1, NoTaskIsNone DEF Pending, Has

\* Callbacks that are posted and tasks that end leave the order of the tasks alone.
LEMMA LineKept ==
    ASSUME TypeOK, NetworkNext \/ Post, NEW A \in SUBSET Tasks, NEW B \in SUBSET Tasks
    PROVE  /\ LastIs(Line, A, B) <=> LastIs(Line', A, B)
           /\ Followed(Line, A, B) <=> Followed(Line', A, B)
           /\ Unique(Line, A) <=> Unique(Line', A)
           /\ InOrder(Line, A, B) <=> InOrder(Line', A, B)
           /\ Has(Line, A) <=> Has(Line', A)
  <1>0. /\ messages \in Seq(Callbacks \cup Events) /\ queue \in Seq(Tasks)
        /\ owed \in Seq(Events) /\ NoTask \notin A /\ NoTask \notin B
    BY NoTaskIsNone DEF TypeOK
  <1>1. CASE LogIn
    BY <1>1 DEF LogIn, loop, Line
  <1>2. ASSUME NEW ok \in BOOLEAN, PostCallback(ok)
        PROVE  Inserted(Line, Line', Len(messages) + 2)
    <2> DEFINE c == Message("callback", Head(queue), ok)
    <2>1. queue # <<>> /\ Head(queue) \in Tasks
      BY <1>0, <1>2, Ends1 DEF PostCallback
    <2>2. c \in Callbacks /\ c.task = Head(queue)
      BY <2>1, MessageMade
    <2>3. Line = LineOf(messages, queue, FALSE) /\ Line' = LineOf(Append(messages, c), queue, TRUE)
      BY <1>2 DEF PostCallback, Line
    <2> QED
      BY <1>0, <2>1, <2>2, <2>3, LinePosts
  <1>3. CASE EndTask
    <2>1. queue # <<>> /\ Line = LineOf(messages, queue, TRUE)
          /\ Line' = LineOf(messages, Tail(queue), FALSE)
      BY <1>3 DEF EndTask, loop, Line, TypeOK
    <2>2. Inserted(Line', Line, Len(messages) + 1)
      BY <1>0, <2>1, LineEnds
    <2> QED
      BY <1>0, <2>2, InsertedKeeps
  <1>4. CASE Post
    <2>1. Head(owed) \in Events
      BY <1>0, <1>4, Ends1 DEF Post
    <2>2. /\ Line = LineOf(messages, queue, net = "posted")
          /\ Line' = LineOf(Append(messages, Head(owed)), queue, net = "posted")
      BY <1>4 DEF Post, network, Line
    <2>3. Inserted(Line, Line', Len(messages) + 1)
      <3>1. (net = "posted") \in BOOLEAN
        OBVIOUS
      <3> QED
        BY <1>0, <2>1, <2>2, <3>1, LineEvent
    <2> QED
      BY <1>0, <2>3, InsertedKeeps
  <1>5. CASE \E ok \in BOOLEAN : PostCallback(ok)
    BY <1>0, <1>2, <1>5, InsertedKeeps
  <1> QED
    BY <1>1, <1>3, <1>4, <1>5 DEF NetworkNext

\* The same tasks are pending then.
LEMMA PendingKept ==
    ASSUME TypeOK, TypeOK', NetworkNext \/ Post
    PROVE  Pending' = Pending
  <1>1. \A t \in Tasks : Has(Line, {t}) <=> Has(Line', {t})
    <2> TAKE t \in Tasks
    <2>1. {t} \in SUBSET Tasks
      OBVIOUS
    <2> QED
      BY <2>1, LineKept
  <1> QED
    BY <1>1, PendingIsLine, PendingIsLineNext

\* A step of the UI thread: it may handle a message, of a task with a step in S ("none"
\* for an event), and ask for a task with a step in T.
Step(S, T) ==
    /\ net' = net
    /\ \/ messages' = messages
       \/ messages # <<>> /\ messages' = Tail(messages) /\ Head(messages).task.step \in S
    /\ \/ queue' = queue
       \/ \E t \in Tasks : t.step \in T /\ queue' = Append(queue, t)

\* The line after the message, and then after the task.
LEMMA LineStep ==
    ASSUME TypeOK, net' = net
    PROVE  LET l == LineOf(messages', queue, net = "posted") IN
           /\ messages' = messages => l = Line
           /\ messages # <<>> /\ messages' = Tail(messages) =>
                 Popped(Line, l) /\ Line[1] = Head(messages).task
           /\ queue' = queue => Line' = l
           /\ messages' = messages \/ (messages # <<>> /\ messages' = Tail(messages)) =>
                 \A t \in Tasks : queue' = Append(queue, t) => Pushed(l, Line', t)
  <1> DEFINE l == LineOf(messages', queue, net = "posted")
  <1>0. /\ messages \in Seq(Callbacks \cup Events) /\ queue \in Seq(Tasks)
        /\ (net = "posted") \in BOOLEAN /\ net = "posted" => queue # <<>>
    BY DEF TypeOK
  <1>1. messages' = messages => l = Line
    BY DEF Line
  <1>2. messages # <<>> /\ messages' = Tail(messages) =>
            Popped(Line, l) /\ Line[1] = Head(messages).task
    BY <1>0, LineTakes DEF Line
  <1>3. queue' = queue => Line' = l
    BY DEF Line
  <1>4. messages' = messages \/ (messages # <<>> /\ messages' = Tail(messages)) =>
            \A t \in Tasks : queue' = Append(queue, t) => Pushed(l, Line', t)
    <2> SUFFICES ASSUME messages' = messages \/ (messages # <<>> /\ messages' = Tail(messages)),
                        NEW t \in Tasks, queue' = Append(queue, t)
                 PROVE  Pushed(l, Line', t)
      OBVIOUS
    <2>1. messages' \in Seq(Callbacks \cup Events)
      BY <1>0, Ends1
    <2>2. Line' = LineOf(messages', Append(queue, t), net = "posted")
      BY DEF Line
    <2> QED
      BY <1>0, <2>1, <2>2, LineAsks
  <1> QED
    BY <1>1, <1>2, <1>3, <1>4

\* What a step of the UI thread leaves of the order of the tasks.
LEMMA StepKeeps ==
    ASSUME TypeOK, NEW S, NEW T, Step(S, T), NEW A \in SUBSET Tasks, NEW B \in SUBSET Tasks
    PROVE  /\ (\A t \in A : t.step \notin T) =>
                  /\ LastIs(Line, A, B) => LastIs(Line', A, B)
                  /\ Followed(Line, A, B) => Followed(Line', A, B)
                  /\ Unique(Line, A) => Unique(Line', A)
                  /\ InOrder(Line, A, B) => InOrder(Line', A, B)
                  /\ Has(Line', A) => Has(Line, A)
           /\ (\A t \in A : t.step \notin S) => (Has(Line, A) => Has(Line', A))
  <1> DEFINE l == LineOf(messages', queue, net = "posted")
  <1> HIDE DEF l
  <1>1. /\ l = Line \/ (Popped(Line, l) /\ Line[1].step \in S)
        /\ Line' = l \/ \E t \in Tasks : t.step \in T /\ Pushed(l, Line', t)
    BY LineStep DEF Step, l
  <1>2. /\ LastIs(Line, A, B) => LastIs(l, A, B)
        /\ Followed(Line, A, B) => Followed(l, A, B)
        /\ Unique(Line, A) => Unique(l, A)
        /\ InOrder(Line, A, B) => InOrder(l, A, B)
        /\ Has(l, A) => Has(Line, A)
        /\ (\A t \in A : t.step \notin S) => (Has(Line, A) => Has(l, A))
    BY <1>1, PoppedKeeps
  <1>3. /\ (\A t \in A : t.step \notin T) =>
               /\ LastIs(l, A, B) => LastIs(Line', A, B)
               /\ Followed(l, A, B) => Followed(Line', A, B)
               /\ Unique(l, A) => Unique(Line', A)
               /\ InOrder(l, A, B) => InOrder(Line', A, B)
               /\ Has(Line', A) => Has(l, A)
        /\ Has(l, A) => Has(Line', A)
    BY <1>1, PushedKeeps
  <1> QED
    BY <1>2, <1>3

\* What is pending after a step of the UI thread.
LEMMA StepPending ==
    ASSUME TypeOK, TypeOK', NEW S, NEW T, Step(S, T)
    PROVE  /\ \A t \in Pending' : t \in Pending \/ t.step \in T
           /\ \A t \in Pending : t \in Pending' \/ t.step \in S
  <1>1. \A t \in Tasks : {t} \in SUBSET Tasks
    OBVIOUS
  <1>2. \A t \in Tasks : /\ t.step \notin T => (Has(Line', {t}) => Has(Line, {t}))
                         /\ t.step \notin S => (Has(Line, {t}) => Has(Line', {t}))
    BY <1>1, StepKeeps
  <1> QED
    BY <1>2, PendingIsLine, PendingIsLineNext

\* A message that is taken was the first task, and a task that is asked for is pending.
LEMMA TakenAndAsked ==
    ASSUME TypeOK, TypeOK', net' = net,
           messages' = messages \/ (messages # <<>> /\ messages' = Tail(messages))
    PROVE  /\ messages' # messages /\ Head(messages).task \in Tasks => Head(messages).task \in Pending
           /\ \A t \in Tasks : queue' = Append(queue, t) => t \in Pending'
  <1> DEFINE l == LineOf(messages', queue, net = "posted")
  <1> HIDE DEF l
  <1>1. /\ messages' # messages => Popped(Line, l) /\ Line[1] = Head(messages).task
        /\ \A t \in Tasks : queue' = Append(queue, t) => Pushed(l, Line', t)
    BY LineStep DEF l
  <1>2. messages' # messages => Has(Line, {Head(messages).task})
    BY <1>1, PoppedKeeps
  <1>3. \A t \in Tasks : queue' = Append(queue, t) => Has(Line', {t})
    BY <1>1, PushedKeeps
  <1> QED
    BY <1>2, <1>3, PendingIsLine, PendingIsLineNext

-----------------------------------------------------------------------------
(* What each handler takes and asks for.                                    *)

\* An answer is taken.
LEMMA AnsweredStep ==
    ASSUME TypeOK, NEW s, Answered(s)
    PROVE  /\ messages # <<>> /\ messages' = Tail(messages) /\ owed = <<>>
           /\ Head(messages).task \in Tasks /\ Head(messages).task.step = s
           /\ Head(messages).ok \in BOOLEAN
  BY TakeOK, TypeParts DEF Answered

\* An event is taken.
LEMMA EventStep ==
    ASSUME TypeOK, NEW e, Take(e), e # "callback"
    PROVE  /\ messages # <<>> /\ messages' = Tail(messages) /\ owed = <<>>
           /\ Head(messages).task = NoTask /\ Head(messages).task.step = "none"
           /\ Head(messages).event = e
  BY TakeOK, TypeParts, NoTaskIsNone

\* A task is asked for or refused.
LEMMA RpcStep ==
    ASSUME NEW t \in Tasks, NEW b \in BOOLEAN, Rpc(t, b), NEW T, t.step \in T
    PROVE  /\ net' = net
           /\ queue' = queue \/ \E u \in Tasks : u.step \in T /\ queue' = Append(queue, u)
           /\ queue' = (IF b THEN Append(queue, t) ELSE queue)
  BY DEF Rpc

LEMMA StepsOfLoop ==
    ASSUME TypeOK
    PROVE  /\ Timer \/ OnShowLogin \/ SignOut \/ CheckLoginFails \/ ShowAddresses => Step({}, {})
           /\ \A f : OpenForm(f) => Step({}, {})
           /\ OnShowStatus \/ OnHideStatus => Step({"none"}, {})
           /\ \A a \in Accounts : ClickLogin(a) => Step({}, {"login"})
           /\ OnLogin => Step({"login"}, {})
           /\ OnNet => Step({"net"}, {})
           /\ OnPage => Step({"page"}, {})
           /\ OnTo => Step({"to"}, {})
           /\ OnCheckFails => Step({"check"}, {})
           /\ OnCreateFails => Step({"create"}, {})
           /\ \A b \in BOOLEAN : OnBroadcast(b) => Step({"broadcast"}, {})
  <1>1. Timer \/ OnShowLogin \/ SignOut \/ CheckLoginFails \/ ShowAddresses => Step({}, {})
    BY DEF Timer, OnShowLogin, SignOut, CheckLoginFails, ShowAddresses, Input, loop, network, Step
  <1>2. \A f : OpenForm(f) => Step({}, {})
    BY DEF OpenForm, Input, network, Step
  <1>3. OnShowStatus \/ OnHideStatus => Step({"none"}, {})
    BY EventStep DEF OnShowStatus, OnHideStatus, network, Step
  <1>4. \A a \in Accounts : ClickLogin(a) => Step({}, {"login"})
    BY TaskMade, TaskFields DEF ClickLogin, Ready, Input, Step
  <1>5. OnLogin => Step({"login"}, {})
    BY AnsweredStep DEF OnLogin, network, Step
  <1>6. OnNet => Step({"net"}, {})
    BY AnsweredStep DEF OnNet, network, Step
  <1>7. OnPage => Step({"page"}, {})
    BY AnsweredStep DEF OnPage, network, Step
  <1>8. OnTo => Step({"to"}, {})
    BY AnsweredStep DEF OnTo, network, Step
  <1>9. OnCheckFails => Step({"check"}, {})
    BY AnsweredStep DEF OnCheckFails, network, Step
  <1>10. OnCreateFails => Step({"create"}, {})
    BY AnsweredStep DEF OnCreateFails, network, Step
  <1>11. \A b \in BOOLEAN : OnBroadcast(b) => Step({"broadcast"}, {})
    BY AnsweredStep DEF OnBroadcast, network, Step
  <1> QED
    BY <1>1, <1>2, <1>3, <1>4, <1>5, <1>6, <1>7, <1>8, <1>9, <1>10, <1>11

\* The tasks that the handlers ask for.
LEMMA StepsOfForms ==
    ASSUME TypeOK, NEW b \in BOOLEAN
    PROVE  /\ \A f \in Views, a \in Accounts :
                  ClickView(f, a, b) =>
                      Step({}, {"view"}) /\ Task("view", f, a) \in Tasks /\ f \in AllViews
                      /\ Rpc(Task("view", f, a), b)
           /\ OnView(b) =>
                  Step({"view"}, {"net"}) /\ Head(messages).task.what \in AllViews
           /\ OnAccountBarLogin(b) => Step({"none"}, {"view"})
           /\ \A p \in Pages \ {"transactions"} : ClickPage(p, b) => Step({}, {"page"}) /\ Task("page", p, None) \in Tasks
           /\ ShowTransactions(b) =>
                  Step({}, {"from"}) /\ Task("from", "transactions", session) \in Tasks
           /\ OnFrom(b) =>
                  /\ Step({"from"}, {"to"})
                  /\ Task("to", "transactions", Head(messages).task.of) \in Tasks
  <1>1. ASSUME NEW f \in Views, NEW a \in Accounts, ClickView(f, a, b)
        PROVE  Step({}, {"view"}) /\ Task("view", f, a) \in Tasks /\ f \in AllViews
               /\ Rpc(Task("view", f, a), b)
    <2>1. Task("view", f, a) \in Tasks /\ Task("view", f, a).step = "view" /\ f \in AllViews
      BY MainWindowAssumption, TaskMade, TaskFields
    <2> QED
      BY <1>1, <2>1, RpcStep DEF ClickView, SetAddress, Ready, Input, Step
  <1>2. ASSUME OnView(b)
        PROVE  Step({"view"}, {"net"}) /\ Head(messages).task.what \in AllViews
    <2> DEFINE f == Head(messages).task.what
               t == Task("net", f, Head(messages).task.of)
    <2>1. /\ messages # <<>> /\ messages' = Tail(messages) /\ Head(messages).task.step = "view"
          /\ Head(messages).task \in Tasks
      BY <1>2, AnsweredStep DEF OnView
    <2>2. t \in Tasks /\ t.step = "net" /\ f \in AllViews
      BY <2>1, TaskTypes, TaskMade, TaskFields
    <2>3. (Rpc(t, b) \/ NoRpc)
      BY <1>2 DEF OnView
    <2>4. net' = net /\ (queue' = queue \/ \E u \in Tasks : u.step \in {"net"} /\ queue' = Append(queue, u))
      BY <2>2, <2>3, RpcStep DEF NoRpc, network
    <2> QED
      BY <2>1, <2>2, <2>4 DEF Step
  <1>3. ASSUME OnAccountBarLogin(b) PROVE Step({"none"}, {"view"})
    <2>1. messages # <<>> /\ messages' = Tail(messages) /\ Head(messages).task.step = "none"
      BY <1>3, EventStep DEF OnAccountBarLogin
    <2>2. net' = net /\ (queue' = queue \/ \E u \in Tasks : u.step \in {"view"} /\ queue' = Append(queue, u))
      <3>1. CASE session = None
        BY <1>3, <3>1 DEF OnAccountBarLogin, ShowBalanceList, NoRpc, network
      <3>2. CASE session # None
        <4>1. Task("view", "balance", session) \in Tasks /\ Task("view", "balance", session).step = "view"
          BY <3>2, TaskMade, TaskFields DEF TypeOK, Address, AllViews
        <4>2. Rpc(Task("view", "balance", session), b)
          BY <1>3, <3>2 DEF OnAccountBarLogin, ShowBalanceList, SetAddress
        <4> QED
          BY <4>1, <4>2, RpcStep
      <3> QED
        BY <3>1, <3>2
    <2> QED
      BY <2>1, <2>2 DEF Step
  <1>4. ASSUME NEW p \in Pages \ {"transactions"}, ClickPage(p, b)
        PROVE  Step({}, {"page"}) /\ Task("page", p, None) \in Tasks
    <2>1. Task("page", p, None) \in Tasks /\ Task("page", p, None).step = "page"
      BY MainWindowAssumption, TaskMade, TaskFields
    <2> QED
      BY <1>4, <2>1, RpcStep DEF ClickPage, Ready, Input, Step
  <1>5. ASSUME ShowTransactions(b)
        PROVE  Step({}, {"from"}) /\ Task("from", "transactions", session) \in Tasks
    <2> DEFINE t == Task("from", "transactions", session)
    <2>1. t \in Tasks /\ t.step = "from"
      BY <1>5, TaskMade, TaskFields DEF ShowTransactions, TypeOK, Address
    <2> QED
      BY <1>5, <2>1, RpcStep DEF ShowTransactions, Ready, Input, Step
  <1>6. ASSUME OnFrom(b)
        PROVE  Step({"from"}, {"to"}) /\ Task("to", "transactions", Head(messages).task.of) \in Tasks
    <2> DEFINE t == Task("to", "transactions", Head(messages).task.of)
    <2>1. /\ messages # <<>> /\ messages' = Tail(messages) /\ Head(messages).task.step = "from"
          /\ Head(messages).task \in Tasks
      BY <1>6, AnsweredStep DEF OnFrom
    <2>2. t \in Tasks /\ t.step = "to"
      BY <2>1, TaskTypes, TaskMade, TaskFields
    <2> QED
      BY <1>6, <2>1, <2>2, RpcStep DEF OnFrom, Step
  <1> QED
    BY <1>1, <1>2, <1>3, <1>4, <1>5, <1>6

LEMMA StepsOfTransactions ==
    ASSUME TypeOK, NEW b \in BOOLEAN
    PROVE  /\ \A k \in Kinds :
                  ClickTransaction(k, b) =>
                      /\ Step({}, {"check", "create"})
                      /\ Task(IF Checked(k) THEN "check" ELSE "create", k, OwnerOf(k)) \in Tasks
           /\ OnCheckPasses(b) =>
                  /\ Step({"check"}, {"create"})
                  /\ Task("create", Head(messages).task.what, Head(messages).task.of) \in Tasks
           /\ OnCreateSigns(b) =>
                  /\ Step({"create"}, {"broadcast"})
                  /\ Task("broadcast", Head(messages).task.what, Head(messages).task.of) \in Tasks
  <1>1. ASSUME NEW k \in Kinds, ClickTransaction(k, b)
        PROVE  /\ Step({}, {"check", "create"})
               /\ Task(IF Checked(k) THEN "check" ELSE "create", k, OwnerOf(k)) \in Tasks
    <2> DEFINE t == Task(IF Checked(k) THEN "check" ELSE "create", k, OwnerOf(k))
    <2>1. t \in Tasks
      BY TaskMade, OwnerOK, MainWindowAssumption
    <2>2. t.step \in {"check", "create"}
      BY TaskFields
    <2> QED
      BY <1>1, <2>1, <2>2, RpcStep DEF ClickTransaction, Ready, Input, Step
  <1>2. ASSUME OnCheckPasses(b)
        PROVE  /\ Step({"check"}, {"create"})
               /\ Task("create", Head(messages).task.what, Head(messages).task.of) \in Tasks
    <2> DEFINE t == Task("create", Head(messages).task.what, Head(messages).task.of)
    <2>1. /\ messages # <<>> /\ messages' = Tail(messages) /\ Head(messages).task.step = "check"
          /\ Head(messages).task \in Tasks
      BY <1>2, AnsweredStep DEF OnCheckPasses
    <2>2. t \in Tasks /\ t.step = "create"
      BY <2>1, TaskTypes, TaskMade, TaskFields
    <2> QED
      BY <1>2, <2>1, <2>2, RpcStep DEF OnCheckPasses, Step
  <1>3. ASSUME OnCreateSigns(b)
        PROVE  /\ Step({"create"}, {"broadcast"})
               /\ Task("broadcast", Head(messages).task.what, Head(messages).task.of) \in Tasks
    <2> DEFINE t == Task("broadcast", Head(messages).task.what, Head(messages).task.of)
    <2>1. /\ messages # <<>> /\ messages' = Tail(messages) /\ Head(messages).task.step = "create"
          /\ Head(messages).task \in Tasks
      BY <1>3, AnsweredStep DEF OnCreateSigns
    <2>2. t \in Tasks /\ t.step = "broadcast"
      BY <2>1, TaskTypes, TaskMade, TaskFields
    <2> QED
      BY <1>3, <2>1, <2>2, RpcStep DEF OnCreateSigns, Step
  <1> QED
    BY <1>1, <1>2, <1>3

-----------------------------------------------------------------------------
(* A view shows the data of its address.                                    *)

ViewTasks(f) == [step : {"view"}, what : {f}, of : Accounts]
ViewTasksOf(f, a) == {t \in ViewTasks(f) : t.of = a}

\* The last request of the view f that was accepted is for the address it has now;
\* when it is answered, address and data belong together.
ViewOK(f) ==
    /\ form[f].data \in {None, form[f].label} \/ form[f].refused \/ Has(Line, ViewTasks(f))
    /\ form[f].refused \/ LastIs(Line, ViewTasks(f), ViewTasksOf(f, form[f].address))

ViewInv == \A f \in AllViews : ViewOK(f)

LEMMA ViewTaskFacts ==
    /\ \A f \in AllViews : /\ ViewTasks(f) \in SUBSET Tasks
                           /\ \A a : ViewTasksOf(f, a) \in SUBSET Tasks
                           /\ \A t \in ViewTasks(f) : t.step = "view" /\ t.what = f
    /\ \A t \in Tasks : t.step = "view" => t \in ViewTasks(t.what)
    /\ \A f, a : \A t \in ViewTasksOf(f, a) : t \in ViewTasks(f) /\ t.of = a
    /\ \A f : \A a \in Accounts : Task("view", f, a) \in ViewTasksOf(f, a)
    /\ \A f : \A t \in ViewTasks(f) : t \in ViewTasksOf(f, t.of)
  BY DEF ViewTasks, ViewTasksOf, Tasks, Task

\* What ViewInv is for.
LEMMA ViewInvShows == TypeOK /\ ViewInv => ViewShowsItsAddress
  <1> SUFFICES ASSUME TypeOK, ViewInv, NEW f \in AllViews
               PROVE  \/ form[f].data \in {None, form[f].label}
                      \/ form[f].refused
                      \/ \E t \in Pending : t.step = "view" /\ t.what = f
    BY DEF ViewShowsItsAddress
  <1>1. Has(Line, ViewTasks(f)) => \E t \in Pending : t.step = "view" /\ t.what = f
    BY PendingIsLine, ViewTaskFacts
  <1> QED
    BY <1>1 DEF ViewInv, ViewOK

\* Steps that leave the form and its tasks alone.
LEMMA ViewSame ==
    ASSUME TypeOK, NEW f \in AllViews, ViewOK(f), FormsKept,
           \/ NetworkNext \/ Post
           \/ \E S, T : Step(S, T) /\ "view" \notin S \cup T
    PROVE  ViewOK(f)'
  <1>1. PICK a : a = form[f].address
    OBVIOUS
  <1> DEFINE A == ViewTasks(f)
             B == ViewTasksOf(f, a)
  <1>2. A \in SUBSET Tasks /\ B \in SUBSET Tasks /\ \A t \in A : t.step = "view"
    BY ViewTaskFacts
  <1> HIDE DEF A, B
  <1>3. (Has(Line, A) => Has(Line', A)) /\ (LastIs(Line, A, B) => LastIs(Line', A, B))
    <2>1. CASE NetworkNext \/ Post
      BY <1>2, <2>1, LineKept
    <2>2. ASSUME NEW S, NEW T, Step(S, T), "view" \notin S \cup T
          PROVE  (Has(Line, A) => Has(Line', A)) /\ (LastIs(Line, A, B) => LastIs(Line', A, B))
      BY <1>2, <2>2, StepKeeps
    <2> QED
      BY <2>1, <2>2
  <1> QED
    BY <1>1, <1>3 DEF ViewOK, FormsKept, A, B

\* A view asks for the data of its new address.
LEMMA ViewSetAddress ==
    ASSUME TypeOK, ViewInv, NEW g \in AllViews, NEW a \in Accounts, NEW b \in BOOLEAN,
           SetAddress(g, a, b),
           \/ messages' = messages
           \/ messages # <<>> /\ messages' = Tail(messages) /\ Head(messages).task.step # "view"
    PROVE  ViewInv'
  <1> SUFFICES ASSUME NEW f \in AllViews PROVE ViewOK(f)'
    BY DEF ViewInv
  <1> DEFINE t == Task("view", g, a)
             l == LineOf(messages', queue, net = "posted")
             A == ViewTasks(f)
  <1>1. PICK c : c = form[f].address
    OBVIOUS
  <1>2. t \in Tasks /\ t \in ViewTasks(g) /\ t \in ViewTasksOf(g, a) /\ (f # g => t \notin A)
    BY TaskMade, TaskFields, ViewTaskFacts
  <1>3. net' = net /\ queue' = (IF b THEN Append(queue, t) ELSE queue)
    BY DEF SetAddress, Rpc
  <1>4. /\ f # g => form'[f] = form[f]
        /\ f = g => form'[f].address = a /\ form'[f].refused = ~b
    BY SetAddressForms DEF TypeOK
  <1>5. /\ l = Line \/ (Popped(Line, l) /\ Line[1].step # "view")
        /\ ~b => Line' = l
        /\ b => Pushed(l, Line', t)
    BY <1>2, <1>3, LineStep
  <1>6. \A u \in A : u.step = "view"
    BY ViewTaskFacts
  <1> HIDE DEF t, l, A
  <1>7. /\ Has(Line, A) => Has(l, A)
        /\ LastIs(Line, A, ViewTasksOf(f, c)) => LastIs(l, A, ViewTasksOf(f, c))
    BY <1>5, <1>6, PoppedKeeps
  <1>8. CASE f # g
    <2>1. /\ Has(l, A) => Has(Line', A)
          /\ LastIs(l, A, ViewTasksOf(f, c)) => LastIs(Line', A, ViewTasksOf(f, c))
      BY <1>2, <1>5, <1>8, PushedKeeps
    <2> QED
      BY <1>1, <1>4, <1>7, <1>8, <2>1 DEF ViewInv, ViewOK, A
  <1>9. CASE f = g /\ b
    <2>1. Has(Line', A) /\ LastIs(Line', A, ViewTasksOf(f, a))
      BY <1>2, <1>5, <1>9, PushedKeeps DEF A
    <2> QED
      BY <1>4, <1>9, <2>1 DEF ViewOK, A
  <1>10. CASE f = g /\ ~b
    <2>1. form'[f].refused = ~b
      BY <1>4, <1>10
    <2>2. form'[f].refused
      BY <1>10, <2>1
    <2> QED
      BY <2>2 DEF ViewOK
  <1> QED
    BY <1>8, <1>9, <1>10

\* A view is answered.
LEMMA ViewAnswered ==
    ASSUME TypeOK, ViewInv, NEW b \in BOOLEAN, OnView(b)
    PROVE  ViewInv'
  <1> SUFFICES ASSUME NEW f \in AllViews PROVE ViewOK(f)'
    BY DEF ViewInv
  <1> DEFINE m == Head(messages)
             g == m.task.what
             l == LineOf(messages', queue, net = "posted")
             A == ViewTasks(f)
  <1>1. PICK c : c = form[f].address
    OBVIOUS
  <1> DEFINE B == ViewTasksOf(f, c)
  <1>2. /\ messages # <<>> /\ messages' = Tail(messages) /\ m.ok \in BOOLEAN
        /\ m.task \in Tasks /\ m.task.step = "view"
    BY AnsweredStep DEF OnView
  <1>3. /\ net' = net /\ g \in AllViews
        /\ queue' = queue \/ \E u \in Tasks : u.step = "net" /\ queue' = Append(queue, u)
    <2>1. Step({"view"}, {"net"}) /\ g \in AllViews
      BY StepsOfForms
    <2> QED
      BY <2>1 DEF Step
  <1>4. /\ f # g => form'[f] = form[f]
        /\ f = g => /\ form'[f].address = c /\ form'[f].label = c
                    /\ form'[f].data \in {None, m.task.of}
                    /\ form'[f].refused = form[f].refused
    BY <1>1, <1>2, <1>3, TaskTypes, OnViewForms DEF TypeOK, Answer
  <1>5. /\ Popped(Line, l) /\ Line[1] = m.task
        /\ Line' = l \/ \E u \in Tasks : u.step = "net" /\ Pushed(l, Line', u)
    BY <1>2, <1>3, LineStep
  <1>6. /\ \A u \in A : u.step = "view" /\ u.what = f
        /\ m.task \in ViewTasks(g)
        /\ \A u \in B : u.of = c
    BY <1>2, ViewTaskFacts
  <1> HIDE DEF l, A, B, m
  <1>7. /\ LastIs(Line, A, B) => LastIs(l, A, B)
        /\ LastIs(Line, A, B) /\ f = g => Has(l, A) \/ m.task \in B
        /\ Has(Line, A) => Has(l, A) \/ f = g
    BY <1>5, <1>6, PoppedKeeps DEF A
  <1>8. /\ LastIs(l, A, B) => LastIs(Line', A, B)
        /\ Has(l, A) => Has(Line', A)
    BY <1>5, <1>6, PushedKeeps
  <1>9. ViewOK(f)
    BY DEF ViewInv
  <1>10. CASE f # g
    BY <1>1, <1>4, <1>7, <1>8, <1>9, <1>10 DEF ViewOK, A, B
  <1>11. CASE f = g
    <2>1. form'[f].refused \/ Has(Line', A) \/ m.task.of = c
      BY <1>1, <1>4, <1>6, <1>7, <1>8, <1>9, <1>11 DEF ViewOK, A, B
    <2>2. form'[f].refused \/ LastIs(Line', A, B)
      BY <1>1, <1>4, <1>7, <1>8, <1>9, <1>11 DEF ViewOK, A, B
    <2> QED
      BY <1>4, <1>11, <2>1, <2>2 DEF ViewOK, A, B
  <1> QED
    BY <1>10, <1>11

\* Initially nothing is shown or asked for.
LEMMA ViewInit == Init => ViewInv
  <1> SUFFICES ASSUME Init, NEW f \in AllViews PROVE ViewOK(f)
    BY DEF ViewInv
  <1>1. DOMAIN Line = {}
    BY DEF Init, Line, LineOf
  <1> QED
    BY <1>1 DEF Init, NoForm, ViewOK, LastIs

LEMMA ViewNext == TypeOK /\ ViewInv /\ [Next]_vars => ViewInv'
  <1> SUFFICES ASSUME TypeOK, ViewInv, [Next]_vars PROVE ViewInv'
    OBVIOUS
  <1>0. form' = form => FormsKept
    BY DEF FormsKept
  <1>1. ASSUME FormsKept, NetworkNext \/ Post \/ \E S, T : Step(S, T) /\ "view" \notin S \cup T
        PROVE  ViewInv'
    BY <1>1, ViewSame DEF ViewInv
  <1>2. CASE NetworkNext
    <2>1. form' = form
      BY <1>2 DEF NetworkNext, LogIn, PostCallback, EndTask, window
    <2> QED
      BY <1>0, <1>1, <1>2, <2>1
  <1>3. CASE Post
    BY <1>0, <1>1, <1>3 DEF Post, window
  <1>4. CASE Timer \/ OnShowLogin \/ SignOut \/ CheckLoginFails \/ ShowAddresses
    <2>1. form' = form
      BY <1>4 DEF Timer, OnShowLogin, SignOut, CheckLoginFails, ShowAddresses, window
    <2> QED
      BY <1>0, <1>1, <1>4, <2>1, StepsOfLoop
  <1>5. CASE OnShowStatus \/ OnHideStatus \/ OnLogin \/ OnPage \/ OnTo \/ OnCheckFails \/ OnCreateFails
    <2>1. form' = form
      BY <1>5 DEF OnShowStatus, OnHideStatus, OnLogin, OnPage, OnTo, OnCheckFails,
                  OnCreateFails, window
    <2> QED
      BY <1>0, <1>1, <1>5, <2>1, StepsOfLoop
  <1>6. CASE (\E a \in Accounts : ClickLogin(a)) \/ (\E f \in {"freeze", "issue", "modify"} \cap Kinds : OpenForm(f))
    <2>1. form' = form
      BY <1>6 DEF ClickLogin, OpenForm, window
    <2> QED
      BY <1>0, <1>1, <1>6, <2>1, StepsOfLoop
  <1>7. ASSUME NEW b \in BOOLEAN,
               \/ OnFrom(b) \/ OnCheckPasses(b) \/ OnCreateSigns(b) \/ OnBroadcast(b) \/ ShowTransactions(b)
               \/ \E p \in Pages \ {"transactions"} : ClickPage(p, b)
               \/ \E k \in Kinds : ClickTransaction(k, b)
        PROVE  ViewInv'
    <2>1. form' = form
      BY <1>7 DEF OnFrom, OnCheckPasses, OnCreateSigns, OnBroadcast, ShowTransactions,
                  ClickPage, ClickTransaction, window
    <2>2. \E S, T : Step(S, T) /\ "view" \notin S \cup T
      BY <1>7, StepsOfLoop, StepsOfForms, StepsOfTransactions
    <2> QED
      BY <1>0, <1>1, <2>1, <2>2
  <1>8. ASSUME NEW b \in BOOLEAN, OnView(b) PROVE ViewInv'
    BY <1>8, ViewAnswered
  <1>9. ASSUME NEW f \in Views, NEW a \in Accounts, NEW b \in BOOLEAN, ClickView(f, a, b)
        PROVE  ViewInv'
    BY <1>9, ViewSetAddress, MainWindowAssumption DEF ClickView, Ready, Input
  <1>10. ASSUME NEW b \in BOOLEAN, OnAccountBarLogin(b) PROVE ViewInv'
    <2>1. messages # <<>> /\ messages' = Tail(messages) /\ Head(messages).task.step = "none"
      BY <1>10, EventStep DEF OnAccountBarLogin
    <2>2. CASE session = None
      <3>1. form' = form /\ Step({"none"}, {})
        BY <1>10, <2>1, <2>2 DEF OnAccountBarLogin, ShowBalanceList, NoRpc, network, Step
      <3> QED
        BY <1>0, <1>1, <3>1
    <2>3. CASE session # None
      <3>1. SetAddress("balance", session, b) /\ session \in Accounts /\ "balance" \in AllViews
        BY <1>10, <2>3 DEF OnAccountBarLogin, ShowBalanceList, TypeOK, Address, AllViews
      <3> QED
        BY <2>1, <3>1, ViewSetAddress
    <2> QED
      BY <2>2, <2>3
  <1>11. CASE UNCHANGED vars
    <2>1. form' = form /\ Step({}, {})
      BY <1>11 DEF vars, window, loop, network, Step
    <2> QED
      BY <1>0, <1>1, <2>1
  <1>14. CASE OnNet
    BY <1>1, <1>14, OnNetKeeps, StepsOfLoop
  <1>12. CASE MessageNext
    BY <1>14, <1>3, <1>5, <1>7, <1>8, <1>10, <1>12 DEF MessageNext
  <1>13. CASE UserNext
    BY <1>4, <1>6, <1>7, <1>9, <1>13 DEF UserNext
  <1> QED
    BY <1>2, <1>4, <1>11, <1>12, <1>13 DEF Next, Rest

\* A balance form or a send form, which have their address at once and the balance with
\* a later answer, maybe to an earlier request, do not go on showing the balance (nor the
\* balance form the tokens) of one address as that of another.
THEOREM ViewShowsItsAddressAlways == Spec => []ViewShowsItsAddress
  <1>1. Init => TypeOK /\ ViewInv
    BY TypeInit, ViewInit
  <1>2. TypeOK /\ ViewInv /\ [Next]_vars => TypeOK' /\ ViewInv'
    BY TypeNext, ViewNext
  <1>3. TypeOK /\ ViewInv => ViewShowsItsAddress
    BY ViewInvShows
  <1> QED
    BY <1>1, <1>2, <1>3, PTL DEF Spec

-----------------------------------------------------------------------------
(* A balance form shows the bandwidth of its address.                       *)

NetTasks(f) == [step : {"net"}, what : {f}, of : Accounts]
NetTasksOf(f, a) == {t \in NetTasks(f) : t.of = a}

\* No request of the view f is under way that a request for the bandwidth follows, and
\* none was refused: the bandwidth is, or will be, that of the address it shows.
Loaded(f) == ~(form[f].refused \/ form[f].netRefused \/ Has(Line, ViewTasks(f)))

\* The last request for a bandwidth is for the address that is shown; when it is
\* answered, address and bandwidth belong together.
BandwidthOK(f) ==
    Loaded(f) =>
        /\ form[f].bandwidth \in {None, form[f].label} \/ Has(Line, NetTasks(f))
        /\ LastIs(Line, NetTasks(f), NetTasksOf(f, form[f].label))

BandwidthInv == \A f \in {"balance", "watch"} : BandwidthOK(f)

LEMMA NetTaskFacts ==
    /\ \A f \in AllViews : /\ NetTasks(f) \in SUBSET Tasks
                           /\ \A a : NetTasksOf(f, a) \in SUBSET Tasks
                           /\ \A t \in NetTasks(f) : t.step = "net" /\ t.what = f
    /\ \A t \in Tasks : t.step = "net" => t \in NetTasks(t.what)
    /\ \A f, a : \A t \in NetTasksOf(f, a) : t \in NetTasks(f) /\ t.of = a
    /\ \A f : \A a \in Accounts : Task("net", f, a) \in NetTasksOf(f, a)
    /\ \A f : \A t \in NetTasks(f) : t \in NetTasksOf(f, t.of)
  BY DEF NetTasks, NetTasksOf, Tasks, Task

LEMMA BalanceForms ==
    /\ {"balance", "watch"} \subseteq AllViews
    /\ \A f \in {"balance", "watch"} : Spins(f)
  BY DEF AllViews, Spins

\* What BandwidthInv is for.
LEMMA BandwidthInvShows == TypeOK /\ BandwidthInv => BandwidthOfItsAddress
  <1> SUFFICES ASSUME TypeOK, BandwidthInv, NEW f \in {"balance", "watch"}
               PROVE  \/ form[f].bandwidth \in {None, form[f].label}
                      \/ form[f].refused \/ form[f].netRefused
                      \/ \E t \in Pending : t.step \in {"view", "net"} /\ t.what = f
    BY DEF BandwidthOfItsAddress
  <1>1. f \in AllViews
    BY BalanceForms
  <1>2. Has(Line, ViewTasks(f)) => \E t \in Pending : t.step = "view" /\ t.what = f
    BY <1>1, PendingIsLine, ViewTaskFacts
  <1>3. Has(Line, NetTasks(f)) => \E t \in Pending : t.step = "net" /\ t.what = f
    BY <1>1, PendingIsLine, NetTaskFacts
  <1> QED
    BY <1>2, <1>3 DEF BandwidthInv, BandwidthOK, Loaded

\* Steps that leave the form and its tasks alone.
LEMMA BandwidthSame ==
    ASSUME TypeOK, NEW f \in AllViews, BandwidthOK(f), form'[f] = form[f],
           \/ NetworkNext \/ Post
           \/ \E S, T : Step(S, T) /\ {"view", "net"} \cap (S \cup T) = {}
    PROVE  BandwidthOK(f)'
  <1>1. PICK a : a = form[f].label
    OBVIOUS
  <1> DEFINE A == NetTasks(f)
             B == NetTasksOf(f, a)
             C == ViewTasks(f)
  <1>2. /\ A \in SUBSET Tasks /\ B \in SUBSET Tasks /\ C \in SUBSET Tasks
        /\ \A t \in A : t.step = "net"
        /\ \A t \in C : t.step = "view"
    BY NetTaskFacts, ViewTaskFacts
  <1> HIDE DEF A, B, C
  <1>3. /\ Has(Line, A) => Has(Line', A)
        /\ LastIs(Line, A, B) => LastIs(Line', A, B)
        /\ Has(Line, C) => Has(Line', C)
    <2>1. CASE NetworkNext \/ Post
      <3>1. (Has(Line, A) => Has(Line', A)) /\ (LastIs(Line, A, B) => LastIs(Line', A, B))
        BY <1>2, <2>1, LineKept
      <3>2. Has(Line, C) => Has(Line', C)
        BY <1>2, <2>1, LineKept
      <3> QED
        BY <3>1, <3>2
    <2>2. ASSUME NEW S, NEW T, Step(S, T), {"view", "net"} \cap (S \cup T) = {}
          PROVE  /\ Has(Line, A) => Has(Line', A)
                 /\ LastIs(Line, A, B) => LastIs(Line', A, B)
                 /\ Has(Line, C) => Has(Line', C)
      <3>1. "view" \notin S /\ "net" \notin S /\ "net" \notin T
        BY <2>2
      <3>2. (Has(Line, A) => Has(Line', A)) /\ (LastIs(Line, A, B) => LastIs(Line', A, B))
        BY <1>2, <2>2, <3>1, StepKeeps
      <3>3. Has(Line, C) => Has(Line', C)
        BY <1>2, <2>2, <3>1, StepKeeps
      <3> QED
        BY <3>2, <3>3
    <2> QED
      BY <2>1, <2>2
  <1> QED
    BY <1>1, <1>3 DEF BandwidthOK, Loaded, A, B, C

\* A view asks for the data of its new address.
LEMMA BandwidthSetAddress ==
    ASSUME TypeOK, BandwidthInv, NEW g \in AllViews, NEW a \in Accounts, NEW b \in BOOLEAN,
           SetAddress(g, a, b),
           \/ messages' = messages
           \/ messages # <<>> /\ messages' = Tail(messages) /\ Head(messages).task.step = "none"
    PROVE  BandwidthInv'
  <1> SUFFICES ASSUME NEW f \in {"balance", "watch"} PROVE BandwidthOK(f)'
    BY DEF BandwidthInv
  <1>0. f \in AllViews /\ BandwidthOK(f)
    BY BalanceForms DEF BandwidthInv
  <1>1. PICK c : c = form[f].label
    OBVIOUS
  <1> DEFINE t == Task("view", g, a)
             l == LineOf(messages', queue, net = "posted")
             A == NetTasks(f)
             B == NetTasksOf(f, c)
             C == ViewTasks(f)
  <1>2. t \in Tasks /\ t \notin A /\ t \in ViewTasks(g)
    BY <1>0, TaskMade, TaskFields, ViewTaskFacts, NetTaskFacts
  <1>3. net' = net /\ queue' = (IF b THEN Append(queue, t) ELSE queue)
    BY DEF SetAddress, Rpc
  <1>4. /\ f # g => form'[f] = form[f]
        /\ f = g => form'[f].refused = ~b
    BY <1>0, SetAddressForms DEF TypeOK
  <1>5. /\ l = Line \/ (Popped(Line, l) /\ Line[1].step = "none")
        /\ ~b => Line' = l
        /\ b => Pushed(l, Line', t)
    BY <1>2, <1>3, LineStep
  <1>6. (\A u \in A : u.step = "net") /\ (\A u \in C : u.step = "view")
    BY <1>0, ViewTaskFacts, NetTaskFacts
  <1> HIDE DEF t, l, A, B, C
  <1>7. /\ Has(Line, A) => Has(l, A)
        /\ LastIs(Line, A, B) => LastIs(l, A, B)
    BY <1>5, <1>6, PoppedKeeps
  <1>8. Has(Line, C) => Has(l, C)
    BY <1>5, <1>6, PoppedKeeps
  <1>9. /\ Has(l, A) => Has(Line', A)
        /\ LastIs(l, A, B) => LastIs(Line', A, B)
    BY <1>2, <1>5, PushedKeeps
  <1>10. Has(l, C) \/ (b /\ f = g) => Has(Line', C)
    BY <1>2, <1>5, PushedKeeps DEF C
  <1>11. CASE f # g
    BY <1>0, <1>1, <1>4, <1>7, <1>8, <1>9, <1>10, <1>11 DEF BandwidthOK, Loaded, A, B, C
  <1>12. CASE f = g
    <2>1. form'[f].refused \/ Has(Line', C)
      <3>1. CASE b
        BY <1>10, <1>12, <3>1
      <3>2. CASE ~b
        BY <1>4, <1>12, <3>2
      <3> QED
        BY <3>1, <3>2
    <2> QED
      BY <2>1 DEF BandwidthOK, Loaded, C
  <1> QED
    BY <1>11, <1>12

\* A view is answered, and asks for the bandwidth of the address it was asked for.
LEMMA BandwidthView ==
    ASSUME TypeOK, ViewInv, BandwidthInv, NEW b \in BOOLEAN, OnView(b)
    PROVE  BandwidthInv'
  <1> SUFFICES ASSUME NEW f \in {"balance", "watch"} PROVE BandwidthOK(f)'
    BY DEF BandwidthInv
  <1>0. f \in AllViews /\ Spins(f) /\ BandwidthOK(f) /\ ViewOK(f)
    BY BalanceForms DEF BandwidthInv, ViewInv
  <1> DEFINE m == Head(messages)
             g == m.task.what
             t == Task("net", g, m.task.of)
             l == LineOf(messages', queue, net = "posted")
             A == NetTasks(f)
             C == ViewTasks(f)
  <1>1. PICK c : c = form'[f].label
    OBVIOUS
  <1> DEFINE B == NetTasksOf(f, c)
             D == ViewTasksOf(f, form[f].address)
  <1>2. /\ messages # <<>> /\ messages' = Tail(messages) /\ m.ok \in BOOLEAN
        /\ m.task \in Tasks /\ m.task.step = "view"
    BY AnsweredStep DEF OnView
  <1>3. g \in AllViews /\ m.task.of \in Accounts
    BY <1>2, TaskTypes
  <1>4. /\ t \in Tasks /\ t \in NetTasksOf(g, m.task.of) /\ t \in NetTasks(g) /\ t \notin C
        /\ (f # g => t \notin A)
    <2>1. t \in Tasks /\ t \in NetTasksOf(g, m.task.of) /\ t.step = "net" /\ t.what = g
      BY <1>3, TaskMade, TaskFields, NetTaskFacts
    <2>2. t \in NetTasks(g)
      BY <2>1, NetTaskFacts
    <2>3. t \notin C
      BY <1>0, <2>1, ViewTaskFacts
    <2>4. f # g => t \notin A
      BY <1>0, <2>1, NetTaskFacts
    <2> QED
      BY <2>1, <2>2, <2>3, <2>4
  <1>5. /\ net' = net
        /\ Spins(g) => queue' = (IF b THEN Append(queue, t) ELSE queue)
        /\ ~Spins(g) => queue' = queue
    BY DEF OnView, Rpc, NoRpc, network
  <1>6. /\ f # g => form'[f] = form[f]
        /\ f = g => /\ form'[f].label = form[f].address
                    /\ form'[f].refused = form[f].refused
                    /\ form'[f].netRefused = (Spins(f) /\ ~b)
    BY <1>0, <1>2, <1>3, OnViewForms DEF TypeOK
  <1>7. /\ Popped(Line, l) /\ Line[1] = m.task
        /\ Line' = l \/ Pushed(l, Line', t)
        /\ b /\ Spins(g) => Pushed(l, Line', t)
    <2>1. queue' = queue \/ queue' = Append(queue, t)
      BY <1>5
    <2>2. b /\ Spins(g) => queue' = Append(queue, t)
      BY <1>5
    <2> HIDE DEF m, t, g
    <2>3. /\ Popped(Line, l) /\ Line[1] = Head(messages).task
          /\ queue' = queue => Line' = l
          /\ queue' = Append(queue, t) => Pushed(l, Line', t)
      BY <1>2, <1>4, <1>5, LineStep
    <2> QED
      BY <2>1, <2>2, <2>3 DEF m
  <1>8. /\ \A u \in A : u.step = "net"
        /\ \A u \in C : u.step = "view" /\ u.what = f
        /\ \A u \in D : u.of = form[f].address
        /\ m.task \in C <=> f = g
    BY <1>0, <1>2, ViewTaskFacts, NetTaskFacts
  <1> HIDE DEF m, g, t, l, A, B, C, D
  <1>9. /\ Has(Line, A) => Has(l, A)
        /\ LastIs(Line, A, B) => LastIs(l, A, B)
    BY <1>2, <1>7, <1>8, PoppedKeeps
  <1>10. /\ LastIs(Line, C, D) /\ f = g => Has(l, C) \/ m.task \in D
         /\ Has(Line, C) => Has(l, C) \/ f = g
    BY <1>7, <1>8, PoppedKeeps
  <1>11. /\ Has(l, A) => Has(Line', A)
         /\ t \notin A /\ LastIs(l, A, B) => LastIs(Line', A, B)
    BY <1>7, PushedKeeps
  <1>12. Has(l, C) => Has(Line', C)
    BY <1>7, PushedKeeps
  <1>13. CASE f # g
    BY <1>0, <1>1, <1>4, <1>6, <1>9, <1>10, <1>11, <1>12, <1>13 DEF BandwidthOK, Loaded, A, B, C
  <1>14. CASE f = g /\ ~b
    <2>1. form'[f].netRefused = (Spins(f) /\ ~b)
      BY <1>6, <1>14
    <2>2. form'[f].netRefused
      BY <1>0, <1>14, <2>1
    <2> QED
      BY <2>2 DEF BandwidthOK, Loaded
  <1>15. CASE f = g /\ b
    <2>1. Pushed(l, Line', t) /\ t \in A
      BY <1>0, <1>4, <1>7, <1>15 DEF A
    <2>2. Has(Line', A)
      BY <2>1, PushedKeeps
    <2>3. form[f].refused \/ Has(Line', C) \/ m.task.of = form[f].address
      BY <1>0, <1>8, <1>10, <1>12, <1>15 DEF ViewOK, C, D
    <2>4. m.task.of = form[f].address => LastIs(Line', A, B)
      <3> HAVE m.task.of = form[f].address
      <3>1. t \in B
        BY <1>1, <1>4, <1>6, <1>15 DEF B
      <3> QED
        BY <2>1, <3>1, PushedKeeps
    <2> QED
      BY <1>1, <1>6, <1>15, <2>2, <2>3, <2>4 DEF BandwidthOK, Loaded, A, B, C
  <1> QED
    BY <1>13, <1>14, <1>15

\* The bandwidth comes.
LEMMA BandwidthNet ==
    ASSUME TypeOK, BandwidthInv, OnNet
    PROVE  BandwidthInv'
  <1> SUFFICES ASSUME NEW f \in {"balance", "watch"} PROVE BandwidthOK(f)'
    BY DEF BandwidthInv
  <1>0. f \in AllViews /\ BandwidthOK(f)
    BY BalanceForms DEF BandwidthInv
  <1>1. PICK c : c = form[f].label
    OBVIOUS
  <1> DEFINE m == Head(messages)
             g == m.task.what
             A == NetTasks(f)
             B == NetTasksOf(f, c)
             C == ViewTasks(f)
  <1>2. /\ messages # <<>> /\ messages' = Tail(messages)
        /\ m.task \in Tasks /\ m.task.step = "net"
    BY AnsweredStep DEF OnNet
  <1>3. g \in AllViews /\ m.task.of \in Accounts
    BY <1>2, TaskTypes
  <1>4. Popped(Line, Line') /\ Line[1] = m.task
    <2>1. net' = net /\ queue' = queue
      BY DEF OnNet, network
    <2> QED
      BY <1>2, <2>1, LineStep
  <1>5. /\ form'[f].label = c /\ form'[f].refused = form[f].refused
        /\ form'[f].netRefused = form[f].netRefused
        /\ f # g => form'[f].bandwidth = form[f].bandwidth
        /\ f = g => form'[f].bandwidth \in {None, m.task.of}
    BY <1>0, <1>1, <1>3, OnNetForms DEF TypeOK, Answer
  <1>6. /\ \A u \in A : u.what = f
        /\ \A u \in B : u.of = c
        /\ \A u \in C : u.step = "view"
        /\ m.task \in NetTasks(g)
    BY <1>0, <1>2, NetTaskFacts, ViewTaskFacts
  <1> HIDE DEF m, A, B, C
  <1>7. /\ LastIs(Line, A, B) => LastIs(Line', A, B)
        /\ LastIs(Line, A, B) /\ f = g => Has(Line', A) \/ m.task \in B
        /\ Has(Line, A) => Has(Line', A) \/ f = g
    BY <1>4, <1>6, PoppedKeeps DEF A
  <1>8. Has(Line, C) => Has(Line', C)
    BY <1>2, <1>4, <1>6, PoppedKeeps
  <1>9. Loaded(f)' => Loaded(f)
    BY <1>5, <1>8 DEF Loaded, C
  <1>10. ASSUME Loaded(f)
         PROVE  /\ form'[f].bandwidth \in {None, c} \/ Has(Line', A)
                /\ LastIs(Line', A, B)
    <2>1. /\ form[f].bandwidth \in {None, c} \/ Has(Line, A)
          /\ LastIs(Line, A, B)
      BY <1>0, <1>1, <1>10 DEF BandwidthOK, A, B
    <2>2. CASE f = g
      BY <1>5, <1>6, <1>7, <2>1, <2>2
    <2>3. CASE f # g
      BY <1>5, <1>7, <2>1, <2>3
    <2> QED
      BY <2>2, <2>3
  <1> QED
    BY <1>5, <1>9, <1>10 DEF BandwidthOK, A, B

\* Initially nothing is asked for.
LEMMA BandwidthInit == Init => BandwidthInv
  <1> SUFFICES ASSUME Init, NEW f \in {"balance", "watch"} PROVE BandwidthOK(f)
    BY DEF BandwidthInv
  <1>0. f \in AllViews
    BY BalanceForms
  <1>1. DOMAIN Line = {}
    BY DEF Init, Line, LineOf
  <1> QED
    BY <1>0, <1>1 DEF Init, NoForm, BandwidthOK, LastIs

LEMMA BandwidthNext == TypeOK /\ ViewInv /\ BandwidthInv /\ [Next]_vars => BandwidthInv'
  <1> SUFFICES ASSUME TypeOK, ViewInv, BandwidthInv, [Next]_vars PROVE BandwidthInv'
    OBVIOUS
  <1>1. ASSUME form' = form,
               \/ NetworkNext \/ Post
               \/ \E S, T : Step(S, T) /\ {"view", "net"} \cap (S \cup T) = {}
        PROVE  BandwidthInv'
    BY <1>1, BandwidthSame, BalanceForms DEF BandwidthInv
  <1>2. CASE NetworkNext
    <2>1. form' = form
      BY <1>2 DEF NetworkNext, LogIn, PostCallback, EndTask, window
    <2> QED
      BY <1>1, <1>2, <2>1
  <1>3. CASE Post
    BY <1>1, <1>3 DEF Post, window
  <1>4. CASE Timer \/ OnShowLogin \/ SignOut \/ CheckLoginFails \/ ShowAddresses
    <2>1. form' = form
      BY <1>4 DEF Timer, OnShowLogin, SignOut, CheckLoginFails, ShowAddresses, window
    <2> QED
      BY <1>1, <1>4, <2>1, StepsOfLoop
  <1>5. CASE OnShowStatus \/ OnHideStatus \/ OnLogin \/ OnPage \/ OnTo \/ OnCheckFails \/ OnCreateFails
    <2>1. form' = form
      BY <1>5 DEF OnShowStatus, OnHideStatus, OnLogin, OnPage, OnTo, OnCheckFails, OnCreateFails,
                  window
    <2> QED
      BY <1>1, <1>5, <2>1, StepsOfLoop
  <1>6. CASE (\E a \in Accounts : ClickLogin(a)) \/ (\E f \in {"freeze", "issue", "modify"} \cap Kinds : OpenForm(f))
    <2>1. form' = form
      BY <1>6 DEF ClickLogin, OpenForm, window
    <2> QED
      BY <1>1, <1>6, <2>1, StepsOfLoop
  <1>7. ASSUME NEW b \in BOOLEAN,
               \/ OnFrom(b) \/ OnCheckPasses(b) \/ OnCreateSigns(b) \/ OnBroadcast(b) \/ ShowTransactions(b)
               \/ \E p \in Pages \ {"transactions"} : ClickPage(p, b)
               \/ \E k \in Kinds : ClickTransaction(k, b)
        PROVE  BandwidthInv'
    <2>1. form' = form
      BY <1>7 DEF OnFrom, OnCheckPasses, OnCreateSigns, OnBroadcast, ShowTransactions,
                  ClickPage, ClickTransaction, window
    <2>2. \E S, T : Step(S, T) /\ {"view", "net"} \cap (S \cup T) = {}
      BY <1>7, StepsOfLoop, StepsOfForms, StepsOfTransactions
    <2> QED
      BY <1>1, <2>1, <2>2
  <1>8. ASSUME NEW b \in BOOLEAN, OnView(b) PROVE BandwidthInv'
    BY <1>8, BandwidthView
  <1>9. ASSUME NEW f \in Views, NEW a \in Accounts, NEW b \in BOOLEAN, ClickView(f, a, b)
        PROVE  BandwidthInv'
    BY <1>9, BandwidthSetAddress, MainWindowAssumption DEF ClickView, Ready, Input
  <1>10. ASSUME NEW b \in BOOLEAN, OnAccountBarLogin(b) PROVE BandwidthInv'
    <2>1. messages # <<>> /\ messages' = Tail(messages) /\ Head(messages).task.step = "none"
      BY <1>10, EventStep DEF OnAccountBarLogin
    <2>2. CASE session = None
      <3>1. form' = form /\ Step({"none"}, {})
        BY <1>10, <2>1, <2>2 DEF OnAccountBarLogin, ShowBalanceList, NoRpc, network, Step
      <3> QED
        BY <1>1, <3>1
    <2>3. CASE session # None
      <3>1. SetAddress("balance", session, b) /\ session \in Accounts /\ "balance" \in AllViews
        BY <1>10, <2>3 DEF OnAccountBarLogin, ShowBalanceList, TypeOK, Address, AllViews
      <3> QED
        BY <2>1, <3>1, BandwidthSetAddress
    <2> QED
      BY <2>2, <2>3
  <1>11. CASE UNCHANGED vars
    <2>1. form' = form /\ Step({}, {})
      BY <1>11 DEF vars, window, loop, network, Step
    <2> QED
      BY <1>1, <2>1
  <1>12. CASE OnNet
    BY <1>12, BandwidthNet
  <1>13. CASE MessageNext
    BY <1>3, <1>5, <1>7, <1>8, <1>10, <1>12, <1>13 DEF MessageNext
  <1>14. CASE UserNext
    BY <1>4, <1>6, <1>7, <1>9, <1>14 DEF UserNext
  <1> QED
    BY <1>2, <1>4, <1>11, <1>13, <1>14 DEF Next, Rest

\* The bandwidth that a balance form shows comes with the second of two answers, and the
\* form goes on showing the old one until then.  It does not stay that of another address,
\* whatever answers are late and whatever is asked for meanwhile, unless one of the two
\* requests was refused.
THEOREM BandwidthOfItsAddressAlways == Spec => []BandwidthOfItsAddress
  <1>1. Init => TypeOK /\ ViewInv /\ BandwidthInv
    BY TypeInit, ViewInit, BandwidthInit
  <1>2. TypeOK /\ ViewInv /\ BandwidthInv /\ [Next]_vars => TypeOK' /\ ViewInv' /\ BandwidthInv'
    BY TypeNext, ViewNext, BandwidthNext
  <1>3. TypeOK /\ BandwidthInv => BandwidthOfItsAddress
    BY BandwidthInvShows
  <1> QED
    BY <1>1, <1>2, <1>3, PTL DEF Spec

-----------------------------------------------------------------------------
(* The transactions shown are of one account.                               *)

FromTasks == [step : {"from"}, what : {"transactions"}, of : Accounts]
ToTasks   == [step : {"to"}, what : {"transactions"}, of : Accounts]

\* Requests for the transactions from and to an account take turns: the buffer is empty
\* unless the second request of a pair is under way, and then it holds the answer to the
\* first.  The second request is not refused: none is outstanding when the first one is
\* answered.
TakeTurns ==
    /\ Unique(Line, FromTasks)
    /\ Unique(Line, ToTasks)
    /\ InOrder(Line, ToTasks, FromTasks)
    /\ \A i \in DOMAIN messages, j \in DOMAIN queue :
          messages[i].task \in FromTasks => queue[j] \notin ToTasks
    /\ \A t \in ToTasks : Has(Line, {t}) => rows \subseteq {t.of}
    /\ Has(Line, ToTasks) \/ rows = {}
    /\ \A a, b \in listed : a = b

TransactionsInv == ~duplicated => TakeTurns

LEMMA TransactionTaskFacts ==
    /\ FromTasks \in SUBSET Tasks /\ ToTasks \in SUBSET Tasks
    /\ \A t \in FromTasks : t.step = "from" /\ t \notin ToTasks
    /\ \A t \in ToTasks : t.step = "to" /\ t \notin FromTasks /\ t.of \in Accounts
    /\ \A t \in Tasks : (t.step = "from" => t \in FromTasks) /\ (t.step = "to" => t \in ToTasks)
    /\ \A t \in Tasks : Type(t) = "to" => t.step = "to"
    /\ NoTask \notin FromTasks /\ NoTask \notin ToTasks
  <1>1. /\ FromTasks \in SUBSET Tasks /\ ToTasks \in SUBSET Tasks
        /\ \A t \in FromTasks : t.step = "from"
        /\ \A t \in ToTasks : t.step = "to" /\ t.of \in Accounts
        /\ \A t \in Tasks : (t.step = "from" => t \in FromTasks) /\ (t.step = "to" => t \in ToTasks)
    BY DEF FromTasks, ToTasks, Tasks
  <1>2. \A t \in Tasks : Type(t) = "to" => t.step = "to"
    BY TaskTypes DEF Type, AllPages, AllKinds
  <1> QED
    BY <1>1, <1>2, NoTaskIsNone

\* Where messages and tasks are in the line.
LEMMA LinePlaces ==
    ASSUME TypeOK
    PROVE  /\ \A i \in DOMAIN messages : i \in DOMAIN Line /\ Line[i] = messages[i].task
           /\ \A j \in DOMAIN queue :
                 (net = "posted" => j > 1) =>
                     Len(messages) + j \in DOMAIN Line /\ Line[Len(messages) + j] = queue[j]
  <1>0. /\ messages \in Seq(Callbacks \cup Events) /\ queue \in Seq(Tasks)
        /\ DOMAIN messages = 1 .. Len(messages) /\ DOMAIN queue = 1 .. Len(queue)
        /\ Len(messages) \in Nat /\ Len(queue) \in Nat
    BY DEF TypeOK
  <1>1. ASSUME NEW i \in DOMAIN messages
        PROVE  i \in DOMAIN Line /\ Line[i] = messages[i].task
    BY <1>0 DEF Line, LineOf
  <1>2. ASSUME NEW j \in DOMAIN queue, net = "posted" => j > 1
        PROVE  Len(messages) + j \in DOMAIN Line /\ Line[Len(messages) + j] = queue[j]
    <2>1. /\ Len(messages) + j \in 1 .. Len(messages) + Len(queue)
          /\ ~(Len(messages) + j <= Len(messages))
          /\ Len(messages) + j - Len(messages) = j
          /\ ~(net = "posted" /\ Len(messages) + j = Len(messages) + 1)
      BY <1>0, <1>2
    <2> DEFINE n == Len(messages) + j
    <2>2. n \in 1 .. Len(messages) + Len(queue) /\ ~(n <= Len(messages)) /\ n - Len(messages) = j
          /\ ~(net = "posted" /\ n = Len(messages) + 1)
      BY <2>1
    <2> HIDE DEF n
    <2>3. /\ DOMAIN Line = 1 .. Len(messages) + Len(queue)
          /\ Line[n] = IF n <= Len(messages) THEN messages[n].task
                       ELSE IF net = "posted" /\ n = Len(messages) + 1 THEN NoTask
                       ELSE queue[n - Len(messages)]
      BY <2>2 DEF Line, LineOf
    <2>4. n \in DOMAIN Line /\ Line[n] = queue[j]
      BY <2>2, <2>3
    <2> QED
      BY <2>4 DEF n
  <1> QED
    BY <1>1, <1>2

\* While no message is there, the line is what the network thread has not answered.
LEMMA LineUnanswered ==
    ASSUME TypeOK, messages = <<>>, NEW A \in SUBSET Tasks, Has(Line, A)
    PROVE  \E t \in Unanswered : t \in A
  <1>1. PICK p \in DOMAIN Line : Line[p] \in A
    BY DEF Has
  <1>2. Len(messages) = 0 /\ queue \in Seq(Tasks)
    BY DEF TypeOK
  <1>3. p \in 1 .. Len(queue) /\ p \in DOMAIN queue /\ NoTask \notin A
    BY <1>2, NoTaskIsNone DEF Line, LineOf
  <1>4. ~(net = "posted" /\ p = 1) /\ Line[p] = queue[p]
    <2>1. Line[p] = IF net = "posted" /\ p = 0 + 1 THEN NoTask ELSE queue[p - 0]
      BY <1>2, <1>3 DEF Line, LineOf
    <2> QED
      BY <1>1, <1>3, <2>1
  <1>5. net = "posted" => p > 1
    BY <1>3, <1>4
  <1> QED
    BY <1>1, <1>3, <1>4, <1>5 DEF Unanswered

\* Callbacks that are posted and tasks that end.
LEMMA TurnsPosted ==
    ASSUME TypeOK, TakeTurns, NetworkNext \/ Post, UNCHANGED <<rows, listed>>
    PROVE  TakeTurns'
  <1>1. /\ Unique(Line', FromTasks) /\ Unique(Line', ToTasks)
        /\ InOrder(Line', ToTasks, FromTasks)
        /\ Has(Line, ToTasks) <=> Has(Line', ToTasks)
        /\ \A t \in ToTasks : Has(Line, {t}) <=> Has(Line', {t})
    <2>1. FromTasks \in SUBSET Tasks /\ ToTasks \in SUBSET Tasks /\ \A t \in ToTasks : {t} \in SUBSET Tasks
      BY TransactionTaskFacts
    <2> QED
      BY <2>1, LineKept DEF TakeTurns
  <1>2. ASSUME NEW i \in DOMAIN messages', NEW j \in DOMAIN queue', messages'[i].task \in FromTasks
        PROVE  queue'[j] \notin ToTasks
    <2>0. messages \in Seq(Callbacks \cup Events) /\ queue \in Seq(Tasks) /\ owed \in Seq(Events)
      BY DEF TypeOK
    <2>1. CASE LogIn
      BY <1>2, <2>1 DEF LogIn, loop, TakeTurns
    <2>2. ASSUME NEW ok \in BOOLEAN, PostCallback(ok) PROVE queue'[j] \notin ToTasks
      <3> DEFINE c == Message("callback", Head(queue), ok)
      <3>1. /\ queue # <<>> /\ Head(queue) = queue[1] /\ Head(queue) \in Tasks /\ 1 \in DOMAIN queue
            /\ DOMAIN queue = 1 .. Len(queue)
        BY <2>0, <2>2, Ends1 DEF PostCallback
      <3>2. c \in Callbacks \cup Events /\ c.task = queue[1]
        BY <3>1, MessageMade
      <3>3. messages' = Append(messages, c) /\ queue' = queue /\ net # "posted"
        BY <2>2 DEF PostCallback
      <3> HIDE DEF c
      <3>4. (i \in DOMAIN messages /\ messages'[i] = messages[i]) \/ messages'[i] = c
        BY <1>2, <2>0, <3>2, <3>3, Append1
      <3>5. CASE i \in DOMAIN messages /\ messages'[i] = messages[i]
        BY <1>2, <3>3, <3>5 DEF TakeTurns
      <3>6. CASE messages'[i] = c
        <4>1. queue[1] \in FromTasks /\ j \in DOMAIN queue /\ j \in Nat /\ j >= 1
          BY <1>2, <3>1, <3>2, <3>3, <3>6
        <4>2. SUFFICES ASSUME queue[j] \in ToTasks PROVE FALSE
          BY <3>3
        <4>3. Len(messages) + j < Len(messages) + 1
          <5>1. /\ Len(messages) + 1 \in DOMAIN Line /\ Line[Len(messages) + 1] \in FromTasks
                /\ Len(messages) + j \in DOMAIN Line /\ Line[Len(messages) + j] \in ToTasks
            BY <3>1, <3>3, <4>1, <4>2, LinePlaces
          <5> QED
            BY <5>1 DEF TakeTurns, InOrder
        <4>4. Len(messages) \in Nat
          BY <2>0
        <4> QED
          BY <4>1, <4>3, <4>4
      <3> QED
        BY <3>4, <3>5, <3>6
    <2>3. CASE EndTask
      <3>1. queue # <<>> /\ queue' = Tail(queue) /\ messages' = messages
        BY <2>3 DEF EndTask, loop, TypeOK
      <3>2. j + 1 \in DOMAIN queue /\ queue'[j] = queue[j + 1]
        BY <2>0, <3>1, Ends1
      <3> QED
        BY <1>2, <3>1, <3>2 DEF TakeTurns
    <2>4. CASE Post
      <3>1. Head(owed) \in Events /\ messages' = Append(messages, Head(owed)) /\ queue' = queue
        BY <2>0, <2>4, Ends1 DEF Post, network
      <3>2. Head(owed).task = NoTask
        BY <3>1, MessageTypes
      <3>3. (i \in DOMAIN messages /\ messages'[i] = messages[i]) \/ messages'[i] = Head(owed)
        BY <1>2, <2>0, <3>1, Append1
      <3> QED
        BY <1>2, <3>1, <3>2, <3>3, TransactionTaskFacts DEF TakeTurns
    <2> QED
      BY <2>1, <2>2, <2>3, <2>4 DEF NetworkNext
  <1> QED
    BY <1>1, <1>2 DEF TakeTurns

\* Steps of the UI thread that have nothing to do with lists of transactions.
LEMMA TurnsSame ==
    ASSUME TypeOK, TakeTurns, UNCHANGED <<rows, listed>>,
           NEW S, NEW T, Step(S, T), {"from", "to"} \cap (S \cup T) = {}
    PROVE  TakeTurns'
  <1>1. /\ Unique(Line', FromTasks) /\ Unique(Line', ToTasks)
        /\ InOrder(Line', ToTasks, FromTasks)
        /\ Has(Line, ToTasks) => Has(Line', ToTasks)
        /\ \A t \in ToTasks : Has(Line', {t}) => Has(Line, {t})
    <2>1. /\ FromTasks \in SUBSET Tasks /\ ToTasks \in SUBSET Tasks
          /\ \A t \in ToTasks : {t} \in SUBSET Tasks
          /\ \A t \in FromTasks \cup ToTasks : t.step \notin S /\ t.step \notin T
      BY TransactionTaskFacts
    <2> QED
      BY <2>1, StepKeeps DEF TakeTurns
  <1>2. ASSUME NEW i \in DOMAIN messages', NEW j \in DOMAIN queue', messages'[i].task \in FromTasks
        PROVE  queue'[j] \notin ToTasks
    <2>0. messages \in Seq(Callbacks \cup Events) /\ queue \in Seq(Tasks)
      BY DEF TypeOK
    <2>1. \E k \in DOMAIN messages : messages'[i] = messages[k]
      BY <1>2, <2>0, Ends1, SMTT(60) DEF Step
    <2>2. (\E k \in DOMAIN queue : queue'[j] = queue[k]) \/ queue'[j] \notin ToTasks
      <3>1. CASE queue' = queue
        BY <3>1
      <3>2. ASSUME NEW t \in Tasks, t.step \in T, queue' = Append(queue, t)
            PROVE  (\E k \in DOMAIN queue : queue'[j] = queue[k]) \/ queue'[j] \notin ToTasks
        <4>1. t \notin ToTasks
          BY <3>2, TransactionTaskFacts
        <4> QED
          BY <1>2, <2>0, <3>2, <4>1, Append1
      <3> QED
        BY <3>1, <3>2 DEF Step
    <2> QED
      BY <1>2, <2>1, <2>2 DEF TakeTurns
  <1> QED
    BY <1>1, <1>2 DEF TakeTurns

\* The transactions are asked for, and not for the second time.
LEMMA TurnsAsked ==
    ASSUME TypeOK, TakeTurns, NEW b \in BOOLEAN, ShowTransactions(b), ~duplicated'
    PROVE  TakeTurns'
  <1> DEFINE t == Task("from", "transactions", session)
  <1>1. /\ t \in Tasks /\ t.step = "from" /\ messages = <<>> /\ messages' = messages /\ net' = net
        /\ queue' = (IF b THEN Append(queue, t) ELSE queue) /\ UNCHANGED <<rows, listed>>
    BY StepsOfForms, TaskFields DEF ShowTransactions, Ready, Input, Idle, Rpc, window
  <1>2. b => ~\E u \in Unanswered : u.step = "from"
    BY <1>1, TaskFields DEF ShowTransactions, Rpc
  <1> HIDE DEF t
  <1>3. (~b => Line' = Line) /\ (b => Pushed(Line, Line', t))
    BY <1>1, LineStep
  <1>4. b => ~Has(Line, FromTasks)
    BY <1>1, <1>2, LineUnanswered, TransactionTaskFacts
  <1>5. t \in FromTasks /\ t \notin ToTasks
    BY <1>1, TransactionTaskFacts
  <1>6. /\ Unique(Line', FromTasks) /\ Unique(Line', ToTasks)
        /\ InOrder(Line', ToTasks, FromTasks)
        /\ Has(Line, ToTasks) => Has(Line', ToTasks)
        /\ \A u \in ToTasks : Has(Line', {u}) => Has(Line, {u})
    <2>1. CASE ~b
      BY <1>3, <2>1 DEF TakeTurns
    <2>2. CASE b
      BY <1>3, <1>4, <1>5, <2>2, PushedKeeps DEF TakeTurns
    <2> QED
      BY <2>1, <2>2
  <1>7. DOMAIN messages' = {}
    BY <1>1
  <1> QED
    BY <1>1, <1>6, <1>7 DEF TakeTurns

\* The first answer.
LEMMA TurnsFrom ==
    ASSUME TypeOK, TakeTurns, NEW b \in BOOLEAN, OnFrom(b)
    PROVE  TakeTurns'
  <1> DEFINE m == Head(messages)
             t == Task("to", "transactions", m.task.of)
             l == LineOf(messages', queue, net = "posted")
  <1>1. /\ messages # <<>> /\ messages' = Tail(messages) /\ m.task \in Tasks /\ m.task.step = "from"
        /\ t \in Tasks /\ t.step = "to" /\ t.of = m.task.of /\ Rpc(t, b)
        /\ rows' = Push(m) /\ listed' = listed
    BY AnsweredStep, StepsOfForms, TaskFields DEF OnFrom
  <1>2. m.task \in FromTasks /\ t \in ToTasks /\ t \notin FromTasks
    BY <1>1, TransactionTaskFacts
  <1>3. messages \in Seq(Callbacks \cup Events) /\ queue \in Seq(Tasks) /\ m = messages[1] /\ 1 \in DOMAIN messages
    BY <1>1, Ends1 DEF TypeOK
  <1>4. b
    <2>1. SUFFICES ASSUME ~b PROVE FALSE
      OBVIOUS
    <2>2. Type(t) = "to"
      BY <1>1, TaskFields DEF Type
    <2>3. PICK i \in DOMAIN queue : Type(queue[i]) = "to"
      BY <1>1, <2>1, <2>2 DEF Rpc, Outstanding
    <2>4. queue[i] \in ToTasks
      BY <1>3, <2>3, TransactionTaskFacts
    <2> QED
      BY <1>2, <1>3, <2>4 DEF TakeTurns
  <1>5. queue' = Append(queue, t) /\ net' = net
    BY <1>1, <1>4 DEF Rpc
  <1>6. Popped(Line, l) /\ Line[1] = m.task /\ Pushed(l, Line', t)
    BY <1>1, <1>5, LineStep
  <1> HIDE DEF m, t, l
  <1>7. ~Has(l, FromTasks) /\ ~Has(l, ToTasks) /\ ~Has(Line, ToTasks)
    BY <1>2, <1>6, PoppedKeeps, TransactionTaskFacts DEF TakeTurns
  <1>8. /\ Unique(l, FromTasks) /\ Unique(l, ToTasks) /\ InOrder(l, ToTasks, FromTasks)
    BY <1>6, PoppedKeeps DEF TakeTurns
  <1>9. /\ Unique(Line', FromTasks) /\ Unique(Line', ToTasks) /\ InOrder(Line', ToTasks, FromTasks)
        /\ Has(Line', ToTasks)
    BY <1>2, <1>6, <1>7, <1>8, PushedKeeps
  <1>10. \A u \in ToTasks : Has(Line', {u}) => u = t
    <2>1. \A u \in ToTasks : Has(Line', {u}) => u = t \/ Has(l, {u})
      BY <1>6, PushedKeeps
    <2> QED
      BY <1>7, <2>1 DEF Has
  <1>11. rows = {} /\ rows' \subseteq {t.of}
    BY <1>1, <1>7 DEF TakeTurns, Push
  <1>12. ASSUME NEW i \in DOMAIN messages' PROVE messages'[i].task \notin FromTasks
    <2>1. i + 1 \in DOMAIN messages /\ messages'[i] = messages[i + 1] /\ i + 1 # 1
      BY <1>1, <1>3, Ends1
    <2>2. 1 \in DOMAIN Line /\ i + 1 \in DOMAIN Line /\ Line[i + 1] = messages[i + 1].task
      BY <1>3, <2>1, LinePlaces
    <2> QED
      BY <1>2, <1>6, <2>1, <2>2 DEF TakeTurns, Unique
  <1> QED
    BY <1>1, <1>9, <1>10, <1>11, <1>12 DEF TakeTurns

\* The second answer: the buffer is shown and emptied.
LEMMA TurnsTo ==
    ASSUME TypeOK, TakeTurns, OnTo
    PROVE  TakeTurns'
  <1> DEFINE m == Head(messages)
  <1>1. /\ messages # <<>> /\ messages' = Tail(messages) /\ m.task \in Tasks /\ m.task.step = "to"
        /\ queue' = queue /\ net' = net /\ rows' = {} /\ listed' = Push(m)
    BY AnsweredStep DEF OnTo, network
  <1>2. m.task \in ToTasks
    BY <1>1, TransactionTaskFacts
  <1>3. messages \in Seq(Callbacks \cup Events)
    BY DEF TypeOK
  <1>4. Popped(Line, Line') /\ Line[1] = m.task
    BY <1>1, LineStep
  <1> HIDE DEF m
  <1>5. /\ Unique(Line', FromTasks) /\ Unique(Line', ToTasks) /\ InOrder(Line', ToTasks, FromTasks)
    BY <1>4, PoppedKeeps DEF TakeTurns
  <1>6. Has(Line, {m.task})
    BY <1>4, PoppedKeeps
  <1>7. listed' \subseteq {m.task.of}
    BY <1>1, <1>2, <1>6 DEF TakeTurns, Push
  <1>8. ASSUME NEW i \in DOMAIN messages', NEW j \in DOMAIN queue', messages'[i].task \in FromTasks
        PROVE  queue'[j] \notin ToTasks
    <2>1. i + 1 \in DOMAIN messages /\ messages'[i] = messages[i + 1]
      BY <1>1, <1>3, <1>8, Ends1
    <2> QED
      BY <1>1, <1>8, <2>1 DEF TakeTurns
  <1>9. \A a, b \in listed' : a = b
    BY <1>7
  <1> QED
    BY <1>1, <1>5, <1>8, <1>9 DEF TakeTurns

LEMMA TransactionsInit == Init => TransactionsInv
  <1> SUFFICES ASSUME Init PROVE TakeTurns
    BY DEF TransactionsInv
  <1>1. DOMAIN Line = {} /\ DOMAIN messages = {}
    BY DEF Init, Line, LineOf
  <1> QED
    BY <1>1 DEF Init, TakeTurns, Unique, InOrder, Has

LEMMA TransactionsNext == TypeOK /\ TransactionsInv /\ [Next]_vars => TransactionsInv'
  <1> SUFFICES ASSUME TypeOK, TransactionsInv, [Next]_vars, ~duplicated' PROVE TakeTurns'
    BY DEF TransactionsInv
  <1>0. \A t, b : Rpc(t, b) \/ NoRpc => ~duplicated
    BY DEF Rpc, NoRpc
  <1>00. ~duplicated => TakeTurns
    BY DEF TransactionsInv
  <1>1. ASSUME UNCHANGED <<rows, listed, duplicated>>,
               NetworkNext \/ Post \/ \E S, T : Step(S, T) /\ {"from", "to"} \cap (S \cup T) = {}
        PROVE  TakeTurns'
    BY <1>00, <1>1, TurnsPosted, TurnsSame
  <1>2. CASE NetworkNext
    <2>1. UNCHANGED <<rows, listed, duplicated>>
      BY <1>2 DEF NetworkNext, LogIn, PostCallback, EndTask, window, history
    <2> QED
      BY <1>1, <1>2, <2>1
  <1>3. CASE Post
    BY <1>1, <1>3 DEF Post, window, history
  <1>4. CASE Timer \/ OnShowLogin \/ SignOut \/ CheckLoginFails \/ ShowAddresses
    <2>1. UNCHANGED <<rows, listed, duplicated>>
      BY <1>4 DEF Timer, OnShowLogin, SignOut, CheckLoginFails, ShowAddresses, window, history
    <2> QED
      BY <1>1, <1>4, <2>1, StepsOfLoop
  <1>5. CASE OnShowStatus \/ OnHideStatus \/ OnLogin \/ OnNet \/ OnPage \/ OnCheckFails \/ OnCreateFails
    <2>1. UNCHANGED <<rows, listed, duplicated>>
      BY <1>5 DEF OnShowStatus, OnHideStatus, OnLogin, OnNet, OnPage, OnCheckFails,
                  OnCreateFails, window, history
    <2>2. \E S, T : Step(S, T) /\ {"from", "to"} \cap (S \cup T) = {}
      BY <1>5, StepsOfLoop
    <2> QED
      BY <1>1, <2>1, <2>2
  <1>6. CASE (\E a \in Accounts : ClickLogin(a)) \/ (\E f \in {"freeze", "issue", "modify"} \cap Kinds : OpenForm(f))
    <2>1. UNCHANGED <<rows, listed, duplicated>>
      BY <1>6 DEF ClickLogin, OpenForm, window, history
    <2> QED
      BY <1>1, <1>6, <2>1, StepsOfLoop
  <1>7. ASSUME NEW b \in BOOLEAN,
               \/ OnCheckPasses(b) \/ OnCreateSigns(b) \/ OnBroadcast(b) \/ OnView(b) \/ OnAccountBarLogin(b)
               \/ \E p \in Pages \ {"transactions"} : ClickPage(p, b)
               \/ \E k \in Kinds : ClickTransaction(k, b)
               \/ \E f \in Views, a \in Accounts : ClickView(f, a, b)
        PROVE  TakeTurns'
    <2>1. UNCHANGED <<rows, listed>>
      BY <1>7 DEF OnCheckPasses, OnCreateSigns, OnBroadcast, OnView, OnAccountBarLogin,
                  ClickPage, ClickTransaction, ClickView, window
    <2>2. \E S, T : Step(S, T) /\ {"from", "to"} \cap (S \cup T) = {}
      BY <1>7, StepsOfLoop, StepsOfForms, StepsOfTransactions
    <2>3. ~duplicated
      BY <1>0, <1>7 DEF OnCheckPasses, OnCreateSigns, OnBroadcast, OnView, OnAccountBarLogin,
                        ClickPage, ClickTransaction, ClickView, SetAddress, ShowBalanceList
    <2> QED
      BY <1>00, <2>1, <2>2, <2>3, TurnsSame
  <1>8. ASSUME NEW b \in BOOLEAN, ShowTransactions(b) PROVE TakeTurns'
    BY <1>0, <1>00, <1>8, TurnsAsked DEF ShowTransactions
  <1>9. ASSUME NEW b \in BOOLEAN, OnFrom(b) PROVE TakeTurns'
    BY <1>0, <1>00, <1>9, TurnsFrom DEF OnFrom
  <1>10. CASE OnTo
    BY <1>00, <1>10, TurnsTo DEF OnTo
  <1>11. CASE UNCHANGED vars
    <2>1. UNCHANGED <<rows, listed, duplicated>> /\ Step({}, {})
      BY <1>11 DEF vars, window, history, loop, network, Step
    <2> QED
      BY <1>1, <2>1
  <1>12. CASE MessageNext
    BY <1>3, <1>5, <1>7, <1>9, <1>10, <1>12 DEF MessageNext
  <1>13. CASE UserNext
    BY <1>4, <1>6, <1>7, <1>8, <1>13 DEF UserNext
  <1> QED
    BY <1>2, <1>4, <1>11, <1>12, <1>13 DEF Next, Rest

\* Requests for transactions from and to an account fill one buffer.  It is never shown
\* with the transactions of two accounts, unless a request was accepted twice.
THEOREM TransactionsOfOneAccountAlways == Spec => []TransactionsOfOneAccount
  <1>1. Init => TypeOK /\ TransactionsInv
    BY TypeInit, TransactionsInit
  <1>2. TypeOK /\ TransactionsInv /\ [Next]_vars => TypeOK' /\ TransactionsInv'
    BY TypeNext, TransactionsNext
  <1>3. TypeOK /\ TransactionsInv => TransactionsOfOneAccount
    <2> SUFFICES ASSUME TakeTurns PROVE ~(Cardinality(listed) > 1)
      BY DEF TransactionsInv, TransactionsOfOneAccount
    <2>1. CASE listed = {}
      BY <2>1, FS_EmptySet
    <2>2. CASE listed # {}
      <3>1. PICK a : listed = {a}
        BY <2>2 DEF TakeTurns
      <3>2. Cardinality(listed) = 1
        BY <3>1, FS_Singleton
      <3> QED
        BY <3>2
    <2> QED
      BY <2>1, <2>2
  <1> QED
    BY <1>1, <1>2, <1>3, PTL DEF Spec

-----------------------------------------------------------------------------
(* The overlay ends.                                                        *)

HideIn(o) == \E i \in DOMAIN o : o[i].event = "hide"
ShowIn(o) == \E i \in DOMAIN o : o[i].event = "show"

\* A task at whose end HideStatus is posted, after everything that is posted by then.
PostsHide(t) ==
    \/ t.step = "login"
    \/ t.step = "view" /\ Spins(t.what)
    \/ t.step = "page" /\ t.what = "witnesses"
    \/ t.step \in {"create", "broadcast"} /\ t.what # "unfreeze"

HideDue == \E t \in Pending : PostsHide(t)
EndDue  == \E t \in Pending : Ends(t)

\* What follows the message that shows the spinner, posted or about to be, hides it.
ShowPosted ==
    \A i \in DOMAIN messages :
        messages[i].event = "show" =>
            \/ lost
            \/ HideDue
            \/ \E j \in DOMAIN messages : i < j /\ messages[j].event = "hide"
            \/ HideIn(owed)

ShowOwed == ShowIn(owed) => lost \/ HideDue

OverlayInv == OverlayEnds /\ ShowPosted /\ ShowOwed

LEMMA PostsHideEnds == HideDue => EndDue
  BY DEF HideDue, EndDue, PostsHide, Ends

\* What OverlayEnds says, in these words.
LEMMA OverlayWords ==
    /\ OverlayEnds <=> (shown # "hidden" =>
                           timer \/ lost \/ HideIn(messages) \/ HideIn(owed) \/ EndDue)
    /\ OverlayEnds' <=> (shown' # "hidden" =>
                           timer' \/ lost' \/ HideIn(messages') \/ HideIn(owed') \/ EndDue')
    /\ Coming("show") <=> ShowIn(messages) \/ ShowIn(owed)
  BY DEF OverlayEnds, Coming, HideIn, ShowIn, EndDue

\* The events in a short sequence.
LEMMA EventsIn ==
    /\ ~HideIn(<<>>) /\ ~ShowIn(<<>>)
    /\ \A b \in BOOLEAN : HideIn(<<Event("hide", b)>>) /\ ~ShowIn(<<Event("hide", b)>>)
    /\ \A b, c \in BOOLEAN :
          /\ HideIn(<<Event("hide", b), Event("bar", c)>>)
          /\ ~ShowIn(<<Event("hide", b), Event("bar", c)>>)
          /\ HideIn(<<Event("hide", b), Event("balanceList", c)>>)
          /\ ~ShowIn(<<Event("hide", b), Event("balanceList", c)>>)
  BY MessageMade DEF HideIn, ShowIn

\* One message less.
LEMMA TailEvents ==
    ASSUME NEW s \in Seq(Callbacks \cup Events), s # <<>>
    PROVE  /\ ShowIn(Tail(s)) => ShowIn(s)
           /\ Head(s).event # "hide" => (HideIn(s) => HideIn(Tail(s)))
  <1>1. /\ Head(s) = s[1]
        /\ \A i \in DOMAIN Tail(s) : i + 1 \in DOMAIN s /\ Tail(s)[i] = s[i + 1]
        /\ \A i \in DOMAIN s : i = 1 \/ (i - 1 \in DOMAIN Tail(s) /\ Tail(s)[i - 1] = s[i])
    BY Ends1
  <1> QED
    BY <1>1, ZenonT(60) DEF ShowIn, HideIn

\* One message more.
LEMMA AppendEvents ==
    ASSUME NEW s \in Seq(Callbacks \cup Events), NEW e \in Callbacks \cup Events
    PROVE  HideIn(Append(s, e)) <=> HideIn(s) \/ e.event = "hide"
  <1>1. /\ DOMAIN s = 1 .. Len(s) /\ DOMAIN Append(s, e) = 1 .. Len(s) + 1 /\ Len(s) \in Nat
        /\ \A i \in DOMAIN s : i \in DOMAIN Append(s, e) /\ Append(s, e)[i] = s[i]
        /\ Append(s, e)[Len(s) + 1] = e
    BY Append1
  <1>2. /\ \A i \in DOMAIN Append(s, e) : i \in DOMAIN s \/ i = Len(s) + 1
        /\ Len(s) + 1 \in DOMAIN Append(s, e)
        /\ \A i \in DOMAIN s : i < Len(s) + 1
    BY <1>1
  <1>3. HideIn(Append(s, e)) => HideIn(s) \/ e.event = "hide"
    BY <1>1, <1>2 DEF HideIn
  <1>4. HideIn(s) \/ e.event = "hide" => HideIn(Append(s, e))
    BY <1>1, <1>2 DEF HideIn
  <1> QED
    BY <1>3, <1>4

\* A step of the UI thread that leaves no spinner behind.
LEMMA OverlayUI ==
    ASSUME TypeOK, OverlayInv, owed = <<>>,
           messages' = messages \/ (messages # <<>> /\ messages' = Tail(messages)),
           lost => lost' \/ ~ShowIn(messages'),
           HideDue => HideDue' \/ lost' \/ HideIn(owed'),
           ShowIn(owed') => lost' \/ HideDue',
           OverlayEnds'
    PROVE  OverlayInv'
  <1>1. ShowPosted'
    <2> SUFFICES ASSUME NEW i \in DOMAIN messages', messages'[i].event = "show"
                 PROVE  \/ lost' \/ HideDue'
                        \/ \E j \in DOMAIN messages' : i < j /\ messages'[j].event = "hide"
                        \/ HideIn(owed')
      BY DEF ShowPosted
    <2>1. ShowIn(messages') /\ ~HideIn(owed)
      BY EventsIn DEF ShowIn
    <2>2. CASE messages' = messages
      BY <2>1, <2>2 DEF OverlayInv, ShowPosted
    <2>3. CASE messages # <<>> /\ messages' = Tail(messages)
      <3>1. /\ messages \in Seq(Callbacks \cup Events)
            /\ DOMAIN messages = 1 .. Len(messages) /\ DOMAIN messages' = 1 .. Len(messages) - 1
            /\ \A k \in DOMAIN messages' : k + 1 \in DOMAIN messages /\ messages'[k] = messages[k + 1]
            /\ Len(messages) \in Nat
        BY <2>3, Ends1 DEF TypeOK
      <3>2. ASSUME NEW j \in DOMAIN messages, i + 1 < j, messages[j].event = "hide"
            PROVE  \E k \in DOMAIN messages' : i < k /\ messages'[k].event = "hide"
        <4>1. j - 1 \in DOMAIN messages' /\ i < j - 1 /\ (j - 1) + 1 = j
          BY <3>1, <3>2
        <4> QED
          BY <3>1, <3>2, <4>1
      <3>3. i + 1 \in DOMAIN messages /\ messages[i + 1].event = "show"
        BY <3>1
      <3> QED
        BY <2>1, <3>2, <3>3 DEF OverlayInv, ShowPosted
    <2> QED
      BY <2>2, <2>3
  <1>2. ShowOwed'
    BY DEF ShowOwed
  <1> QED
    BY <1>1, <1>2 DEF OverlayInv

\* The layer is left alone.
LEMMA OverlayStays ==
    ASSUME TypeOK, OverlayInv, owed = <<>>,
           \/ messages' = messages
           \/ messages # <<>> /\ messages' = Tail(messages) /\ Head(messages).event # "hide",
           lost => lost', shown' = shown, timer' = timer,
           EndDue => EndDue' \/ lost' \/ HideIn(owed')
    PROVE  OverlayEnds'
  <1>1. HideIn(messages) => HideIn(messages')
    BY TailEvents DEF TypeOK
  <1>2. ~HideIn(owed)
    BY EventsIn
  <1> QED
    BY <1>1, <1>2, OverlayWords DEF OverlayInv

\* The tasks that are pending after a step: the one that is taken goes, the one that is
\* asked for comes.
LEMMA StepTaken ==
    ASSUME TypeOK, TypeOK', NEW S, NEW T, Step(S, T)
    PROVE  \A t \in Pending :
               t \in Pending' \/ (messages' # messages /\ t = Head(messages).task)
  <1> DEFINE l == LineOf(messages', queue, net = "posted")
  <1>1. /\ l = Line \/ (messages' # messages /\ Popped(Line, l) /\ Line[1] = Head(messages).task)
        /\ Line' = l \/ \E t \in Tasks : Pushed(l, Line', t)
    BY LineStep DEF Step
  <1> HIDE DEF l
  <1>2. ASSUME NEW t \in Tasks, Has(Line, {t})
        PROVE  Has(Line', {t}) \/ (messages' # messages /\ t = Head(messages).task)
    <2>1. Has(l, {t}) \/ (messages' # messages /\ t = Head(messages).task)
      BY <1>1, <1>2, PoppedKeeps
    <2>2. Has(l, {t}) => Has(Line', {t})
      BY <1>1, PushedKeeps
    <2> QED
      BY <2>1, <2>2
  <1> QED
    BY <1>2, PendingIsLine, PendingIsLineNext

LEMMA TakenDue ==
    ASSUME TypeOK, TypeOK', NEW S, NEW T, Step(S, T)
    PROVE  /\ HideDue => HideDue' \/ (messages' # messages /\ PostsHide(Head(messages).task))
           /\ EndDue => EndDue' \/ (messages' # messages /\ Ends(Head(messages).task))
  BY StepTaken DEF HideDue, EndDue

\* A task that is asked for is due.
LEMMA AskedDue ==
    ASSUME TypeOK, TypeOK', NEW S, NEW T, Step(S, T),
           NEW t \in Tasks, NEW b \in BOOLEAN, Rpc(t, b), b
    PROVE  /\ PostsHide(t) => HideDue'
           /\ Ends(t) => EndDue'
  <1>1. queue' = Append(queue, t)
    BY DEF Rpc
  <1>2. t \in Pending'
    BY <1>1, TakenAndAsked DEF Step
  <1> QED
    BY <1>2 DEF HideDue, EndDue

\* Steps that leave the layer alone.
LEMMA OverlayPlain ==
    ASSUME TypeOK, TypeOK', OverlayInv, NEW S, NEW T, Step(S, T), owed = <<>>,
           UNCHANGED layer, lost => lost',
           messages' # messages =>
               LET m == Head(messages) IN
               /\ m.event # "hide"
               /\ Ends(m.task) => EndDue' \/ lost' \/ HideIn(owed')
               /\ PostsHide(m.task) => HideDue' \/ lost' \/ HideIn(owed'),
           ShowIn(owed') => lost' \/ HideDue'
    PROVE  OverlayInv'
  <1>1. /\ HideDue => HideDue' \/ lost' \/ HideIn(owed')
        /\ EndDue => EndDue' \/ lost' \/ HideIn(owed')
    BY TakenDue
  <1>2. \/ messages' = messages
        \/ messages # <<>> /\ messages' = Tail(messages) /\ Head(messages).event # "hide"
    BY DEF Step
  <1>3. shown' = shown /\ timer' = timer
    BY DEF layer
  <1>4. OverlayEnds'
    BY <1>1, <1>2, <1>3, OverlayStays
  <1> QED
    BY <1>1, <1>2, <1>4, OverlayUI

\* Steps that show the spinner.
LEMMA OverlaySpins ==
    ASSUME TypeOK, TypeOK', OverlayInv, NEW S, NEW T, Step(S, T), owed = <<>>,
           lost => lost', lost' \/ EndDue' \/ HideIn(messages'), ~ShowIn(owed'),
           messages' # messages => ~PostsHide(Head(messages).task)
    PROVE  OverlayInv'
  <1>1. HideDue => HideDue'
    BY TakenDue
  <1>2. OverlayEnds'
    BY OverlayWords
  <1>3. messages' = messages \/ (messages # <<>> /\ messages' = Tail(messages))
    BY DEF Step
  <1> QED
    BY <1>1, <1>2, <1>3, OverlayUI

\* Steps that hide the overlay, or show a text.
LEMMA OverlayHides ==
    ASSUME TypeOK, TypeOK', OverlayInv, NEW S, NEW T, Step(S, T), owed = <<>>, owed' = <<>>,
           NEW text \in BOOLEAN, HideStatus(text),
           messages' # messages => ~PostsHide(Head(messages).task)
    PROVE  OverlayInv'
  <1>1. HideDue => HideDue'
    BY TakenDue
  <1>2. OverlayEnds'
    <2>1. shown' = "hidden" \/ timer'
      BY DEF HideStatus, Show
    <2> QED
      BY <2>1, OverlayWords
  <1>3. messages' = messages \/ (messages # <<>> /\ messages' = Tail(messages))
    BY DEF Step
  <1>4. lost => lost' \/ ~ShowIn(messages')
    <2>1. ShowIn(messages') => ShowIn(messages)
      BY <1>3, TailEvents DEF TypeOK
    <2> QED
      BY <2>1, OverlayWords DEF HideStatus
  <1>5. ~ShowIn(owed')
    BY EventsIn
  <1> QED
    BY <1>1, <1>2, <1>3, <1>4, <1>5, OverlayUI

\* The network thread, and the messages that a handler posts.
LEMMA OverlayPosted ==
    ASSUME TypeOK, TypeOK', OverlayInv, NetworkNext \/ Post
    PROVE  OverlayInv'
  <1>1. Pending' = Pending /\ lost' = lost /\ shown' = shown /\ timer' = timer
    <2>1. Pending' = Pending
      BY PendingKept
    <2> QED
      BY <2>1 DEF NetworkNext, LogIn, PostCallback, EndTask, Post, history, layer
  <1>2. (HideDue <=> HideDue') /\ (EndDue <=> EndDue')
    BY <1>1 DEF HideDue, EndDue
  <1>3. messages \in Seq(Callbacks \cup Events) /\ owed \in Seq(Events) /\ queue \in Seq(Tasks)
    BY DEF TypeOK
  <1>4. CASE messages' = messages /\ owed' = owed
    BY <1>1, <1>2, <1>4, OverlayWords DEF OverlayInv, ShowPosted, ShowOwed
  <1>5. ASSUME NEW e \in Callbacks \cup Events, messages' = Append(messages, e),
               \/ e.event = "callback" /\ owed' = owed
               \/ owed # <<>> /\ e = Head(owed) /\ owed' = Tail(owed)
        PROVE  OverlayInv'
    <2>1. /\ HideIn(messages') <=> HideIn(messages) \/ e.event = "hide"
          /\ \A i \in DOMAIN messages' :
                \/ i \in DOMAIN messages /\ messages'[i] = messages[i]
                \/ i = Len(messages) + 1 /\ messages'[i] = e
          /\ \A i \in DOMAIN messages : i < Len(messages) + 1
          /\ \A i \in DOMAIN messages : i \in DOMAIN messages' /\ messages'[i] = messages[i]
          /\ Len(messages) + 1 \in DOMAIN messages' /\ messages'[Len(messages) + 1] = e
      <3>1. /\ Len(messages) \in Nat /\ DOMAIN messages' = 1 .. Len(messages) + 1
            /\ \A i \in DOMAIN messages : i \in DOMAIN messages' /\ messages'[i] = messages[i]
            /\ messages'[Len(messages) + 1] = e
        BY <1>3, <1>5, Append1
      <3>2. /\ Len(messages) + 1 \in DOMAIN messages'
            /\ \A i \in DOMAIN messages' : i \in DOMAIN messages \/ i = Len(messages) + 1
            /\ \A i \in DOMAIN messages : i < Len(messages) + 1
        BY <1>3, <3>1
      <3>3. HideIn(messages') <=> HideIn(messages) \/ e.event = "hide"
        BY <1>3, <1>5, AppendEvents
      <3>4. ASSUME NEW i \in DOMAIN messages'
            PROVE  \/ i \in DOMAIN messages /\ messages'[i] = messages[i]
                   \/ i = Len(messages) + 1 /\ messages'[i] = e
        <4>1. CASE i \in DOMAIN messages
          BY <3>1, <4>1
        <4>2. CASE i = Len(messages) + 1
          BY <3>1, <4>2
        <4> QED
          BY <3>2, <4>1, <4>2
      <3> QED
        BY <3>1, <3>2, <3>3, <3>4
    <2>2. /\ HideIn(owed) => HideIn(owed') \/ e.event = "hide"
          /\ ShowIn(owed') => ShowIn(owed)
          /\ e.event = "show" => ShowIn(owed)
      <3>1. CASE owed # <<>> /\ e = Head(owed) /\ owed' = Tail(owed)
        <4>1. /\ Head(owed) = owed[1] /\ 1 \in DOMAIN owed
              /\ \A i \in DOMAIN Tail(owed) : i + 1 \in DOMAIN owed /\ Tail(owed)[i] = owed[i + 1]
              /\ \A i \in DOMAIN owed : i = 1 \/ (i - 1 \in DOMAIN Tail(owed) /\ Tail(owed)[i - 1] = owed[i])
          BY <1>3, <3>1, Ends1
        <4> QED
          BY <3>1, <4>1, ZenonT(60) DEF HideIn, ShowIn
      <3> QED
        BY <1>5, <3>1
    <2>3. OverlayEnds'
      BY <1>1, <1>2, <2>1, <2>2, OverlayWords DEF OverlayInv
    <2>4. ShowOwed'
      BY <1>1, <1>2, <2>2 DEF OverlayInv, ShowOwed
    <2>5. ShowPosted'
      <3> SUFFICES ASSUME NEW i \in DOMAIN messages', messages'[i].event = "show"
                   PROVE  \/ lost' \/ HideDue'
                          \/ \E j \in DOMAIN messages' : i < j /\ messages'[j].event = "hide"
                          \/ HideIn(owed')
        BY DEF ShowPosted
      <3>1. CASE i = Len(messages) + 1
        BY <1>1, <1>2, <2>1, <2>2, <3>1 DEF OverlayInv, ShowOwed
      <3>2. CASE i \in DOMAIN messages
        <4>1. \/ lost \/ HideDue
              \/ \E j \in DOMAIN messages : i < j /\ messages[j].event = "hide"
              \/ HideIn(owed)
          BY <2>1, <3>2 DEF OverlayInv, ShowPosted
        <4> QED
          BY <1>1, <1>2, <2>1, <2>2, <3>2, <4>1
      <3> QED
        BY <2>1, <3>1, <3>2
    <2> QED
      BY <2>3, <2>4, <2>5 DEF OverlayInv
  <1>6. ASSUME NEW ok \in BOOLEAN, PostCallback(ok) PROVE OverlayInv'
    <2>1. Head(queue) \in Tasks
      BY <1>3, <1>6, Ends1 DEF PostCallback
    <2>2. /\ Message("callback", Head(queue), ok) \in Callbacks \cup Events
          /\ Message("callback", Head(queue), ok).event = "callback"
      BY <2>1, MessageMade
    <2>3. messages' = Append(messages, Message("callback", Head(queue), ok)) /\ owed' = owed
      BY <1>6 DEF PostCallback
    <2> QED
      BY <1>5, <2>2, <2>3
  <1>7. CASE Post
    <2>1. Head(owed) \in Callbacks \cup Events
      BY <1>3, <1>7, Ends1 DEF Post
    <2> QED
      BY <1>5, <1>7, <2>1 DEF Post
  <1>8. CASE LogIn \/ EndTask
    BY <1>4, <1>8 DEF LogIn, EndTask, loop
  <1> QED
    BY <1>6, <1>7, <1>8 DEF NetworkNext

\* Initially the overlay is hidden.
LEMMA OverlayInit == Init => OverlayInv
  BY DEF Init, LayerInit, OverlayInv, OverlayEnds, ShowPosted, ShowOwed, ShowIn

\* Events, answers that leave the layer to others, and clicks that ask for nothing.
LEMMA OverlayLoop ==
    ASSUME TypeOK, TypeOK', OverlayInv,
           \/ Timer \/ OnShowLogin \/ SignOut \/ CheckLoginFails \/ ShowAddresses
           \/ OnShowStatus \/ OnHideStatus \/ OnLogin \/ OnNet \/ OnCheckFails
           \/ \E a \in Accounts : ClickLogin(a)
           \/ \E f : OpenForm(f)
    PROVE  OverlayInv'
  <1>1. CASE Timer
    <2>1. messages' = <<>> /\ owed' = <<>> /\ shown' = "hidden"
      BY <1>1 DEF Timer, Idle, OnUITimer, loop
    <2>2. ~ShowIn(messages') /\ ~ShowIn(owed')
      BY <2>1, EventsIn
    <2> QED
      BY <2>1, <2>2, OverlayWords DEF OverlayInv, ShowPosted, ShowOwed, ShowIn
  <1>2. CASE OnShowLogin \/ SignOut \/ ShowAddresses \/ \E f : OpenForm(f)
    <2>1. Step({}, {})
      BY <1>2, StepsOfLoop
    <2>2. messages' = messages /\ owed = <<>> /\ owed' = <<>> /\ UNCHANGED layer /\ lost' = lost
      BY <1>2 DEF OnShowLogin, SignOut, ShowAddresses, OpenForm, Input, Idle, history
    <2>3. ~ShowIn(owed')
      BY <2>2, EventsIn
    <2> QED
      BY <2>1, <2>2, <2>3, OverlayPlain
  <1>3. CASE CheckLoginFails
    <2>1. Step({}, {})
      BY <1>3, StepsOfLoop
    <2>2. /\ messages' = messages /\ owed = <<>> /\ owed' = <<Event("hide", TRUE)>>
          /\ UNCHANGED layer /\ lost' = lost
      BY <1>3 DEF CheckLoginFails, Input, Idle, history
    <2>3. ~ShowIn(owed')
      BY <2>2, EventsIn
    <2> QED
      BY <2>1, <2>2, <2>3, OverlayPlain
  <1>4. CASE OnShowStatus
    <2>1. Step({"none"}, {})
      BY <1>4, StepsOfLoop
    <2>2. /\ messages # <<>> /\ messages' = Tail(messages) /\ owed = <<>> /\ owed' = <<>>
          /\ Head(messages).event = "show" /\ Head(messages).task = NoTask /\ lost' = lost
      BY <1>4, EventStep DEF OnShowStatus, history
    <2>3. ~ShowIn(owed') /\ ~HideIn(owed)
      BY <2>2, EventsIn
    <2>4. ~PostsHide(Head(messages).task) /\ ~Ends(Head(messages).task)
      BY <2>2, NoTaskIsNone DEF PostsHide, Ends
    <2>5. lost \/ HideDue \/ HideIn(messages)
      <3>1. 1 \in DOMAIN messages /\ messages[1] = Head(messages)
        BY <2>2, Ends1 DEF TypeOK
      <3> QED
        BY <2>2, <2>3, <3>1 DEF OverlayInv, ShowPosted, HideIn
    <2>6. HideIn(messages) => HideIn(messages')
      BY <2>2, TailEvents DEF TypeOK
    <2>7. HideDue => EndDue'
      BY <2>1, <2>4, TakenDue, PostsHideEnds
    <2> QED
      BY <2>1, <2>2, <2>3, <2>4, <2>5, <2>6, <2>7, OverlaySpins
  <1>5. CASE OnHideStatus
    <2>1. Step({"none"}, {})
      BY <1>5, StepsOfLoop
    <2>2. /\ owed = <<>> /\ owed' = <<>> /\ Head(messages).task = NoTask
          /\ Head(messages).ok \in BOOLEAN /\ HideStatus(Head(messages).ok)
      BY <1>5, TakeOK, TypeParts DEF OnHideStatus
    <2>3. ~PostsHide(Head(messages).task)
      BY <2>2, NoTaskIsNone DEF PostsHide
    <2> QED
      BY <2>1, <2>2, <2>3, OverlayHides
  <1>6. CASE OnLogin
    <2>1. Step({"login"}, {})
      BY <1>6, StepsOfLoop
    <2>2. /\ owed = <<>> /\ Head(messages).event = "callback" /\ UNCHANGED layer /\ lost' = lost
          /\ \/ owed' = <<Event("hide", TRUE), Event("bar", TRUE)>>
             \/ owed' = <<Event("hide", TRUE)>>
      BY <1>6 DEF OnLogin, Answered, Take, history
    <2>3. HideIn(owed') /\ ~ShowIn(owed')
      BY <2>2, EventsIn
    <2> QED
      BY <2>1, <2>2, <2>3, OverlayPlain
  <1>7. CASE OnNet \/ OnCheckFails
    <2>1. Step({"net"}, {}) \/ Step({"check"}, {})
      BY <1>7, StepsOfLoop
    <2>2. /\ owed = <<>> /\ owed' = <<>> /\ Head(messages).event = "callback"
          /\ UNCHANGED layer /\ lost' = lost
          /\ Head(messages).task.step \in {"net", "check"}
      BY <1>7 DEF OnNet, OnCheckFails, Answered, Take, history
    <2>3. ~ShowIn(owed') /\ ~PostsHide(Head(messages).task) /\ ~Ends(Head(messages).task)
      BY <2>2, EventsIn DEF PostsHide, Ends
    <2> QED
      BY <2>1, <2>2, <2>3, OverlayPlain
  <1>8. ASSUME NEW a \in Accounts, ClickLogin(a) PROVE OverlayInv'
    <2> DEFINE t == Task("login", "login", a)
    <2>1. Step({}, {"login"})
      BY <1>8, StepsOfLoop
    <2>2. /\ messages' = messages /\ owed = <<>> /\ UNCHANGED layer /\ lost' = lost
          /\ queue' = Append(queue, t) /\ t \in Tasks /\ t.step = "login"
      BY <1>8, TaskMade, TaskFields DEF ClickLogin, Ready, Input, Idle
    <2> HIDE DEF t
    <2>3. HideDue'
      BY <2>1, <2>2, TakenAndAsked DEF Step, HideDue, PostsHide
    <2> QED
      BY <2>1, <2>2, <2>3, OverlayPlain
  <1> QED
    BY <1>1, <1>2, <1>3, <1>4, <1>5, <1>6, <1>7, <1>8

\* The views.
LEMMA OverlayViews ==
    ASSUME TypeOK, TypeOK', OverlayInv, NEW b \in BOOLEAN,
           \/ \E f \in Views, a \in Accounts : ClickView(f, a, b)
           \/ OnView(b) \/ OnAccountBarLogin(b)
    PROVE  OverlayInv'
  <1>1. ASSUME NEW f \in AllViews, NEW a \in Accounts, NEW S, Step(S, {"view"}), SetAddress(f, a, b)
        PROVE  (lost => lost') /\ (ShowIn(owed') => lost' \/ HideDue')
    <2> DEFINE t == Task("view", f, a)
    <2>1. t \in Tasks /\ t.step = "view" /\ t.what = f
      BY TaskMade, TaskFields
    <2>2. Rpc(t, b) /\ (Spins(f) /\ ~b => lost') /\ (lost => lost')
      BY <1>1 DEF SetAddress
    <2>3. ~Spins(f) => ~ShowIn(owed')
      BY <1>1, EventsIn DEF SetAddress
    <2> HIDE DEF t
    <2>4. b /\ Spins(f) => HideDue'
      BY <1>1, <2>1, <2>2, AskedDue DEF PostsHide
    <2> QED
      BY <2>2, <2>3, <2>4
  <1>2. ASSUME NEW f \in Views, NEW a \in Accounts, ClickView(f, a, b) PROVE OverlayInv'
    <2>1. Step({}, {"view"}) /\ f \in AllViews
      BY <1>2, StepsOfForms
    <2>2. messages' = messages /\ owed = <<>> /\ UNCHANGED layer /\ SetAddress(f, a, b)
      BY <1>2 DEF ClickView, Ready, Input, Idle
    <2> QED
      BY <1>1, <2>1, <2>2, OverlayPlain
  <1>3. CASE OnView(b)
    <2> DEFINE f == Head(messages).task.what
    <2>1. Step({"view"}, {"net"})
      BY <1>3, StepsOfForms
    <2>2. /\ owed = <<>> /\ Head(messages).event = "callback" /\ UNCHANGED layer /\ lost' = lost
          /\ Head(messages).task.step = "view"
          /\ IF Spins(f) THEN owed' = <<Event("hide", FALSE)>> ELSE owed' = <<>>
      BY <1>3 DEF OnView, Answered, Take
    <2>3. ~ShowIn(owed') /\ (Spins(f) => HideIn(owed'))
      BY <2>2, EventsIn
    <2>4. PostsHide(Head(messages).task) \/ Ends(Head(messages).task) => HideIn(owed')
      BY <2>2, <2>3 DEF PostsHide, Ends
    <2> QED
      BY <2>1, <2>2, <2>3, <2>4, OverlayPlain
  <1>4. CASE OnAccountBarLogin(b)
    <2>1. Step({"none"}, {"view"})
      BY <1>4, StepsOfForms
    <2>2. /\ owed = <<>> /\ Head(messages).event \in {"bar", "balanceList"}
          /\ Head(messages).task = NoTask /\ UNCHANGED layer
      BY <1>4, EventStep DEF OnAccountBarLogin
    <2>3. ~PostsHide(Head(messages).task) /\ ~Ends(Head(messages).task)
      BY <2>2, NoTaskIsNone DEF PostsHide, Ends
    <2>4. (lost => lost') /\ (ShowIn(owed') => lost' \/ HideDue')
      <3>1. CASE session = None
        <4>1. lost' = lost /\ owed' = <<>>
          BY <1>4, <2>2, <3>1 DEF OnAccountBarLogin, ShowBalanceList
        <4> QED
          BY <4>1, EventsIn
      <3>2. CASE session # None
        <4>1. SetAddress("balance", session, b) /\ session \in Accounts /\ "balance" \in AllViews
          BY <1>4, <3>2 DEF OnAccountBarLogin, ShowBalanceList, TypeOK, Address, AllViews
        <4> QED
          BY <1>1, <2>1, <4>1
      <3> QED
        BY <3>1, <3>2
    <2> QED
      BY <2>1, <2>2, <2>3, <2>4, OverlayPlain
  <1> QED
    BY <1>2, <1>3, <1>4

\* The lists.
LEMMA OverlayPages ==
    ASSUME TypeOK, TypeOK', OverlayInv, NEW b \in BOOLEAN,
           \/ \E p \in Pages \ {"transactions"} : ClickPage(p, b)
           \/ ShowTransactions(b) \/ OnFrom(b)
           \/ OnPage \/ OnTo
    PROVE  OverlayInv'
  <1>1. ASSUME NEW p \in Pages \ {"transactions"}, ClickPage(p, b) PROVE OverlayInv'
    <2> DEFINE t == Task("page", p, None)
    <2>1. Step({}, {"page"}) /\ t \in Tasks /\ t.step = "page" /\ t.what = p
      BY <1>1, StepsOfForms, TaskFields
    <2>2. /\ messages' = messages /\ owed = <<>> /\ Rpc(t, b)
          /\ lost => lost'
          /\ p # "token" /\ ~b => lost'
          /\ p # "witnesses" => owed' = <<>>
          /\ p \notin {"tokens", "mytokens"} => UNCHANGED layer
      BY <1>1 DEF ClickPage, Ready, Input, Idle
    <2> HIDE DEF t
    <2>3. b => (p = "witnesses" => HideDue') /\ (p # "token" => EndDue')
      BY <2>1, <2>2, AskedDue DEF PostsHide, Ends
    <2>4. p # "witnesses" => ~ShowIn(owed')
      BY <2>2, EventsIn
    <2>5. CASE p \in {"tokens", "mytokens"}
      <3>1. lost' \/ EndDue'
        BY <2>2, <2>3, <2>5
      <3> QED
        BY <2>1, <2>2, <2>4, <2>5, <3>1, OverlaySpins
    <2>6. CASE p \notin {"tokens", "mytokens"}
      <3>1. ShowIn(owed') => lost' \/ HideDue'
        BY <2>2, <2>3, <2>4
      <3> QED
        BY <2>1, <2>2, <2>6, <3>1, OverlayPlain
    <2> QED
      BY <2>5, <2>6
  <1>2. CASE ShowTransactions(b)
    <2> DEFINE t == Task("from", "transactions", session)
    <2>1. Step({}, {"from"}) /\ t \in Tasks /\ t.step = "from"
      BY <1>2, StepsOfForms, TaskFields
    <2>2. /\ messages' = messages /\ owed = <<>> /\ owed' = <<>> /\ Rpc(t, b)
          /\ lost' = (lost \/ ~b)
      BY <1>2 DEF ShowTransactions, ShowStatus, Ready, Input, Idle
    <2> HIDE DEF t
    <2>3. b => EndDue'
      BY <2>1, <2>2, AskedDue DEF Ends
    <2>4. ~ShowIn(owed')
      BY <2>2, EventsIn
    <2> QED
      BY <2>1, <2>2, <2>3, <2>4, OverlaySpins
  <1>3. CASE OnFrom(b)
    <2> DEFINE t == Task("to", "transactions", Head(messages).task.of)
    <2>1. Step({"from"}, {"to"}) /\ t \in Tasks /\ t.step = "to"
      BY <1>3, StepsOfForms, TaskFields
    <2>2. /\ owed = <<>> /\ owed' = <<>> /\ Rpc(t, b) /\ lost' = (lost \/ ~b) /\ UNCHANGED layer
          /\ Head(messages).event = "callback" /\ Head(messages).task.step = "from"
      BY <1>3 DEF OnFrom, Answered, Take
    <2> HIDE DEF t
    <2>3. b => EndDue'
      BY <2>1, <2>2, AskedDue DEF Ends
    <2>4. ~ShowIn(owed') /\ ~PostsHide(Head(messages).task)
      BY <2>2, EventsIn DEF PostsHide
    <2> QED
      BY <2>1, <2>2, <2>3, <2>4, OverlayPlain
  <1>4. CASE OnPage
    <2> DEFINE p == Head(messages).task.what
               empty == p = "mytokens" /\ ~Head(messages).ok
    <2>1. Step({"page"}, {}) /\ Head(messages).task \in Tasks
      BY <1>4, StepsOfLoop, AnsweredStep DEF OnPage
    <2>2. /\ owed = <<>> /\ Head(messages).event = "callback" /\ Head(messages).task.step = "page"
          /\ p = "witnesses" => owed' = <<Event("hide", FALSE)>>
          /\ p # "witnesses" => owed' = <<>>
          /\ p \in {"tokens", "mytokens"} => HideStatus(empty)
          /\ p \notin {"tokens", "mytokens"} => UNCHANGED layer /\ lost' = lost
      BY <1>4 DEF OnPage, Answered, Take
    <2>3. p \in {"witnesses", "tokens", "mytokens", "token"} /\ empty \in BOOLEAN
      BY <2>1, <2>2, TaskTypes DEF AllPages
    <2>4. p \in {"tokens", "mytokens"} => ~PostsHide(Head(messages).task)
      BY <2>2 DEF PostsHide
    <2>5. CASE p \in {"tokens", "mytokens"}
      <3> HIDE DEF empty
      <3> QED
        BY <2>1, <2>2, <2>3, <2>4, <2>5, OverlayHides
    <2>6. CASE p = "witnesses"
      <3>1. HideIn(owed') /\ ~ShowIn(owed')
        BY <2>2, <2>6, EventsIn
      <3> QED
        BY <2>1, <2>2, <2>6, <3>1, OverlayPlain
    <2>7. CASE p = "token"
      <3>1. ~ShowIn(owed') /\ ~PostsHide(Head(messages).task) /\ ~Ends(Head(messages).task)
        BY <2>2, <2>7, EventsIn DEF PostsHide, Ends
      <3> QED
        BY <2>1, <2>2, <2>7, <3>1, OverlayPlain
    <2> QED
      BY <2>3, <2>5, <2>6, <2>7
  <1>5. CASE OnTo
    <2>1. Step({"to"}, {})
      BY <1>5, StepsOfLoop
    <2>2. owed = <<>> /\ owed' = <<>> /\ Head(messages).task.step = "to" /\ HideStatus(FALSE)
      BY <1>5 DEF OnTo, Answered, Take
    <2>3. ~PostsHide(Head(messages).task)
      BY <2>2 DEF PostsHide
    <2> QED
      BY <2>1, <2>2, <2>3, OverlayHides
  <1> QED
    BY <1>1, <1>2, <1>3, <1>4, <1>5

\* The transactions.
LEMMA OverlayTransactions ==
    ASSUME TypeOK, TypeOK', OverlayInv, NEW b \in BOOLEAN,
           \/ \E k \in Kinds : ClickTransaction(k, b)
           \/ OnCheckPasses(b) \/ OnCreateSigns(b) \/ OnCreateFails \/ OnBroadcast(b)
    PROVE  OverlayInv'
  <1>1. ASSUME NEW k \in Kinds, ClickTransaction(k, b) PROVE OverlayInv'
    <2> DEFINE t == Task(IF Checked(k) THEN "check" ELSE "create", k, OwnerOf(k))
    <2>1. /\ Step({}, {"check", "create"}) /\ t \in Tasks /\ t.what = k
          /\ ~Checked(k) => t.step = "create" /\ k # "unfreeze"
      BY <1>1, StepsOfTransactions, TaskFields DEF Checked
    <2>2. /\ messages' = messages /\ owed = <<>> /\ Rpc(t, b) /\ UNCHANGED layer
          /\ lost => lost'
          /\ ~Checked(k) /\ ~b => lost'
          /\ Checked(k) => owed' = <<>>
      BY <1>1 DEF ClickTransaction, Ready, Input, Idle
    <2> HIDE DEF t
    <2>3. b /\ ~Checked(k) => HideDue'
      BY <2>1, <2>2, AskedDue DEF PostsHide
    <2>4. ShowIn(owed') => lost' \/ HideDue'
      BY <2>2, <2>3, EventsIn
    <2> QED
      BY <2>1, <2>2, <2>4, OverlayPlain
  <1>2. CASE OnCheckPasses(b)
    <2> DEFINE k == Head(messages).task.what
               t == Task("create", k, Head(messages).task.of)
    <2>1. Step({"check"}, {"create"}) /\ t \in Tasks /\ t.step = "create" /\ t.what = k
      BY <1>2, StepsOfTransactions, TaskFields
    <2>2. /\ owed = <<>> /\ Rpc(t, b)
          /\ Head(messages).event = "callback" /\ Head(messages).task.step = "check"
          /\ lost => lost'
          /\ k # "freeze" /\ ~b => lost'
          /\ k \in {"freeze", "unfreeze"} => owed' = <<>>
          /\ k # "unfreeze" => UNCHANGED layer
      BY <1>2 DEF OnCheckPasses, Answered, Take
    <2> HIDE DEF t
    <2>3. b => (k # "unfreeze" => HideDue') /\ EndDue'
      BY <2>1, <2>2, AskedDue DEF PostsHide, Ends
    <2>4. k \in {"freeze", "unfreeze"} => ~ShowIn(owed')
      BY <2>2, EventsIn
    <2>5. ~PostsHide(Head(messages).task) /\ ~Ends(Head(messages).task)
      BY <2>2 DEF PostsHide, Ends
    <2>6. CASE k = "unfreeze"
      <3>1. lost' \/ EndDue'
        BY <2>2, <2>3, <2>6
      <3> QED
        BY <2>1, <2>2, <2>4, <2>5, <2>6, <3>1, OverlaySpins
    <2>7. CASE k # "unfreeze"
      <3>1. ShowIn(owed') => lost' \/ HideDue'
        BY <2>2, <2>3, <2>4, <2>7
      <3> QED
        BY <2>1, <2>2, <2>5, <2>7, <3>1, OverlayPlain
    <2> QED
      BY <2>6, <2>7
  <1>3. CASE OnCreateSigns(b)
    <2> DEFINE k == Head(messages).task.what
               t == Task("broadcast", k, Head(messages).task.of)
    <2>1. Step({"create"}, {"broadcast"}) /\ t \in Tasks /\ t.step = "broadcast" /\ t.what = k
      BY <1>3, StepsOfTransactions, TaskFields
    <2>2. /\ owed = <<>> /\ Rpc(t, b) /\ UNCHANGED layer
          /\ Head(messages).event = "callback" /\ Head(messages).task.step = "create"
          /\ lost => lost'
          /\ ~b => lost'
          /\ k # "freeze" => owed' = <<>>
      BY <1>3 DEF OnCreateSigns, Answered, Take
    <2> HIDE DEF t
    <2>3. b => (k # "unfreeze" => HideDue') /\ EndDue'
      BY <2>1, <2>2, AskedDue DEF PostsHide, Ends
    <2>4. ShowIn(owed') => k # "unfreeze"
      BY <2>2, EventsIn
    <2>5. PostsHide(Head(messages).task) => k # "unfreeze"
      BY <2>2 DEF PostsHide
    <2> QED
      BY <2>1, <2>2, <2>3, <2>4, <2>5, OverlayPlain
  <1>4. CASE OnCreateFails
    <2>1. Step({"create"}, {})
      BY <1>4, StepsOfLoop
    <2>2. /\ owed = <<>> /\ Head(messages).event = "callback" /\ Head(messages).task.step = "create"
          /\ IF Head(messages).task.what = "unfreeze"
             THEN HideStatus(TRUE) /\ owed' = <<>>
             ELSE owed' = <<Event("hide", TRUE)>> /\ UNCHANGED layer /\ lost' = lost
      BY <1>4 DEF OnCreateFails, Answered, Take
    <2>3. CASE Head(messages).task.what = "unfreeze"
      <3>1. ~PostsHide(Head(messages).task)
        BY <2>2, <2>3 DEF PostsHide
      <3> QED
        BY <2>1, <2>2, <2>3, <3>1, OverlayHides
    <2>4. CASE Head(messages).task.what # "unfreeze"
      <3>1. HideIn(owed') /\ ~ShowIn(owed')
        BY <2>2, <2>4, EventsIn
      <3> QED
        BY <2>1, <2>2, <2>4, <3>1, OverlayPlain
    <2> QED
      BY <2>3, <2>4
  <1>5. CASE OnBroadcast(b)
    <2>1. Step({"broadcast"}, {})
      BY <1>5, StepsOfLoop
    <2>2. /\ owed = <<>> /\ Head(messages).event = "callback" /\ Head(messages).task.step = "broadcast"
          /\ IF Head(messages).task.what = "unfreeze"
             THEN HideStatus(b) /\ owed' = <<>>
             ELSE /\ UNCHANGED layer /\ lost' = lost
                  /\ \/ owed' = <<Event("hide", b)>>
                     \/ owed' = <<Event("hide", b), Event("balanceList", TRUE)>>
      BY <1>5 DEF OnBroadcast, Answered, Take
    <2>3. CASE Head(messages).task.what = "unfreeze"
      <3>1. ~PostsHide(Head(messages).task)
        BY <2>2, <2>3 DEF PostsHide
      <3> QED
        BY <2>1, <2>2, <2>3, <3>1, OverlayHides
    <2>4. CASE Head(messages).task.what # "unfreeze"
      <3>1. HideIn(owed') /\ ~ShowIn(owed')
        BY <2>2, <2>4, EventsIn
      <3> QED
        BY <2>1, <2>2, <2>4, <3>1, OverlayPlain
    <2> QED
      BY <2>3, <2>4
  <1> QED
    BY <1>1, <1>2, <1>3, <1>4, <1>5

LEMMA OverlayNext == TypeOK /\ TypeOK' /\ OverlayInv /\ [Next]_vars => OverlayInv'
  <1> SUFFICES ASSUME TypeOK, TypeOK', OverlayInv, [Next]_vars PROVE OverlayInv'
    OBVIOUS
  <1>1. CASE NetworkNext
    BY <1>1, OverlayPosted
  <1>2. CASE MessageNext
    <2>1. TRUE \in BOOLEAN
      OBVIOUS
    <2> QED
      BY <1>2, <2>1, OverlayPosted, OverlayLoop, OverlayViews, OverlayPages, OverlayTransactions DEF MessageNext
  <1>3. CASE UserNext
    BY <1>3, OverlayLoop, OverlayViews, OverlayPages, OverlayTransactions DEF UserNext
  <1>4. CASE Timer
    BY <1>4, OverlayLoop
  <1>5. CASE UNCHANGED vars
    BY <1>5 DEF vars, network, loop, layer, history, OverlayInv, OverlayEnds, ShowPosted, ShowOwed,
                HideDue, Coming, Pending, Line
  <1> QED
    BY <1>1, <1>2, <1>3, <1>4, <1>5 DEF Next, Rest

\* Whatever the overlay shows, something under way will take it down, unless an RPC was
\* refused that the spinner was shown for.
THEOREM OverlayEndsAlways == Spec => []OverlayEnds
  <1>1. Init => TypeOK /\ OverlayInv
    BY TypeInit, OverlayInit
  <1>2. TypeOK /\ OverlayInv /\ [Next]_vars => TypeOK' /\ OverlayInv'
    BY TypeNext, OverlayNext
  <1>3. OverlayInv => OverlayEnds
    BY DEF OverlayInv
  <1> QED
    BY <1>1, <1>2, <1>3, PTL DEF Spec

-----------------------------------------------------------------------------
(* No form of another account is left on the screen.                        *)

\* A login that a new balance list will follow.
LoggingIn ==
    \/ net = "loggedIn"
    \/ \E i \in DOMAIN messages : messages[i].task.step = "login" /\ messages[i].ok

Announcing == LoggingIn \/ Coming("bar")

\* The balance list of the session was asked for; it comes after the forms of earlier
\* sessions, and replaces them.
Settled ==
    /\ form["balance"].address = session
    /\ \/ form["balance"].refused
       \/ /\ ShownAddress \in {None, session} \/ Has(Line, ViewTasks("balance"))
          /\ \/ form["send"].address = session
             \/ Followed(Line, ViewTasks("send"), ViewTasks("balance"))

SessionInv == session = None \/ Announcing \/ Settled

LEMMA BalanceAndSend ==
    /\ "balance" \in AllViews /\ "send" \in AllViews /\ "balance" # "send"
    /\ ViewTasks("balance") \in SUBSET Tasks /\ ViewTasks("send") \in SUBSET Tasks
    /\ \A t \in ViewTasks("balance") : t.step = "view" /\ t.what = "balance"
    /\ \A t \in ViewTasks("send") : t.step = "view" /\ t.what = "send"
  <1>1. "balance" \in AllViews /\ "send" \in AllViews
    BY DEF AllViews
  <1> QED
    BY <1>1, ViewTaskFacts

\* What SessionInv is for.
LEMMA SessionInvShows == TypeOK /\ SessionInv => FormOfSession
  <1> SUFFICES ASSUME TypeOK, SessionInv PROVE FormOfSession
    OBVIOUS
  <1>1. Has(Line, ViewTasks("balance")) => \E t \in Pending : t.step = "view" /\ t.what = "balance"
    BY PendingIsLine, BalanceAndSend
  <1>2. ASSUME NEW i \in DOMAIN messages, messages[i].task.step = "login"
        PROVE  \E t \in Pending : t.step = "login"
    <2>1. i \in DOMAIN Line /\ Line[i] = messages[i].task
      BY LinePlaces
    <2>2. Line[i] # NoTask
      BY <1>2, <2>1, NoTaskIsNone
    <2> QED
      BY <1>2, <2>1, <2>2 DEF Pending
  <1> QED
    BY <1>1, <1>2 DEF SessionInv, Announcing, LoggingIn, Settled, FormOfSession

\* An announcement that is not taken is still there.
LEMMA AnnouncingKept ==
    ASSUME TypeOK, Announcing, owed = <<>>, net' = net,
           \/ messages' = messages
           \/ /\ messages # <<>> /\ messages' = Tail(messages)
              /\ Head(messages).event # "bar"
              /\ ~(Head(messages).task.step = "login" /\ Head(messages).ok)
    PROVE  Announcing'
  <1>1. CASE messages' = messages
    BY <1>1 DEF Announcing, LoggingIn, Coming
  <1>2. CASE /\ messages # <<>> /\ messages' = Tail(messages)
             /\ Head(messages).event # "bar"
             /\ ~(Head(messages).task.step = "login" /\ Head(messages).ok)
    <2>1. /\ Head(messages) = messages[1]
          /\ \A i \in DOMAIN messages :
                i = 1 \/ (i - 1 \in DOMAIN messages' /\ messages'[i - 1] = messages[i])
      BY <1>2, Ends1 DEF TypeOK
    <2>2. \A i \in DOMAIN owed : FALSE
      OBVIOUS
    <2> QED
      BY <1>2, <2>1, <2>2 DEF Announcing, LoggingIn, Coming
  <1> QED
    BY <1>1, <1>2

\* Steps that leave the views alone.
LEMMA SettledKept ==
    ASSUME TypeOK, Settled, session' = session, FormsKept,
           \/ NetworkNext \/ Post
           \/ \E S, T : Step(S, T) /\ "view" \notin S \cup T,
           ShownAddress' = ShownAddress \/ ShownAddress' = session
    PROVE  Settled'
  <1> DEFINE A == ViewTasks("send")
             B == ViewTasks("balance")
  <1>1. /\ A \in SUBSET Tasks /\ B \in SUBSET Tasks
        /\ \A t \in A : t.step = "view"
        /\ \A t \in B : t.step = "view"
    BY BalanceAndSend
  <1> HIDE DEF A, B
  <1>2. (Has(Line, B) => Has(Line', B)) /\ (Followed(Line, A, B) => Followed(Line', A, B))
    <2>1. CASE NetworkNext \/ Post
      BY <1>1, <2>1, LineKept
    <2>2. ASSUME NEW S, NEW T, Step(S, T), "view" \notin S \cup T
          PROVE  (Has(Line, B) => Has(Line', B)) /\ (Followed(Line, A, B) => Followed(Line', A, B))
      BY <1>1, <2>2, StepKeeps
    <2> QED
      BY <2>1, <2>2
  <1> QED
    BY <1>2, BalanceAndSend DEF Settled, FormsKept, A, B

LEMMA SessionPlain ==
    ASSUME TypeOK, SessionInv, session' = session, FormsKept, owed = <<>>,
           NEW S, NEW T, Step(S, T), "view" \notin S \cup T,
           messages' # messages =>
               /\ Head(messages).event # "bar"
               /\ ~(Head(messages).task.step = "login" /\ Head(messages).ok),
           \/ content' = content /\ freezeAddress' = freezeAddress
           \/ content' \notin {"balance", "send", "freeze"}
           \/ content' = "freeze" /\ freezeAddress' = session
    PROVE  SessionInv'
  <1>1. CASE session = None
    BY <1>1 DEF SessionInv
  <1>2. CASE Announcing
    <2>1. Announcing'
      BY <1>2, AnnouncingKept DEF Step
    <2> QED
      BY <2>1 DEF SessionInv
  <1>3. CASE Settled
    <2>1. ShownAddress' = ShownAddress \/ ShownAddress' = session
      BY BalanceAndSend DEF ShownAddress, FormsKept
    <2>2. Settled'
      BY <1>3, <2>1, SettledKept
    <2> QED
      BY <2>2 DEF SessionInv
  <1> QED
    BY <1>1, <1>2, <1>3 DEF SessionInv

\* The balance list of the session is asked for.
LEMMA SessionBalance ==
    ASSUME TypeOK, session \in Accounts, session' = session, NEW b \in BOOLEAN,
           SetAddress("balance", session, b),
           messages' = messages \/ (messages # <<>> /\ messages' = Tail(messages))
    PROVE  Settled'
  <1> DEFINE t == Task("view", "balance", session)
             l == LineOf(messages', queue, net = "posted")
             A == ViewTasks("send")
             B == ViewTasks("balance")
  <1>1. t \in Tasks /\ t \in B /\ t \notin A
    BY TaskMade, TaskFields, ViewTaskFacts, BalanceAndSend
  <1>2. net' = net /\ queue' = (IF b THEN Append(queue, t) ELSE queue)
    BY DEF SetAddress, Rpc
  <1>4. b => Pushed(l, Line', t)
    BY <1>1, <1>2, LineStep
  <1> HIDE DEF t, l, A, B
  <1>5. b => Has(Line', B) /\ Followed(Line', A, B)
    BY <1>1, <1>4, PushedKeeps
  <1>6. form'["balance"].address = session /\ form'["balance"].refused = ~b
    BY BalanceAndSend, SetAddressForms DEF TypeOK
  <1>7. CASE b
    BY <1>5, <1>6, <1>7 DEF Settled, A, B
  <1>8. CASE ~b
    <2>1. form'["balance"].refused
      BY <1>6, <1>8
    <2> QED
      BY <1>6, <2>1 DEF Settled
  <1> QED
    BY <1>7, <1>8

\* Another view gets its address.
LEMMA SessionView ==
    ASSUME TypeOK, SessionInv, NEW f \in AllViews \ {"balance"}, NEW a \in Accounts, NEW b \in BOOLEAN,
           SetAddress(f, a, b), f = "send" => a = session,
           session' = session, content' = content, freezeAddress' = freezeAddress,
           messages' = messages, owed = <<>>
    PROVE  SessionInv'
  <1> DEFINE t == Task("view", f, a)
             A == ViewTasks("send")
             B == ViewTasks("balance")
  <1>1. t \in Tasks /\ t \notin B /\ (f # "send" => t \notin A)
    BY TaskMade, TaskFields, BalanceAndSend
  <1>2. net' = net /\ queue' = (IF b THEN Append(queue, t) ELSE queue)
    BY DEF SetAddress, Rpc
  <1>3. /\ form'["balance"] = form["balance"]
        /\ f # "send" => form'["send"] = form["send"]
        /\ f = "send" => form'["send"].address = session /\ form'["send"].label = session
    BY BalanceAndSend, SetAddressForms DEF TypeOK, Spins
  <1>4. Line' = Line \/ Pushed(Line, Line', t)
    BY <1>1, <1>2, LineStep
  <1> HIDE DEF t, A, B
  <1>5. /\ Has(Line, B) => Has(Line', B)
        /\ f # "send" => (Followed(Line, A, B) => Followed(Line', A, B))
    BY <1>1, <1>4, PushedKeeps
  <1>6. ShownAddress' = ShownAddress \/ ShownAddress' = session
    BY <1>3 DEF ShownAddress
  <1>7. CASE Settled
    <2>1. Settled'
      BY <1>3, <1>5, <1>6, <1>7 DEF Settled, A, B
    <2> QED
      BY <2>1 DEF SessionInv
  <1>8. CASE Announcing
    BY <1>2, <1>8, AnnouncingKept DEF SessionInv
  <1>9. CASE session = None
    BY <1>9 DEF SessionInv
  <1> QED
    BY <1>7, <1>8, <1>9 DEF SessionInv

\* A view is answered.
LEMMA SessionAnswered ==
    ASSUME TypeOK, SessionInv, NEW b \in BOOLEAN, OnView(b)
    PROVE  SessionInv'
  <1> DEFINE m == Head(messages)
             f == m.task.what
             l == LineOf(messages', queue, net = "posted")
             A == ViewTasks("send")
             B == ViewTasks("balance")
  <1>1. /\ messages # <<>> /\ messages' = Tail(messages) /\ owed = <<>>
        /\ m.task \in Tasks /\ m.task.step = "view" /\ m.event # "bar"
    BY AnsweredStep DEF OnView, Answered, Take
  <1>2. /\ net' = net /\ f \in AllViews
        /\ queue' = queue \/ \E u \in Tasks : u.step = "net" /\ queue' = Append(queue, u)
    <2>1. Step({"view"}, {"net"}) /\ f \in AllViews
      BY StepsOfForms
    <2> QED
      BY <2>1 DEF Step
  <1>3. /\ session' = session /\ content' = f
        /\ form'[f].label = form[f].address
        /\ \A g \in AllViews : form'[g].address = form[g].address /\ form'[g].refused = form[g].refused
    <2>1. m.task.of \in Accounts /\ m.ok \in BOOLEAN
      BY <1>1, TaskTypes, AnsweredStep DEF OnView
    <2>2. session' = session /\ content' = f
      BY DEF OnView
    <2> QED
      BY <1>2, <2>1, <2>2, OnViewForms DEF TypeOK
  <1>4. /\ Popped(Line, l) /\ Line[1] = m.task
        /\ Line' = l \/ \E u \in Tasks : u.step = "net" /\ Pushed(l, Line', u)
    BY <1>1, <1>2, LineStep
  <1>5. /\ \A u \in A : u.step = "view" /\ u.what = "send"
        /\ \A u \in B : u.step = "view" /\ u.what = "balance"
        /\ f = "send" => m.task \in A
        /\ f = "balance" => m.task \in B
    BY <1>1, BalanceAndSend, ViewTaskFacts
  <1> HIDE DEF l, A, B, m
  <1>6. /\ Followed(Line, A, B) => Followed(l, A, B)
        /\ Followed(Line, A, B) /\ f = "send" => Has(l, B)
        /\ Has(Line, B) => Has(l, B) \/ f = "balance"
    BY <1>4, <1>5, PoppedKeeps
  <1>7. /\ Followed(l, A, B) => Followed(Line', A, B)
        /\ Has(l, B) => Has(Line', B)
    BY <1>4, <1>5, PushedKeeps
  <1>8. CASE session = None
    BY <1>3, <1>8 DEF SessionInv
  <1>9. CASE Announcing
    BY <1>1, <1>2, <1>9, AnnouncingKept DEF SessionInv, m
  <1>10. CASE Settled
    <2>1. ShownAddress' = IF f \in {"balance", "send"} THEN form[f].address ELSE session
      BY <1>2, <1>3 DEF ShownAddress, AllViews
    <2>2. /\ form'["balance"].address = session'
          /\ form'["balance"].refused = form["balance"].refused
          /\ form'["send"].address = form["send"].address
      BY <1>3, <1>10, BalanceAndSend DEF Settled
    <2>3. Settled'
      BY <1>3, <1>6, <1>7, <1>10, <2>1, <2>2 DEF Settled, A, B
    <2> QED
      BY <2>3 DEF SessionInv
  <1> QED
    BY <1>8, <1>9, <1>10 DEF SessionInv

\* Callbacks and events that are posted, and tasks that end, leave the announcement.
LEMMA AnnouncingPosted ==
    ASSUME TypeOK, NetworkNext \/ Post
    PROVE  (LoggingIn => LoggingIn') /\ (Announcing => Announcing')
  <1>0. messages \in Seq(Callbacks \cup Events) /\ owed \in Seq(Events) /\ queue \in Seq(Tasks)
    BY DEF TypeOK
  <1>1. CASE LogIn \/ EndTask
    BY <1>1 DEF LogIn, EndTask, loop, Announcing, LoggingIn, Coming
  <1>2. ASSUME NEW e \in Callbacks \cup Events, messages' = Append(messages, e)
        PROVE  /\ \A i \in DOMAIN messages : i \in DOMAIN messages' /\ messages'[i] = messages[i]
               /\ Len(messages) + 1 \in DOMAIN messages' /\ messages'[Len(messages) + 1] = e
    <2>1. /\ \A i \in DOMAIN messages : i \in DOMAIN messages' /\ messages'[i] = messages[i]
          /\ DOMAIN messages' = 1 .. Len(messages) + 1 /\ Len(messages) \in Nat
          /\ messages'[Len(messages) + 1] = e
      BY <1>0, <1>2, Append1
    <2> QED
      BY <2>1
  <1>3. ASSUME NEW ok \in BOOLEAN, PostCallback(ok)
        PROVE  (LoggingIn => LoggingIn') /\ (Announcing => Announcing')
    <2> DEFINE c == Message("callback", Head(queue), ok)
    <2>1. queue # <<>> /\ Head(queue) \in Tasks
      BY <1>0, <1>3, Ends1 DEF PostCallback
    <2>2. c \in Callbacks \cup Events /\ c.task = Head(queue) /\ c.ok = ok
      BY <2>1, MessageMade
    <2>3. messages' = Append(messages, c) /\ owed' = owed
      BY <1>3 DEF PostCallback
    <2>4. net = "loggedIn" => c.task.step = "login" /\ c.ok
      BY <1>3, <2>2 DEF PostCallback, TypeOK
    <2> HIDE DEF c
    <2>5. /\ \A i \in DOMAIN messages : i \in DOMAIN messages' /\ messages'[i] = messages[i]
          /\ Len(messages) + 1 \in DOMAIN messages' /\ messages'[Len(messages) + 1] = c
      BY <1>2, <2>2, <2>3
    <2> QED
      BY <2>3, <2>4, <2>5 DEF Announcing, LoggingIn, Coming
  <1>4. CASE Post
    <2> DEFINE e == Head(owed)
    <2>1. /\ e \in Callbacks \cup Events /\ e = owed[1]
          /\ \A i \in DOMAIN owed : i = 1 \/ (i - 1 \in DOMAIN owed' /\ owed'[i - 1] = owed[i])
      BY <1>0, <1>4, Ends1 DEF Post
    <2>2. messages' = Append(messages, e) /\ net' = net
      BY <1>4 DEF Post, network
    <2> HIDE DEF e
    <2>3. /\ \A i \in DOMAIN messages : i \in DOMAIN messages' /\ messages'[i] = messages[i]
          /\ Len(messages) + 1 \in DOMAIN messages' /\ messages'[Len(messages) + 1] = e
      BY <1>2, <2>1, <2>2
    <2> QED
      BY <2>1, <2>2, <2>3 DEF Announcing, LoggingIn, Coming
  <1> QED
    BY <1>1, <1>3, <1>4 DEF NetworkNext

LEMMA SessionPosted ==
    ASSUME TypeOK, SessionInv, NetworkNext \/ Post
    PROVE  SessionInv'
  <1>1. CASE LogIn
    BY <1>1 DEF LogIn, SessionInv, Announcing, LoggingIn
  <1>2. CASE (\E ok \in BOOLEAN : PostCallback(ok)) \/ EndTask \/ Post
    <2>1. session' = session /\ form' = form /\ content' = content /\ freezeAddress' = freezeAddress
      BY <1>2 DEF PostCallback, EndTask, Post, window
    <2>2. Settled => Settled'
      <3>1. ShownAddress' = ShownAddress
        BY <2>1 DEF ShownAddress
      <3> QED
        BY <2>1, <3>1, SettledKept DEF FormsKept
    <2> QED
      BY <2>1, <2>2, AnnouncingPosted DEF SessionInv
  <1> QED
    BY <1>1, <1>2 DEF NetworkNext

LEMMA SessionInit == Init => SessionInv
  BY DEF Init, SessionInv

\* The message loop, logging in and out, and the ways to the forms.
LEMMA SessionLoop ==
    ASSUME TypeOK, SessionInv,
           \/ Timer \/ OnShowLogin \/ SignOut \/ CheckLoginFails \/ ShowAddresses
           \/ OnShowStatus \/ OnHideStatus \/ OnLogin \/ OnNet \/ OnCheckFails
           \/ \E a \in Accounts : ClickLogin(a)
           \/ \E f : OpenForm(f)
    PROVE  SessionInv'
  <1>1. CASE SignOut
    BY <1>1 DEF SignOut, SessionInv
  <1>2. CASE Timer \/ CheckLoginFails \/ \E a \in Accounts : ClickLogin(a)
    <2>1. /\ session' = session /\ form' = form /\ owed = <<>> /\ messages' = messages
          /\ content' = content /\ freezeAddress' = freezeAddress
      BY <1>2 DEF Timer, CheckLoginFails, ClickLogin, Ready, Input, Idle, loop, window
    <2>2. \E S, T : Step(S, T) /\ "view" \notin S \cup T
      BY <1>2, StepsOfLoop
    <2> QED
      BY <2>1, <2>2, SessionPlain DEF FormsKept
  <1>3. CASE OnShowLogin \/ ShowAddresses \/ \E f : OpenForm(f)
    <2>1. /\ session' = session /\ form' = form /\ owed = <<>> /\ messages' = messages
          /\ \/ content' \notin {"balance", "send", "freeze"}
             \/ content' = "freeze" /\ freezeAddress' = session
      BY <1>3 DEF OnShowLogin, ShowAddresses, OpenForm, Input, Idle
    <2>2. \E S, T : Step(S, T) /\ "view" \notin S \cup T
      BY <1>3, StepsOfLoop
    <2> QED
      BY <2>1, <2>2, SessionPlain DEF FormsKept
  <1>4. CASE OnShowStatus \/ OnHideStatus
    <2>1. /\ session' = session /\ form' = form /\ owed = <<>>
          /\ content' = content /\ freezeAddress' = freezeAddress
          /\ Head(messages).event # "bar" /\ Head(messages).task.step = "none"
      BY <1>4, EventStep DEF OnShowStatus, OnHideStatus, window
    <2>2. \E S, T : Step(S, T) /\ "view" \notin S \cup T
      BY <1>4, StepsOfLoop
    <2> QED
      BY <2>1, <2>2, SessionPlain DEF FormsKept
  <1>5. CASE OnNet \/ OnCheckFails
    <2>1. /\ session' = session /\ owed = <<>>
          /\ content' = content /\ freezeAddress' = freezeAddress
          /\ Head(messages).event # "bar" /\ Head(messages).task.step # "login"
      BY <1>5 DEF OnNet, OnCheckFails, Answered, Take, window
    <2>3. FormsKept
      BY <1>5, OnNetKeeps DEF OnCheckFails, window, FormsKept
    <2>2. \E S, T : Step(S, T) /\ "view" \notin S \cup T
      BY <1>5, StepsOfLoop
    <2> QED
      BY <2>1, <2>2, <2>3, SessionPlain
  <1>6. CASE OnLogin
    <2>1. CASE Head(messages).ok
      <3>1. owed' = <<Event("hide", TRUE), Event("bar", TRUE)>>
        BY <1>6, <2>1 DEF OnLogin
      <3>2. Event("bar", TRUE).event = "bar"
        BY MessageMade
      <3>3. 2 \in DOMAIN owed' /\ owed'[2] = Event("bar", TRUE)
        BY <3>1
      <3> QED
        BY <3>2, <3>3 DEF SessionInv, Announcing, Coming
    <2>2. CASE ~Head(messages).ok
      <3>1. /\ session' = session /\ form' = form /\ owed = <<>>
            /\ content' = content /\ freezeAddress' = freezeAddress
            /\ Head(messages).event # "bar"
        BY <1>6, <2>2 DEF OnLogin, Answered, Take
      <3>2. \E S, T : Step(S, T) /\ "view" \notin S \cup T
        BY <1>6, StepsOfLoop
      <3> QED
        BY <2>2, <3>1, <3>2, SessionPlain DEF FormsKept
    <2> QED
      BY <2>1, <2>2
  <1> QED
    BY <1>1, <1>2, <1>3, <1>4, <1>5, <1>6

\* The lists and the transactions.
LEMMA SessionAsks ==
    ASSUME TypeOK, SessionInv, NEW b \in BOOLEAN,
           \/ \E p \in Pages \ {"transactions"} : ClickPage(p, b)
           \/ \E k \in Kinds : ClickTransaction(k, b)
           \/ ShowTransactions(b) \/ OnFrom(b) \/ OnPage \/ OnTo
           \/ OnCheckPasses(b) \/ OnCreateSigns(b) \/ OnCreateFails \/ OnBroadcast(b)
    PROVE  SessionInv'
  <1>1. \E S, T : Step(S, T) /\ "view" \notin S \cup T
    BY StepsOfLoop, StepsOfForms, StepsOfTransactions
  <1>2. CASE \/ \E p \in Pages \ {"transactions"} : ClickPage(p, b)
             \/ \E k \in Kinds : ClickTransaction(k, b)
             \/ ShowTransactions(b)
    <2>1. /\ session' = session /\ form' = form /\ owed = <<>> /\ messages' = messages
          /\ content' = content /\ freezeAddress' = freezeAddress
      BY <1>2 DEF ClickPage, ClickTransaction, ShowTransactions, Ready, Input, Idle, window
    <2> QED
      BY <1>1, <2>1, SessionPlain DEF FormsKept
  <1>3. CASE OnFrom(b) \/ OnCheckPasses(b) \/ OnCreateSigns(b) \/ OnCreateFails
    <2>1. /\ session' = session /\ form' = form /\ owed = <<>>
          /\ content' = content /\ freezeAddress' = freezeAddress
          /\ Head(messages).event # "bar" /\ Head(messages).task.step # "login"
      BY <1>3 DEF OnFrom, OnCheckPasses, OnCreateSigns, OnCreateFails, Answered, Take, window
    <2> QED
      BY <1>1, <2>1, SessionPlain DEF FormsKept
  <1>4. CASE OnTo \/ OnBroadcast(b)
    <2>1. /\ session' = session /\ form' = form /\ owed = <<>>
          /\ freezeAddress' = freezeAddress
          /\ content' = content \/ content' \in {"transactions", "none"}
          /\ Head(messages).event # "bar" /\ Head(messages).task.step # "login"
      BY <1>4 DEF OnTo, OnBroadcast, Answered, Take
    <2> QED
      BY <1>1, <2>1, SessionPlain DEF FormsKept
  <1>5. CASE OnPage
    <2>1. /\ session' = session /\ form' = form /\ owed = <<>>
          /\ freezeAddress' = freezeAddress
          /\ content' = content \/ content' = Head(messages).task.what
          /\ Head(messages).event # "bar" /\ Head(messages).task.step = "page"
      BY <1>5 DEF OnPage, Answered, Take
    <2>2. Head(messages).task.what \notin {"balance", "send", "freeze"}
      <3>1. Head(messages).task \in Tasks
        BY <1>5, AnsweredStep DEF OnPage
      <3> QED
        BY <2>1, <3>1, TaskTypes DEF AllPages
    <2> QED
      BY <1>1, <2>1, <2>2, SessionPlain DEF FormsKept
  <1> QED
    BY <1>2, <1>3, <1>4, <1>5

LEMMA SessionNext == TypeOK /\ SessionInv /\ [Next]_vars => SessionInv'
  <1> SUFFICES ASSUME TypeOK, SessionInv, [Next]_vars PROVE SessionInv'
    OBVIOUS
  <1>1. ASSUME NEW b \in BOOLEAN, OnAccountBarLogin(b) PROVE SessionInv'
    <2>1. session' = session /\ messages # <<>> /\ messages' = Tail(messages)
      BY <1>1, EventStep DEF OnAccountBarLogin
    <2>2. CASE session # None
      <3>1. SetAddress("balance", session, b) /\ session \in Accounts
        BY <1>1, <2>2 DEF OnAccountBarLogin, ShowBalanceList, TypeOK, Address
      <3> QED
        BY <2>1, <3>1, SessionBalance DEF SessionInv
    <2> QED
      BY <2>1, <2>2 DEF SessionInv
  <1>2. ASSUME NEW f \in Views, NEW a \in Accounts, NEW b \in BOOLEAN, ClickView(f, a, b)
        PROVE  SessionInv'
    <2>1. /\ SetAddress(f, a, b) /\ (f \in {"balance", "send"} => a = session) /\ f \in AllViews
          /\ session' = session /\ content' = content /\ freezeAddress' = freezeAddress
          /\ messages' = messages /\ owed = <<>>
      BY <1>2, MainWindowAssumption DEF ClickView, Ready, Input, Idle
    <2>2. CASE f = "balance"
      BY <2>1, <2>2, SessionBalance DEF SessionInv
    <2>3. CASE f # "balance"
      BY <2>1, <2>3, SessionView
    <2> QED
      BY <2>2, <2>3
  <1>3. CASE NetworkNext
    BY <1>3, SessionPosted
  <1>4. CASE MessageNext
    <2>1. TRUE \in BOOLEAN
      OBVIOUS
    <2> QED
      BY <1>1, <1>4, <2>1, SessionPosted, SessionLoop, SessionAsks, SessionAnswered DEF MessageNext
  <1>5. CASE UserNext
    BY <1>2, <1>5, SessionLoop, SessionAsks DEF UserNext
  <1>6. CASE Timer
    BY <1>6, SessionLoop
  <1>7. CASE UNCHANGED vars
    BY <1>7 DEF vars, network, loop, window, SessionInv, Announcing, LoggingIn, Coming, Settled,
                ShownAddress, Line
  <1> QED
    BY <1>3, <1>4, <1>5, <1>6, <1>7 DEF Next, Rest

\* A form of somebody else is shown to whoever is logged in only until the balance list
\* that replaces it is loaded, or if its request was refused.
THEOREM FormOfSessionAlways == Spec => []FormOfSession
  <1>1. Init => TypeOK /\ SessionInv
    BY TypeInit, SessionInit
  <1>2. TypeOK /\ SessionInv /\ [Next]_vars => TypeOK' /\ SessionInv'
    BY TypeNext, SessionNext
  <1>3. TypeOK /\ SessionInv => FormOfSession
    BY SessionInvShows
  <1> QED
    BY <1>1, <1>2, <1>3, PTL DEF Spec

-----------------------------------------------------------------------------
(* Transactions are signed by their owner.                                  *)

\* The forms that are only shown to somebody who is logged in.
SessionForms == {"balance", "send", "freeze", "issue", "modify", "mytokens"}

\* What a task expects of the session.
OfSession(t) ==
    /\ t.step \in {"check", "create"} => session # None /\ t.of = session
    /\ t.step = "view" /\ t.what \in {"balance", "send"} => session # None
    /\ t.step = "view" /\ t.what = "send" => form["send"].address = session
    /\ t.step = "page" /\ t.what = "mytokens" => session # None

\* A login finds nobody logged in, and nothing else under way.
LoginAlone ==
    /\ \A i \in DOMAIN queue :
          queue[i].step = "login" => i = 1 /\ (net = "run" => session = None)
    /\ \A i \in DOMAIN messages :
          messages[i].task.step = "login" =>
              /\ messages[i].ok \/ session = None
              /\ queue # <<>> /\ Head(queue).step = "login" => net = "posted"

\* Who is logged in can sign out, or will be able to; till then there is no way to the
\* login form.
BarInv ==
    /\ session = None \/ signOut \/ Announcing
    /\ content = "login" => session = None \/ LoggingIn

\* The form that is shown is of the session.
ContentInv ==
    /\ content \in SessionForms => session # None
    /\ content = "send" => form["send"].address = session
    /\ content = "freeze" => freezeAddress = session

\* If accounts are switched only when nothing is under way, everything under way and
\* every form is that of the session.
Sound ==
    /\ ~misSigned
    /\ LoginAlone
    /\ BarInv
    /\ ContentInv
    /\ \A t \in Pending : OfSession(t)

SignInv == hasty \/ Sound

LEMMA LoggingInKept ==
    ASSUME TypeOK, LoggingIn, net' = net,
           \/ messages' = messages
           \/ /\ messages # <<>> /\ messages' = Tail(messages)
              /\ ~(Head(messages).task.step = "login" /\ Head(messages).ok)
    PROVE  LoggingIn'
  <1>1. CASE messages' = messages
    BY <1>1 DEF LoggingIn
  <1>2. CASE /\ messages # <<>> /\ messages' = Tail(messages)
             /\ ~(Head(messages).task.step = "login" /\ Head(messages).ok)
    <2>1. /\ Head(messages) = messages[1]
          /\ \A i \in DOMAIN messages :
                i = 1 \/ (i - 1 \in DOMAIN messages' /\ messages'[i - 1] = messages[i])
      BY <1>2, Ends1 DEF TypeOK
    <2> QED
      BY <1>2, <2>1 DEF LoggingIn
  <1> QED
    BY <1>1, <1>2

\* A task that is new is the one that was asked for.
LEMMA StepAsked ==
    ASSUME TypeOK, TypeOK', NEW S, NEW T, Step(S, T)
    PROVE  \A t \in Pending' : t \in Pending \/ queue' = Append(queue, t)
  <1> DEFINE l == LineOf(messages', queue, net = "posted")
  <1>1. /\ l = Line \/ Popped(Line, l)
        /\ Line' = l \/ \E t \in Tasks : queue' = Append(queue, t) /\ Pushed(l, Line', t)
    BY LineStep DEF Step
  <1> HIDE DEF l
  <1>2. ASSUME NEW t \in Tasks, Has(Line', {t})
        PROVE  Has(Line, {t}) \/ queue' = Append(queue, t)
    <2>1. Has(l, {t}) => Has(Line, {t})
      BY <1>1, PoppedKeeps
    <2>2. Has(l, {t}) \/ queue' = Append(queue, t)
      BY <1>1, <1>2, PushedKeeps
    <2> QED
      BY <2>1, <2>2
  <1> QED
    BY <1>2, PendingIsLine, PendingIsLineNext

\* No login is asked for.
LEMMA LoginAloneKept ==
    ASSUME TypeOK, LoginAlone, NEW S, NEW T, Step(S, T), "login" \notin T, session' = session
    PROVE  LoginAlone'
  <1>0. messages \in Seq(Callbacks \cup Events) /\ queue \in Seq(Tasks)
    BY DEF TypeOK
  <1>1. net' = net /\ (queue' = queue \/ \E t \in Tasks : t.step \in T /\ queue' = Append(queue, t))
    BY DEF Step
  <1>2. ASSUME NEW i \in DOMAIN queue', queue'[i].step = "login"
        PROVE  i \in DOMAIN queue /\ queue[i].step = "login"
    <2>1. ASSUME NEW t \in Tasks, t.step \in T, queue' = Append(queue, t)
          PROVE  i \in DOMAIN queue /\ queue[i].step = "login"
      <3>1. /\ DOMAIN queue = 1 .. Len(queue) /\ DOMAIN queue' = 1 .. Len(queue) + 1
            /\ \A j \in DOMAIN queue : queue'[j] = queue[j]
            /\ queue'[Len(queue) + 1] = t /\ Len(queue) \in Nat
        BY <1>0, <2>1, Append1
      <3>2. i \in DOMAIN queue \/ i = Len(queue) + 1
        BY <3>1
      <3> QED
        BY <1>2, <2>1, <3>1, <3>2
    <2> QED
      BY <1>1, <1>2, <2>1
  <1>3. queue' # <<>> /\ Head(queue').step = "login" => queue # <<>> /\ Head(queue).step = "login"
    <2>1. ASSUME NEW t \in Tasks, t.step \in T, queue' = Append(queue, t)
          PROVE  Head(queue').step = "login" => queue # <<>> /\ Head(queue).step = "login"
      BY <1>0, <2>1, Append1
    <2> QED
      BY <1>1, <2>1
  <1>4. ASSUME NEW i \in DOMAIN messages'
        PROVE  \E j \in DOMAIN messages : messages[j] = messages'[i]
    <2>1. CASE messages' = messages
      BY <1>4, <2>1
    <2>2. CASE messages # <<>> /\ messages' = Tail(messages)
      BY <1>0, <1>4, <2>2, Ends1
    <2> QED
      BY <2>1, <2>2 DEF Step
  <1>5. ASSUME NEW i \in DOMAIN queue', queue'[i].step = "login"
        PROVE  i = 1 /\ (net' = "run" => session' = None)
    BY <1>1, <1>2, <1>5 DEF LoginAlone
  <1>6. ASSUME NEW i \in DOMAIN messages', messages'[i].task.step = "login"
        PROVE  /\ messages'[i].ok \/ session' = None
               /\ queue' # <<>> /\ Head(queue').step = "login" => net' = "posted"
    <2>1. PICK j \in DOMAIN messages : messages[j] = messages'[i]
      BY <1>4
    <2> QED
      BY <1>1, <1>3, <1>6, <2>1 DEF LoginAlone
  <1> QED
    BY <1>5, <1>6 DEF LoginAlone

\* The tasks under way, and the one that is asked for, are of the session.
LEMMA OfSessionKept ==
    ASSUME TypeOK, TypeOK', Sound, NEW S, NEW T, Step(S, T), session' = session,
           form'["send"].address \in {form["send"].address, session},
           \A t \in Tasks : queue' = Append(queue, t) => OfSession(t)'
    PROVE  \A t \in Pending' : OfSession(t)'
  <1> SUFFICES ASSUME NEW t \in Pending' PROVE OfSession(t)'
    OBVIOUS
  <1>1. t \in Tasks
    BY PendingIsLineNext
  <1>2. CASE t \in Pending
    <2>1. OfSession(t)
      BY <1>2 DEF Sound
    <2> QED
      BY <2>1 DEF OfSession
  <1> QED
    BY <1>1, <1>2, StepAsked

\* Steps of the UI thread that do not switch the account.
LEMMA SignPlain ==
    ASSUME TypeOK, TypeOK', Sound, owed = <<>>, NEW S, NEW T, Step(S, T), "login" \notin T,
           session' = session, misSigned' = FALSE, signOut => signOut',
           messages' # messages =>
               LET m == Head(messages) IN
               /\ m.event = "bar" => signOut'
               /\ m.task.step = "login" /\ m.ok => Coming("bar")' /\ content' # "login",
           content' = "login" => content = "login" \/ session = None \/ LoggingIn,
           content' \in SessionForms => content' = content \/ session # None,
           content' = "send" => form'["send"].address = session,
           content' = "freeze" => freezeAddress' = session,
           form'["send"].address \in {form["send"].address, session},
           \A t \in Tasks : queue' = Append(queue, t) => OfSession(t)'
    PROVE  Sound'
  <1>1. LoginAlone'
    BY LoginAloneKept DEF Sound
  <1>2. \A t \in Pending' : OfSession(t)'
    BY OfSessionKept
  <1>3. ContentInv'
    BY DEF Sound, ContentInv
  <1>4. net' = net /\ (messages' = messages \/ (messages # <<>> /\ messages' = Tail(messages)))
    BY DEF Step
  <1>5. session' = None \/ signOut' \/ Announcing'
    <2>1. CASE Announcing
      <3>1. CASE messages' = messages
        BY <1>4, <2>1, <3>1, AnnouncingKept
      <3>2. CASE messages' # messages /\ Head(messages).event # "bar"
                 /\ ~(Head(messages).task.step = "login" /\ Head(messages).ok)
        BY <1>4, <2>1, <3>2, AnnouncingKept
      <3> QED
        BY <3>1, <3>2 DEF Announcing
    <2> QED
      BY <2>1 DEF Sound, BarInv
  <1>6. content' = "login" => session' = None \/ LoggingIn'
    <2> SUFFICES ASSUME content' = "login" PROVE session' = None \/ LoggingIn'
      OBVIOUS
    <2>1. session = None \/ LoggingIn
      BY DEF Sound, BarInv
    <2>2. LoggingIn => LoggingIn'
      BY <1>4, LoggingInKept
    <2> QED
      BY <2>1, <2>2
  <1> QED
    BY <1>1, <1>2, <1>3, <1>5, <1>6 DEF Sound, BarInv

\* The task that is asked for, if there is one.
LEMMA NewTask ==
    ASSUME TypeOK
    PROVE  /\ queue' = queue => \A t \in Tasks : queue' # Append(queue, t)
           /\ \A t, u \in Tasks : queue' = Append(queue, t) /\ queue' = Append(queue, u) => t = u
           /\ \A u \in Tasks, b \in BOOLEAN :
                 Rpc(u, b) => \A t \in Tasks : queue' = Append(queue, t) => t = u
  <1>0. queue \in Seq(Tasks)
    BY DEF TypeOK
  <1>1. ASSUME NEW t \in Tasks PROVE Append(queue, t) # queue
    <2>1. Len(Append(queue, t)) = Len(queue) + 1 /\ Len(queue) \in Nat
      BY <1>0, Append1
    <2> QED
      BY <2>1
  <1>2. ASSUME NEW t \in Tasks, NEW u \in Tasks, Append(queue, t) = Append(queue, u) PROVE t = u
    <2>1. Append(queue, t)[Len(queue) + 1] = t /\ Append(queue, u)[Len(queue) + 1] = u
      BY <1>0, Append1
    <2> QED
      BY <1>2, <2>1
  <1>3. ASSUME NEW u \in Tasks, NEW b \in BOOLEAN, Rpc(u, b), NEW t \in Tasks, queue' = Append(queue, t)
        PROVE  t = u
    <2>1. queue' = queue \/ queue' = Append(queue, u)
      BY <1>3 DEF Rpc
    <2> QED
      BY <1>1, <1>2, <1>3, <2>1
  <1> QED
    BY <1>1, <1>2, <1>3

\* Nothing expects anything of the session but these tasks.
LEMMA OfSessionFacts ==
    /\ \A t : t.step \notin {"check", "create", "view", "page"} => OfSession(t)'
    /\ \A t : t.step = "page" /\ t.what # "mytokens" => OfSession(t)'
  BY DEF OfSession

\* Steps that leave the window and the queue alone, but for the message.
LEMMA SignLoop ==
    ASSUME TypeOK, TypeOK', Sound,
           \/ Timer \/ OnShowLogin \/ CheckLoginFails \/ ShowAddresses
           \/ OnShowStatus \/ OnHideStatus \/ OnLogin \/ OnNet \/ OnCheckFails
           \/ OnCreateFails \/ OnTo \/ OnPage
           \/ \E b \in BOOLEAN : OnBroadcast(b)
           \/ \E f \in {"freeze", "issue", "modify"} : OpenForm(f)
    PROVE  Sound'
  <1>0. form'["send"].address = form["send"].address
    <2>1. CASE OnNet
      BY <2>1, OnNetKeeps, BalanceAndSend DEF FormsKept
    <2>2. CASE ~OnNet
      BY <2>2 DEF Timer, OnShowLogin, CheckLoginFails, ShowAddresses, OnShowStatus, OnHideStatus,
             OnLogin, OnCheckFails, OnCreateFails, OnTo, OnPage, OnBroadcast, OpenForm, window
    <2> QED
      BY <2>1, <2>2
  <1>1. /\ session' = session /\ signOut' = signOut /\ queue' = queue
        /\ owed = <<>> /\ misSigned' = misSigned
        /\ freezeAddress' = freezeAddress \/ freezeAddress' = session
    BY DEF Timer, OnShowLogin, CheckLoginFails, ShowAddresses, OnShowStatus, OnHideStatus, OnLogin,
           OnNet, OnCheckFails, OnCreateFails, OnTo, OnPage, OnBroadcast, OpenForm,
           Answered, Take, Input, Idle, history, window, network
  <1>2. \E S, T : Step(S, T) /\ "login" \notin T
    BY StepsOfLoop
  <1>3. \A t \in Tasks : queue' = Append(queue, t) => OfSession(t)'
    BY <1>1, NewTask
  <1>4. /\ misSigned' = FALSE
        /\ content' = content \/ content' \notin {"send", "freeze"} =>
              /\ content' = "send" => form'["send"].address = session
              /\ content' = "freeze" => freezeAddress' = session
    <2>1. misSigned' = FALSE
      BY <1>1 DEF Sound, TypeOK
    <2> QED
      BY <1>0, <1>1, <2>1 DEF Sound, ContentInv
  <1>5. ASSUME \/ messages' = messages
               \/ Head(messages).event # "bar" /\ Head(messages).task.step # "login",
               content' = content \/ content' \notin SessionForms \cup {"login"}
        PROVE  Sound'
    <2>1. content' = content \/ content' \notin {"send", "freeze"}
      BY <1>5 DEF SessionForms
    <2> QED
      BY <1>0, <1>1, <1>2, <1>3, <1>4, <1>5, <2>1, SignPlain
  <1>6. CASE Timer \/ CheckLoginFails \/ ShowAddresses
    <2>1. messages' = messages /\ (content' = content \/ content' = "addresses")
      BY <1>6 DEF Timer, CheckLoginFails, ShowAddresses, Input, loop, window
    <2> QED
      BY <1>5, <2>1 DEF SessionForms
  <1>7. CASE OnShowStatus \/ OnHideStatus
    <2>1. Head(messages).event # "bar" /\ Head(messages).task.step = "none" /\ content' = content
      BY <1>7, EventStep DEF OnShowStatus, OnHideStatus, window
    <2> QED
      BY <1>5, <2>1
  <1>8. CASE OnNet \/ OnCheckFails \/ OnCreateFails \/ OnTo \/ \E b \in BOOLEAN : OnBroadcast(b)
    <2>1. /\ Head(messages).event # "bar" /\ Head(messages).task.step # "login"
          /\ content' = content \/ content' \in {"none", "transactions"}
      BY <1>8 DEF OnNet, OnCheckFails, OnCreateFails, OnTo, OnBroadcast, Answered, Take, window
    <2> QED
      BY <1>5, <2>1 DEF SessionForms
  <1>9. CASE OnPage
    <2> DEFINE p == Head(messages).task.what
    <2>1. /\ Head(messages).event # "bar" /\ Head(messages).task.step = "page"
          /\ content' = content \/ content' = p
      BY <1>9 DEF OnPage, Answered, Take
    <2>2. Head(messages).task \in Tasks /\ messages # <<>> /\ messages' = Tail(messages)
      BY <1>9, AnsweredStep DEF OnPage
    <2>3. p \in AllPages
      BY <2>1, <2>2, TaskTypes
    <2>4. messages' = messages \/ OfSession(Head(messages).task)
      <3>1. net' = net
        BY <1>9 DEF OnPage, network
      <3>2. messages' # messages => Head(messages).task \in Pending
        BY <2>2, <3>1, TakenAndAsked
      <3> QED
        BY <3>2 DEF Sound
    <2>5. messages' # messages
      <3>1. Len(messages') = Len(messages) - 1 /\ Len(messages) \in Nat
        BY <2>2, Ends1 DEF TypeOK
      <3> QED
        BY <3>1
    <2>6. p = "mytokens" => session # None
      BY <2>1, <2>4, <2>5 DEF OfSession
    <2>7. CASE content' = p
      <3>1. p \notin {"send", "freeze", "login"} /\ (p \in SessionForms => p = "mytokens")
        BY <2>3 DEF AllPages, SessionForms
      <3> QED
        BY <1>0, <1>1, <1>2, <1>3, <1>4, <2>1, <2>6, <2>7, <3>1, SignPlain
    <2> QED
      BY <1>5, <2>1, <2>7
  <1>10. CASE OnShowLogin
    <2>1. messages' = messages /\ messages = <<>> /\ content' = "login" /\ ~signOut
      BY <1>10 DEF OnShowLogin, Input, Idle
    <2>2. session = None \/ LoggingIn
      BY <1>1, <2>1 DEF Sound, BarInv, Announcing, Coming
    <2>3. content' \notin SessionForms
      BY <2>1 DEF SessionForms
    <2> QED
      BY <1>0, <1>1, <1>2, <1>3, <1>4, <2>1, <2>2, <2>3, SignPlain
  <1>11. ASSUME NEW f \in {"freeze", "issue", "modify"}, OpenForm(f) PROVE Sound'
    <2>1. /\ messages' = messages /\ content' = f
          /\ f = "freeze" => freezeAddress' = session
          /\ session # None \/ content \in SessionForms
      BY <1>11 DEF OpenForm, Input, SessionForms
    <2>2. session # None
      BY <2>1 DEF Sound, ContentInv
    <2> QED
      BY <1>0, <1>1, <1>2, <1>3, <1>4, <2>1, <2>2, SignPlain
  <1>12. CASE OnLogin
    <2>1. /\ Head(messages).event # "bar"
          /\ content' = content \/ content' = "none"
          /\ Head(messages).ok => content' # "login"
          /\ Head(messages).ok => owed' = <<Event("hide", TRUE), Event("bar", TRUE)>>
      BY <1>12 DEF OnLogin, Answered, Take
    <2>2. Head(messages).ok => Coming("bar")'
      <3> SUFFICES ASSUME Head(messages).ok PROVE Coming("bar")'
        OBVIOUS
      <3>1. Event("bar", TRUE).event = "bar"
        BY MessageMade
      <3>2. owed' = <<Event("hide", TRUE), Event("bar", TRUE)>>
        BY <2>1
      <3>3. 2 \in DOMAIN owed' /\ owed'[2] = Event("bar", TRUE)
        BY <3>2
      <3> QED
        BY <3>1, <3>3 DEF Coming
    <2>3. "none" \notin SessionForms
      BY DEF SessionForms
    <2> QED
      BY <1>0, <1>1, <1>2, <1>3, <1>4, <2>1, <2>2, <2>3, SignPlain
  <1> QED
    BY <1>6, <1>7, <1>8, <1>9, <1>10, <1>11, <1>12

\* Logging in and out while nothing is under way.
LEMMA SignLogin ==
    ASSUME TypeOK, TypeOK', SignInv, SignOut \/ \E a \in Accounts : ClickLogin(a)
    PROVE  SignInv'
  <1>0. /\ messages = <<>> /\ messages' = <<>> /\ owed = <<>> /\ hasty' = (hasty \/ Busy)
        /\ net' = net /\ misSigned' = misSigned
    BY DEF SignOut, ClickLogin, Ready, Input, Idle, network
  <1>1. CASE hasty \/ Busy
    BY <1>0, <1>1 DEF SignInv
  <1>2. ASSUME ~(hasty \/ Busy) PROVE Sound'
    <2>1. Sound /\ queue = <<>> /\ net = "run"
      BY <1>2 DEF SignInv, Busy, TypeOK
    <2>2. \A i \in DOMAIN messages' : FALSE
      BY <1>0
    <2>3. CASE SignOut
      <3>1. queue' = <<>> /\ session' = None /\ content' = "login"
        BY <2>1, <2>3 DEF SignOut, network
      <3>2. Pending' = {}
        BY <1>0, <3>1 DEF Pending, Line, LineOf
      <3> QED
        BY <1>0, <2>1, <2>2, <3>1, <3>2 DEF Sound, LoginAlone, BarInv, ContentInv, SessionForms
    <2>4. ASSUME NEW a \in Accounts, ClickLogin(a) PROVE Sound'
      <3> DEFINE t == Task("login", "login", a)
      <3>1. /\ t \in Tasks /\ t.step = "login" /\ queue' = Append(queue, t) /\ content = "login"
            /\ session' = session /\ UNCHANGED window /\ messages' = messages
        BY <1>0, <2>4, TaskMade, TaskFields DEF ClickLogin
      <3> HIDE DEF t
      <3>2. session = None
        BY <1>0, <2>1, <3>1 DEF Sound, BarInv, LoggingIn
      <3>3. LoginAlone'
        <4>1. DOMAIN queue' = 1 .. 1
          BY <2>1, <3>1, Append1
        <4>2. \A i \in DOMAIN queue' : i = 1
          BY <4>1
        <4> QED
          BY <2>2, <3>1, <3>2, <4>2 DEF LoginAlone
      <3>4. \A u \in Pending' : OfSession(u)'
        <4>1. Step({}, {"login"})
          BY <2>4, StepsOfLoop
        <4>2. \A u \in Tasks : queue' = Append(queue, u) => OfSession(u)'
          BY <3>1, NewTask, OfSessionFacts
        <4>3. form'["send"].address = form["send"].address
          BY <3>1 DEF window
        <4> QED
          BY <2>1, <3>1, <4>1, <4>2, <4>3, OfSessionKept
      <3> QED
        BY <1>0, <2>1, <3>1, <3>2, <3>3, <3>4 DEF Sound, BarInv, ContentInv, window
    <2> QED
      BY <2>3, <2>4
  <1> QED
    BY <1>1, <1>2 DEF SignInv

\* The task of an answer was under way, and is of the session.
LEMMA TakenOfSession ==
    ASSUME TypeOK, TypeOK', Sound, net' = net, NEW s, Answered(s)
    PROVE  OfSession(Head(messages).task)
  <1>1. messages # <<>> /\ messages' = Tail(messages) /\ Head(messages).task \in Tasks
    BY AnsweredStep
  <1>2. messages' # messages
    <2>1. Len(messages') = Len(messages) - 1 /\ Len(messages) \in Nat
      BY <1>1, Ends1 DEF TypeOK
    <2> QED
      BY <2>1
  <1> QED
    BY <1>1, <1>2, TakenAndAsked DEF Sound

\* The views.
LEMMA SignViews ==
    ASSUME TypeOK, TypeOK', Sound, NEW b \in BOOLEAN,
           \/ \E f \in Views, a \in Accounts : ClickView(f, a, b)
           \/ OnView(b) \/ OnAccountBarLogin(b)
    PROVE  Sound'
  <1>0. misSigned' = FALSE /\ session' = session
    BY DEF ClickView, OnView, OnAccountBarLogin, Sound, TypeOK
  <1>1. ASSUME NEW f \in Views, NEW a \in Accounts, ClickView(f, a, b) PROVE Sound'
    <2> DEFINE t == Task("view", f, a)
    <2>1. Step({}, {"view"}) /\ t \in Tasks /\ f \in AllViews /\ Rpc(t, b)
      BY <1>1, StepsOfForms
    <2>2. t.step = "view" /\ t.what = f
      BY TaskFields
    <2>3. /\ messages' = messages /\ owed = <<>> /\ SetAddress(f, a, b)
          /\ content' = content /\ signOut' = signOut /\ freezeAddress' = freezeAddress
          /\ f \in {"balance", "send"} => a = session
      BY <1>1 DEF ClickView, Ready, Input, Idle
    <2>4. form'["send"].address = IF f = "send" THEN session ELSE form["send"].address
      BY <2>1, <2>3, BalanceAndSend, SetAddressForms DEF TypeOK
    <2> HIDE DEF t
    <2>5. a # None
      BY MainWindowAssumption
    <2>6. OfSession(t)'
      BY <1>0, <2>2, <2>3, <2>4, <2>5 DEF OfSession
    <2>7. \A u \in Tasks : queue' = Append(queue, u) => OfSession(u)'
      BY <2>1, <2>6, NewTask
    <2>8. /\ content' = "send" => form'["send"].address = session
          /\ content' = "freeze" => freezeAddress' = session
      BY <2>3, <2>4 DEF Sound, ContentInv
    <2> QED
      BY <1>0, <2>1, <2>3, <2>4, <2>7, <2>8, SignPlain
  <1>2. CASE OnView(b)
    <2> DEFINE m == Head(messages)
               f == m.task.what
    <2>1. Step({"view"}, {"net"}) /\ f \in AllViews
      BY <1>2, StepsOfForms
    <2>2. /\ owed = <<>> /\ m.event # "bar" /\ m.task.step = "view"
          /\ content' = f /\ signOut' = signOut
      BY <1>2 DEF OnView, Answered, Take
    <2>3. OfSession(m.task)
      BY <1>2, <2>1, TakenOfSession DEF OnView, Step
    <2>4. form'["send"].address = form["send"].address
      <3>1. m.task.of \in Accounts /\ m.ok \in BOOLEAN
        BY <1>2, TaskTypes, AnsweredStep DEF OnView
      <3> QED
        BY <1>2, <2>1, <3>1, BalanceAndSend, OnViewForms DEF TypeOK
    <2>5. \A u \in Tasks : queue' = Append(queue, u) => OfSession(u)'
      <3>1. \A u \in Tasks : queue' = Append(queue, u) => u.step = "net"
        BY <2>1, NewTask DEF Step
      <3> QED
        BY <3>1, OfSessionFacts
    <2>6. /\ f \in {"balance", "send"} => session # None
          /\ f = "send" => form["send"].address = session
      BY <2>2, <2>3 DEF OfSession
    <2>7. f \notin {"login", "freeze"} /\ (f \in SessionForms => f \in {"balance", "send"})
      BY <2>1 DEF AllViews, SessionForms
    <2> QED
      BY <1>0, <2>1, <2>2, <2>4, <2>5, <2>6, <2>7, SignPlain
  <1>3. CASE OnAccountBarLogin(b)
    <2>1. Step({"none"}, {"view"})
      BY <1>3, StepsOfForms
    <2>2. /\ owed = <<>> /\ Head(messages).task.step = "none"
          /\ content' = content /\ freezeAddress' = freezeAddress
          /\ signOut => signOut'
          /\ Head(messages).event = "bar" => signOut'
      BY <1>3, EventStep DEF OnAccountBarLogin
    <2>3. /\ form'["send"] = form["send"]
          /\ \A u \in Tasks : queue' = Append(queue, u) => OfSession(u)'
      <3>1. CASE session = None
        <4>1. form' = form /\ queue' = queue
          BY <1>3, <3>1 DEF OnAccountBarLogin, ShowBalanceList, NoRpc, network
        <4> QED
          BY <4>1, NewTask
      <3>2. CASE session # None
        <4>0. PICK t \in Tasks : t = Task("view", "balance", session)
          BY <3>2, TaskMade, BalanceAndSend DEF TypeOK, Address
        <4>1. t.step = "view" /\ t.what = "balance"
          BY <4>0, TaskFields
        <4>2. SetAddress("balance", session, b)
          BY <1>3, <3>2 DEF OnAccountBarLogin, ShowBalanceList
        <4>3. Rpc(t, b) /\ form'["send"] = form["send"]
          BY <3>2, <4>0, <4>2, BalanceAndSend, SetAddressForms DEF SetAddress, TypeOK, Address
        <4>4. OfSession(t)'
          BY <1>0, <3>2, <4>1 DEF OfSession
        <4> QED
          BY <4>1, <4>3, <4>4, NewTask
      <3> QED
        BY <3>1, <3>2
    <2>4. /\ content' = "send" => form'["send"].address = session
          /\ content' = "freeze" => freezeAddress' = session
      BY <2>2, <2>3 DEF Sound, ContentInv
    <2> QED
      BY <1>0, <2>1, <2>2, <2>3, <2>4, SignPlain
  <1> QED
    BY <1>1, <1>2, <1>3

\* The lists and the transactions.
LEMMA SignAsks ==
    ASSUME TypeOK, TypeOK', Sound, NEW b \in BOOLEAN,
           \/ \E p \in Pages \ {"transactions"} : ClickPage(p, b)
           \/ \E k \in Kinds : ClickTransaction(k, b)
           \/ ShowTransactions(b) \/ OnFrom(b)
           \/ OnCheckPasses(b) \/ OnCreateSigns(b)
    PROVE  Sound'
  <1>0. /\ session' = session /\ signOut' = signOut /\ form' = form /\ content' = content
        /\ freezeAddress' = freezeAddress /\ owed = <<>>
        /\ \/ messages' = messages
           \/ Head(messages).event # "bar" /\ Head(messages).task.step # "login"
    BY DEF ClickPage, ClickTransaction, ShowTransactions, OnFrom, OnCheckPasses, OnCreateSigns,
           Ready, Input, Idle, Answered, Take, window
  <1>1. \E S, T : Step(S, T) /\ "login" \notin T
    BY StepsOfForms, StepsOfTransactions
  <1>2. /\ content' = "send" => form'["send"].address = session
        /\ content' = "freeze" => freezeAddress' = session
        /\ ~misSigned
    BY <1>0 DEF Sound, ContentInv
  <1>3. ASSUME misSigned' = FALSE, NEW t \in Tasks, Rpc(t, b), OfSession(t)'
        PROVE  Sound'
    <2>1. \A u \in Tasks : queue' = Append(queue, u) => OfSession(u)'
      BY <1>3, NewTask
    <2> QED
      BY <1>0, <1>1, <1>2, <1>3, <2>1, SignPlain
  <1>4. ASSUME NEW p \in Pages \ {"transactions"}, ClickPage(p, b) PROVE Sound'
    <2> DEFINE t == Task("page", p, None)
    <2>1. t \in Tasks /\ t.step = "page" /\ t.what = p
      BY <1>4, StepsOfForms, TaskFields
    <2>2. Rpc(t, b) /\ misSigned' = FALSE /\ (p = "mytokens" => session # None)
      BY <1>2, <1>4 DEF ClickPage, TypeOK
    <2> HIDE DEF t
    <2>3. OfSession(t)'
      BY <1>0, <2>1, <2>2 DEF OfSession
    <2> QED
      BY <1>3, <2>1, <2>2, <2>3
  <1>5. CASE ShowTransactions(b) \/ OnFrom(b)
    <2>1. PICK t \in Tasks : t.step \in {"from", "to"} /\ Rpc(t, b)
      BY <1>5, StepsOfForms, TaskFields DEF ShowTransactions, OnFrom
    <2>2. misSigned' = FALSE
      BY <1>2, <1>5 DEF ShowTransactions, OnFrom, TypeOK
    <2> QED
      BY <1>3, <2>1, <2>2, OfSessionFacts
  <1>6. ASSUME NEW k \in Kinds, ClickTransaction(k, b) PROVE Sound'
    <2>0. PICK t \in Tasks : t = Task(IF Checked(k) THEN "check" ELSE "create", k, OwnerOf(k))
      BY <1>6, StepsOfTransactions
    <2>1. t.step \in {"check", "create"} /\ t.of = OwnerOf(k)
      BY <2>0, TaskFields
    <2>2. /\ Rpc(t, b) /\ misSigned' = FALSE /\ content = FormOf(k)
          /\ k \in {"vote", "participate"} => session # None
      BY <1>2, <1>6, <2>0 DEF ClickTransaction, TypeOK
    <2>3. session # None
      <3>1. k \in AllKinds
        BY MainWindowAssumption
      <3>2. k \notin {"vote", "participate"} => content \in SessionForms
        BY <2>2, <3>1 DEF AllKinds, FormOf, SessionForms
      <3> QED
        BY <2>2, <3>2 DEF Sound, ContentInv
    <2>4. OwnerOf(k) = session
      <3>1. CASE k = "send"
        BY <2>2, <3>1 DEF Sound, ContentInv, FormOf, OwnerOf
      <3>2. CASE k = "freeze"
        BY <2>2, <3>2 DEF Sound, ContentInv, FormOf, OwnerOf
      <3> QED
        BY <3>1, <3>2 DEF OwnerOf
    <2>5. OfSession(t)'
      BY <1>0, <2>1, <2>3, <2>4 DEF OfSession
    <2> QED
      BY <1>3, <2>1, <2>2, <2>5
  <1>7. CASE OnCheckPasses(b)
    <2>0. PICK t \in Tasks : t = Task("create", Head(messages).task.what, Head(messages).task.of)
      BY <1>7, StepsOfTransactions
    <2>1. t.step = "create" /\ t.of = Head(messages).task.of
      BY <2>0, TaskFields
    <2>2. Rpc(t, b) /\ misSigned' = FALSE /\ Head(messages).task.step = "check"
      BY <1>2, <1>7, <2>0 DEF OnCheckPasses, Answered, TypeOK
    <2>3. OfSession(Head(messages).task)
      <3>1. net' = net
        BY <2>2 DEF Rpc
      <3> QED
        BY <1>7, <3>1, TakenOfSession DEF OnCheckPasses
    <2>4. OfSession(t)'
      BY <1>0, <2>1, <2>2, <2>3 DEF OfSession
    <2> QED
      BY <1>3, <2>1, <2>2, <2>4
  <1>8. CASE OnCreateSigns(b)
    <2>0. PICK t \in Tasks : t = Task("broadcast", Head(messages).task.what, Head(messages).task.of)
      BY <1>8, StepsOfTransactions
    <2>1. t.step = "broadcast"
      BY <2>0, TaskFields
    <2>2. /\ Rpc(t, b) /\ Head(messages).task.step = "create"
          /\ misSigned' = (Head(messages).task.of # session)
      BY <1>8, <2>0 DEF OnCreateSigns, Answered
    <2>3. OfSession(Head(messages).task)
      <3>1. net' = net
        BY <2>2 DEF Rpc
      <3> QED
        BY <1>8, <3>1, TakenOfSession DEF OnCreateSigns
    <2>4. misSigned' = FALSE
      BY <2>2, <2>3 DEF OfSession
    <2> QED
      BY <1>3, <2>1, <2>2, <2>4, OfSessionFacts
  <1> QED
    BY <1>4, <1>5, <1>6, <1>7, <1>8

\* The network thread, and the messages that a handler posts.
LEMMA SignPosted ==
    ASSUME TypeOK, TypeOK', Sound, NetworkNext \/ Post
    PROVE  Sound'
  <1>0. messages \in Seq(Callbacks \cup Events) /\ owed \in Seq(Events) /\ queue \in Seq(Tasks)
    BY DEF TypeOK
  <1>1. Pending' = Pending /\ misSigned' = misSigned
        /\ (LoggingIn => LoggingIn') /\ (Announcing => Announcing')
    <2>1. misSigned' = misSigned
      BY DEF NetworkNext, LogIn, PostCallback, EndTask, Post, history
    <2> QED
      BY <2>1, PendingKept, AnnouncingPosted
  <1>2. CASE LogIn
    <2>1. /\ 1 \in DOMAIN queue /\ queue[1].step = "login" /\ Head(queue) = queue[1] /\ queue # <<>>
          /\ net = "run"
      BY <1>0, <1>2, Ends1 DEF LogIn
    <2>2. session = None
      BY <2>1 DEF Sound, LoginAlone
    <2>3. /\ net' = "loggedIn" /\ queue' = queue /\ messages' = messages
          /\ content' = content /\ signOut' = signOut /\ form' = form /\ freezeAddress' = freezeAddress
      BY <1>2 DEF LogIn, loop, window
    <2>4. LoginAlone'
      <3>1. \A i \in DOMAIN messages : messages[i].task.step # "login"
        BY <2>1 DEF Sound, LoginAlone
      <3> QED
        BY <2>3, <3>1 DEF Sound, LoginAlone
    <2>5. LoggingIn'
      BY <2>3 DEF LoggingIn
    <2>6. ContentInv'
      BY <2>2, <2>3 DEF Sound, ContentInv, SessionForms
    <2>7. ASSUME NEW t \in Pending PROVE OfSession(t)'
      <3>1. OfSession(t)
        BY DEF Sound
      <3> QED
        BY <2>2, <3>1 DEF OfSession
    <2> QED
      BY <1>1, <2>4, <2>5, <2>6, <2>7 DEF Sound, BarInv, Announcing
  <1>3. ASSUME session' = session, content' = content, signOut' = signOut, form' = form,
               freezeAddress' = freezeAddress, LoginAlone'
        PROVE  Sound'
    <2>1. ContentInv' /\ BarInv'
      BY <1>1, <1>3 DEF Sound, ContentInv, BarInv
    <2>2. ASSUME NEW t \in Pending PROVE OfSession(t)'
      <3>1. OfSession(t)
        BY DEF Sound
      <3> QED
        BY <1>3, <3>1 DEF OfSession
    <2> QED
      BY <1>1, <1>3, <2>1, <2>2 DEF Sound
  <1>4. ASSUME NEW e \in Callbacks \cup Events, messages' = Append(messages, e),
               NEW i \in DOMAIN messages'
        PROVE  (i \in DOMAIN messages /\ messages'[i] = messages[i]) \/ messages'[i] = e
    <2>1. /\ \A j \in DOMAIN messages : messages'[j] = messages[j]
          /\ DOMAIN messages' = 1 .. Len(messages) + 1 /\ Len(messages) \in Nat
          /\ DOMAIN messages = 1 .. Len(messages)
          /\ messages'[Len(messages) + 1] = e
      BY <1>0, <1>4, Append1
    <2>2. i \in DOMAIN messages \/ i = Len(messages) + 1
      BY <2>1
    <2> QED
      BY <2>1, <2>2
  <1>5. ASSUME NEW ok \in BOOLEAN, PostCallback(ok) PROVE Sound'
    <2> DEFINE c == Message("callback", Head(queue), ok)
    <2>1. queue # <<>> /\ Head(queue) \in Tasks /\ Head(queue) = queue[1] /\ 1 \in DOMAIN queue
      BY <1>0, <1>5, Ends1 DEF PostCallback
    <2>2. c \in Callbacks \cup Events /\ c.task = queue[1] /\ c.ok = ok
      BY <2>1, MessageMade
    <2>3. /\ messages' = Append(messages, c) /\ queue' = queue /\ net' = "posted" /\ session' = session
          /\ net \in {"run", "loggedIn"}
          /\ queue[1].step = "login" => ok = (net = "loggedIn")
      BY <1>5, <2>1 DEF PostCallback
    <2> HIDE DEF c
    <2>4. queue[1].step = "login" => ok \/ session = None
      BY <2>1, <2>3 DEF Sound, LoginAlone
    <2>5. ASSUME NEW i \in DOMAIN messages', messages'[i].task.step = "login"
          PROVE  messages'[i].ok \/ session = None
      <3>1. CASE i \in DOMAIN messages /\ messages'[i] = messages[i]
        BY <2>5, <3>1 DEF Sound, LoginAlone
      <3>2. CASE messages'[i] = c
        BY <2>2, <2>4, <2>5, <3>2
      <3> QED
        BY <1>4, <2>2, <2>3, <3>1, <3>2
    <2>6. LoginAlone'
      BY <2>3, <2>5 DEF Sound, LoginAlone
    <2> QED
      BY <1>3, <1>5, <2>6 DEF PostCallback, window
  <1>6. CASE EndTask
    <2>1. queue # <<>> /\ queue' = Tail(queue) /\ session' = session /\ messages' = messages
      BY <1>6 DEF EndTask, TypeOK, loop
    <2>2. \A i \in DOMAIN queue' : queue'[i].step # "login"
      <3> TAKE i \in DOMAIN queue'
      <3>1. i + 1 \in DOMAIN queue /\ queue'[i] = queue[i + 1] /\ i + 1 # 1
        BY <1>0, <2>1, Ends1
      <3> QED
        BY <3>1 DEF Sound, LoginAlone
    <2>3. queue' # <<>> => Head(queue').step # "login"
      <3>1. queue' \in Seq(Tasks)
        BY <1>0, <2>1, Ends1
      <3> QED
        BY <2>2, <3>1, Ends1
    <2>4. LoginAlone'
      BY <2>1, <2>2, <2>3 DEF Sound, LoginAlone
    <2> QED
      BY <1>3, <1>6, <2>4 DEF EndTask, window
  <1>7. CASE Post
    <2> DEFINE e == Head(owed)
    <2>1. e \in Callbacks \cup Events /\ e \in Events
      BY <1>0, <1>7, Ends1 DEF Post
    <2>2. messages' = Append(messages, e) /\ queue' = queue /\ net' = net /\ session' = session
      BY <1>7 DEF Post, network
    <2> HIDE DEF e
    <2>3. e.task.step # "login"
      BY <2>1, MessageTypes, NoTaskIsNone
    <2>4. \A i \in DOMAIN messages' :
              messages'[i].task.step = "login" => i \in DOMAIN messages /\ messages'[i] = messages[i]
      BY <1>4, <2>1, <2>2, <2>3
    <2>5. LoginAlone'
      BY <2>2, <2>4 DEF Sound, LoginAlone
    <2> QED
      BY <1>3, <1>7, <2>5 DEF Post, window
  <1> QED
    BY <1>2, <1>5, <1>6, <1>7 DEF NetworkNext

LEMMA SignInit == Init => SignInv
  <1> SUFFICES ASSUME Init PROVE Sound
    BY DEF SignInv
  <1>1. Pending = {}
    BY DEF Init, Pending, Line, LineOf
  <1> QED
    BY <1>1 DEF Init, Sound, LoginAlone, BarInv, ContentInv, SessionForms

LEMMA SignNext == TypeOK /\ TypeOK' /\ SignInv /\ [Next]_vars => SignInv'
  <1> SUFFICES ASSUME TypeOK, TypeOK', SignInv, [Next]_vars PROVE SignInv'
    OBVIOUS
  <1>1. CASE SignOut \/ \E a \in Accounts : ClickLogin(a)
    BY <1>1, SignLogin
  <1>2. CASE hasty /\ ~(SignOut \/ \E a \in Accounts : ClickLogin(a))
    <2>1. hasty'
      BY <1>2 DEF Next, UserNext, Rest, NetworkNext, MessageNext, LogIn, PostCallback, EndTask, Post,
                  OnShowStatus, OnHideStatus, Timer, OnShowLogin, OnLogin, CheckLoginFails, ClickView,
                  OnView, OnAccountBarLogin, OnNet, ShowAddresses, ClickPage, OnPage, ShowTransactions,
                  OnFrom, OnTo, OpenForm, ClickTransaction, OnCheckPasses, OnCheckFails, OnCreateSigns,
                  OnCreateFails, OnBroadcast, history, vars
    <2> QED
      BY <2>1 DEF SignInv
  <1>3. CASE Sound /\ ~(SignOut \/ \E a \in Accounts : ClickLogin(a))
    <2>1. Sound'
      <3>1. CASE NetworkNext
        BY <1>3, <3>1, SignPosted
      <3>2. CASE MessageNext
        BY <1>3, <3>2, SignPosted, SignLoop, SignViews, SignAsks DEF MessageNext
      <3>3. CASE UserNext
        BY <1>3, <3>3, SignLoop, SignViews, SignAsks DEF UserNext
      <3>4. CASE Timer
        BY <1>3, <3>4, SignLoop
      <3>5. CASE UNCHANGED vars
        BY <1>3, <3>5 DEF vars, network, loop, window, history, Sound, LoginAlone, BarInv, ContentInv,
                          Announcing, LoggingIn, Coming, OfSession, Pending, Line
      <3> QED
        BY <3>1, <3>2, <3>3, <3>4, <3>5 DEF Next, Rest
    <2> QED
      BY <2>1 DEF SignInv
  <1> QED
    BY <1>1, <1>2, <1>3 DEF SignInv

\* The key that signs a transaction, that of whoever is logged in when the node has made
\* it, is that of its owner, if accounts are only switched when nothing is under way.
THEOREM SignedByOwnerAlways == Spec => []SignedByOwner
  <1>1. Init => TypeOK /\ SignInv
    BY TypeInit, SignInit
  <1>2. TypeOK /\ SignInv /\ [Next]_vars => TypeOK' /\ SignInv'
    BY TypeNext, SignNext
  <1>3. SignInv => SignedByOwner
    BY DEF SignInv, Sound, SignedByOwner
  <1> QED
    BY <1>1, <1>2, <1>3, PTL DEF Spec
-----------------------------------------------------------------------------
(* What SignIn says of logging in and out.                                  *)

News(q) == Cardinality(Successes(q))
BarIn(o) == \E i \in DOMAIN o : o[i].event = "bar"

\* Numbers that are all one less than others are as many.
LEMMA ShiftCount ==
    ASSUME NEW S \in SUBSET Nat, IsFiniteSet(S), NEW T \in SUBSET Nat,
           \A i \in S : i - 1 \in T, \A j \in T : j + 1 \in S
    PROVE  Cardinality(T) = Cardinality(S)
  <1> DEFINE f == [i \in S |-> i - 1]
  <1>1. f \in [S -> T] /\ \A i \in S : f[i] = i - 1
    OBVIOUS
  <1>2. \A a, b \in S : f[a] = f[b] => a = b
    OBVIOUS
  <1>3. \A j \in T : \E i \in S : f[i] = j
    <2> SUFFICES ASSUME NEW j \in T PROVE \E i \in S : f[i] = j
      OBVIOUS
    <2>1. j + 1 \in S /\ f[j + 1] = j
      OBVIOUS
    <2> QED
      BY <2>1
  <1> HIDE DEF f
  <1>4. DOMAIN f = S
    BY <1>1
  <1>5. f \in Bijection(S, T)
    BY <1>1, <1>2, <1>3, <1>4 DEF Bijection, Injection, Surjection, IsInjective
  <1>6. ExistsBijection(S, T)
    BY <1>5 DEF ExistsBijection
  <1> QED
    BY <1>6, FS_Bijection

\* The successes that are posted can be counted.
LEMMA SuccessesFinite ==
    ASSUME NEW q \in Seq(Callbacks \cup Events)
    PROVE  Successes(q) \in SUBSET Nat /\ IsFiniteSet(Successes(q)) /\ News(q) \in Nat
  <1>1. DOMAIN q = 1 .. Len(q) /\ Len(q) \in Nat
    OBVIOUS
  <1>2. IsFiniteSet(1 .. Len(q))
    BY <1>1, FS_Interval
  <1>3. Successes(q) \in SUBSET (1 .. Len(q))
    BY <1>1 DEF Successes
  <1>4. IsFiniteSet(Successes(q))
    BY <1>2, <1>3, FS_Subset
  <1> QED
    BY <1>3, <1>4, FS_CardinalityType DEF News

\* Only a success that is posted adds to them.
LEMMA NewsAppend ==
    ASSUME NEW q \in Seq(Callbacks \cup Events), NEW m \in Callbacks \cup Events
    PROVE  News(Append(q, m)) =
               IF m.task.step = "login" /\ m.ok THEN News(q) + 1 ELSE News(q)
  <1> DEFINE r == Append(q, m)
             n == Len(q) + 1
  <1>1. /\ DOMAIN r = 1 .. n /\ DOMAIN q = 1 .. Len(q)
        /\ r[n] = m /\ \A i \in 1 .. Len(q) : r[i] = q[i]
    OBVIOUS
  <1>2. /\ n \in 1 .. n /\ n \notin 1 .. Len(q)
        /\ \A i \in 1 .. n : i = n \/ i \in 1 .. Len(q)
        /\ \A i \in 1 .. Len(q) : i \in 1 .. n
    OBVIOUS
  <1> HIDE DEF r, n
  <1>3. Successes(r) = IF m.task.step = "login" /\ m.ok THEN Successes(q) \cup {n} ELSE Successes(q)
    BY <1>1, <1>2 DEF Successes
  <1>4. n \notin Successes(q)
    BY <1>1, <1>2 DEF Successes
  <1>5. Cardinality(Successes(q) \cup {n}) = Cardinality(Successes(q)) + 1
    BY <1>4, SuccessesFinite, FS_AddElement
  <1> QED
    BY <1>3, <1>5 DEF r, News

\* Only a success that is taken is one less; the others move up.
LEMMA NewsTail ==
    ASSUME NEW q \in Seq(Callbacks \cup Events), q # <<>>
    PROVE  /\ News(Tail(q)) =
                  IF Head(q).task.step = "login" /\ Head(q).ok THEN News(q) - 1 ELSE News(q)
           /\ Head(q).task.step = "login" /\ Head(q).ok => News(q) > 0
  <1> DEFINE r == Tail(q)
             A == Successes(q)
             S == A \ {1}
  <1>1. /\ r \in Seq(Callbacks \cup Events)
        /\ Head(q) = q[1] /\ 1 \in DOMAIN q
        /\ DOMAIN q = 1 .. Len(q) /\ DOMAIN r = 1 .. Len(q) - 1 /\ Len(q) \in Nat
        /\ \A i \in DOMAIN r : i + 1 \in DOMAIN q /\ r[i] = q[i + 1]
        /\ \A i \in DOMAIN q : i = 1 \/ (i - 1 \in DOMAIN r /\ r[i - 1] = q[i])
    BY Ends1
  <1>2. \A i \in DOMAIN r : i + 1 # 1
    BY <1>1
  <1> HIDE DEF r
  <1>3. 1 \in A <=> Head(q).task.step = "login" /\ Head(q).ok
    BY <1>1 DEF Successes
  <1>4. \A i \in S : i - 1 \in Successes(r)
    BY <1>1 DEF Successes
  <1>5. \A j \in Successes(r) : j + 1 \in S
    BY <1>1, <1>2 DEF Successes
  <1>6. A \in SUBSET Nat /\ IsFiniteSet(A) /\ Successes(r) \in SUBSET Nat /\ Cardinality(A) \in Nat
    BY <1>1, SuccessesFinite DEF News
  <1> HIDE DEF A
  <1>7. /\ IsFiniteSet(S) /\ Cardinality(S) \in Nat
        /\ Cardinality(S) = IF 1 \in A THEN Cardinality(A) - 1 ELSE Cardinality(A)
    BY <1>6, FS_RemoveElement, FS_CardinalityType
  <1>8. S \in SUBSET Nat
    BY <1>6
  <1> HIDE DEF S
  <1>9. Cardinality(Successes(r)) = Cardinality(S)
    BY <1>4, <1>5, <1>6, <1>7, <1>8, ShiftCount
  <1>10. News(q) = Cardinality(A) /\ News(r) = Cardinality(Successes(r))
    BY DEF News, A
  <1> QED
    BY <1>3, <1>6, <1>7, <1>9, <1>10 DEF r

\* Which handlers are about to post the event that shows the button.
LEMMA BarsIn ==
    /\ ~BarIn(<<>>)
    /\ \A b, c \in BOOLEAN :
          /\ ~BarIn(<<Event("show", b)>>) /\ ~BarIn(<<Event("hide", b)>>)
          /\ ~BarIn(<<Event("hide", b), Event("balanceList", c)>>)
          /\ BarIn(<<Event("hide", b), Event("bar", c)>>)
  BY MessageMade DEF BarIn

\* The event among the messages when one is taken or posted.
LEMMA BarTail ==
    ASSUME NEW s \in Seq(Callbacks \cup Events), s # <<>>
    PROVE  BarIn(s) <=> Head(s).event = "bar" \/ BarIn(Tail(s))
  <1>1. /\ Head(s) = s[1] /\ 1 \in DOMAIN s
        /\ \A i \in DOMAIN Tail(s) : i + 1 \in DOMAIN s /\ Tail(s)[i] = s[i + 1]
        /\ \A i \in DOMAIN s : i = 1 \/ (i - 1 \in DOMAIN Tail(s) /\ Tail(s)[i - 1] = s[i])
    BY Ends1
  <1> QED
    BY <1>1, ZenonT(60) DEF BarIn

LEMMA BarAppend ==
    ASSUME NEW s \in Seq(Callbacks \cup Events), NEW e \in Callbacks \cup Events
    PROVE  BarIn(Append(s, e)) <=> BarIn(s) \/ e.event = "bar"
  <1>1. /\ DOMAIN s = 1 .. Len(s) /\ DOMAIN Append(s, e) = 1 .. Len(s) + 1 /\ Len(s) \in Nat
        /\ \A i \in DOMAIN s : i \in DOMAIN Append(s, e) /\ Append(s, e)[i] = s[i]
        /\ Append(s, e)[Len(s) + 1] = e
    BY Append1
  <1>2. /\ \A i \in DOMAIN Append(s, e) : i \in DOMAIN s \/ i = Len(s) + 1
        /\ Len(s) + 1 \in DOMAIN Append(s, e)
    BY <1>1
  <1> QED
    BY <1>1, <1>2 DEF BarIn

\* What SignIn is told of the window's state.
LEMMA ComingBar ==
    /\ Coming("bar") <=> BarIn(messages) \/ BarIn(owed)
    /\ Coming("bar")' <=> BarIn(messages') \/ BarIn(owed')
  BY DEF Coming, BarIn

\* A task at the end of the queue is only looked at if there is no other.
LEMMA TaskAppend ==
    ASSUME NetworkOK, NEW t \in Tasks, queue' = Append(queue, t), net' = net
    PROVE  SignInTask' = IF queue = <<>> /\ t.step = "login" THEN "looking" ELSE SignInTask
  <1>1. queue' # <<>> /\ Head(queue') = IF queue = <<>> THEN t ELSE Head(queue)
    BY Append1 DEF NetworkOK
  <1>2. CASE queue = <<>>
    <2>1. net = "run" /\ Head(queue') = t /\ SignInTask = "none"
      BY <1>1, <1>2 DEF NetworkOK, SignInTask
    <2> QED
      BY <1>1, <1>2, <2>1 DEF SignInTask
  <1>3. CASE queue # <<>>
    <2>1. Head(queue') = Head(queue)
      BY <1>1, <1>3
    <2> QED
      BY <1>1, <1>3, <2>1 DEF SignInTask
  <1> QED
    BY <1>2, <1>3

\* A step that neither asks for a login nor takes the answer to one.
LEMMA SignInQuiet ==
    ASSUME TypeOK, NEW S, NEW T, Step(S, T), "login" \notin S, "login" \notin T
    PROVE  SignInTask' = SignInTask /\ News(messages') = News(messages)
  <1>0. NetworkOK /\ messages \in Seq(Callbacks \cup Events)
    BY TypeParts DEF LoopOK
  <1>1. SignInTask' = SignInTask
    <2>1. CASE queue' = queue
      BY <2>1 DEF Step, SignInTask
    <2>2. ASSUME NEW t \in Tasks, t.step \in T, queue' = Append(queue, t)
          PROVE  SignInTask' = SignInTask
      BY <1>0, <2>2, TaskAppend DEF Step
    <2> QED
      BY <2>1, <2>2 DEF Step
  <1>2. News(messages') = News(messages)
    <2>1. CASE messages' = messages
      BY <2>1
    <2>2. CASE messages # <<>> /\ messages' = Tail(messages) /\ Head(messages).task.step \in S
      BY <1>0, <2>2, NewsTail
    <2> QED
      BY <2>1, <2>2 DEF Step
  <1> QED
    BY <1>1, <1>2

\* If it has nothing to do with the account bar either, it is no step of SignIn.
LEMMA SignInPlain ==
    ASSUME TypeOK, NEW S, NEW T, Step(S, T), "login" \notin S, "login" \notin T,
           session' = session, signOut' = signOut, owed = <<>>, ~BarIn(owed'),
           messages' # messages => Head(messages).event # "bar"
    PROVE  UNCHANGED SI!signInVars
  <1>1. SignInTask' = SignInTask /\ News(messages') = News(messages)
    BY SignInQuiet
  <1>2. BarIn(messages') <=> BarIn(messages)
    <2>1. messages \in Seq(Callbacks \cup Events)
      BY TypeParts DEF LoopOK
    <2> QED
      BY <2>1, BarTail DEF Step
  <1>3. Coming("bar")' <=> Coming("bar")
    BY <1>2, ComingBar, BarsIn
  <1>4. (signOut \/ Coming("bar"))' = (signOut \/ Coming("bar"))
    BY <1>3
  <1> QED
    BY <1>1, <1>4 DEF SI!signInVars, News

\* The network thread's steps are SignIn's.
LEMMA SignInNetwork ==
    ASSUME TypeOK, NetworkNext
    PROVE  [SI!SignInNext]_(SI!signInVars)
  <1>0. /\ NetworkOK /\ messages \in Seq(Callbacks \cup Events)
        /\ queue # <<>> => Head(queue) \in Tasks
    BY TypeParts, Ends1 DEF LoopOK, NetworkOK
  <1>1. CASE LogIn
    <2>1. /\ SignInTask = "looking" /\ SignInTask' = "found"
          /\ UNCHANGED <<messages, owed, signOut>>
      BY <1>1 DEF LogIn, SignInTask, loop, window
    <2>2. session' \in Accounts
      BY <1>0, <1>1, TaskTypes DEF LogIn
    <2>3. Coming("bar")' = Coming("bar")
      BY <2>1 DEF Coming
    <2>4. SI!Found
      BY <2>1, <2>2, <2>3 DEF SI!Found
    <2> QED
      BY <2>4 DEF SI!SignInNext
  <1>2. ASSUME NEW ok \in BOOLEAN, PostCallback(ok)
        PROVE  [SI!SignInNext]_(SI!signInVars)
    <2> DEFINE m == Message("callback", Head(queue), ok)
    <2>1. /\ queue # <<>> /\ queue' = queue /\ net' = "posted" /\ net # "posted"
          /\ Head(queue) \in Tasks
          /\ messages' = Append(messages, m)
          /\ UNCHANGED <<session, owed, signOut>>
      BY <1>0, <1>2 DEF PostCallback, window
    <2>2. /\ m \in Callbacks \cup Events
          /\ m.event = "callback" /\ m.task = Head(queue) /\ m.ok = ok
      BY <2>1, MessageMade
    <2> HIDE DEF m
    <2>3. Coming("bar")' <=> Coming("bar")
      BY <1>0, <2>1, <2>2, BarAppend, ComingBar
    <2>4. (signOut \/ Coming("bar"))' = (signOut \/ Coming("bar"))
      BY <2>1, <2>3
    <2>5. News(messages') =
              IF Head(queue).step = "login" /\ ok THEN News(messages) + 1 ELSE News(messages)
      BY <1>0, <2>1, <2>2, NewsAppend
    <2>6. SignInTask' = "none"
      BY <2>1 DEF SignInTask
    <2>7. CASE Head(queue).step # "login"
      <3>1. queue # <<>> /\ net = "run"
        BY <1>0, <2>1, <2>7 DEF NetworkOK
      <3>2. SignInTask = "none"
        BY <2>7, <3>1 DEF SignInTask
      <3>3. News(messages') = News(messages)
        BY <2>5, <2>7
      <3> QED
        BY <2>1, <2>4, <2>6, <3>2, <3>3 DEF SI!signInVars, News
    <2>8. CASE Head(queue).step = "login" /\ ok
      <3>1. SignInTask = "found" /\ News(messages') = News(messages) + 1
        BY <1>2, <2>1, <2>5, <2>8 DEF PostCallback, SignInTask
      <3>2. SI!Succeed
        BY <2>1, <2>4, <2>6, <3>1 DEF SI!Succeed, News
      <3> QED
        BY <3>2 DEF SI!SignInNext
    <2>9. CASE Head(queue).step = "login" /\ ~ok
      <3>1. SignInTask = "looking" /\ News(messages') = News(messages)
        BY <1>2, <2>1, <2>5, <2>9 DEF PostCallback, SignInTask
      <3>2. SI!Fail
        BY <2>1, <2>4, <2>6, <3>1 DEF SI!Fail, News
      <3> QED
        BY <3>2 DEF SI!SignInNext
    <2> QED
      BY <2>7, <2>8, <2>9
  <1>3. CASE EndTask
    <2>1. /\ SignInTask = "none" /\ net' = "run"
          /\ UNCHANGED <<session, messages, owed, signOut>>
      BY <1>3 DEF EndTask, SignInTask, loop, window
    <2>2. SignInTask' \in {"none", "looking"}
      BY <2>1 DEF SignInTask
    <2>3. (signOut \/ Coming("bar"))' = (signOut \/ Coming("bar"))
      BY <2>1 DEF Coming
    <2>4. CASE SignInTask' = "none"
      BY <2>1, <2>3, <2>4 DEF SI!signInVars
    <2>5. CASE SignInTask' = "looking"
      <3>1. SI!Begin
        BY <2>1, <2>3, <2>5 DEF SI!Begin
      <3> QED
        BY <3>1 DEF SI!SignInNext
    <2> QED
      BY <2>2, <2>4, <2>5
  <1> QED
    BY <1>1, <1>2, <1>3 DEF NetworkNext

\* A login that is asked for begins at once if nothing else is under way, and an
\* answered one is told to the account bar if it was a success.
LEMMA SignInLogin ==
    ASSUME TypeOK, OnLogin \/ SignOut \/ \E a \in Accounts : ClickLogin(a)
    PROVE  [SI!SignInNext]_(SI!signInVars)
  <1>0. NetworkOK /\ messages \in Seq(Callbacks \cup Events) /\ signOut \in BOOLEAN
    BY TypeParts DEF LoopOK, WindowOK
  <1>1. ASSUME NEW a \in Accounts, ClickLogin(a) PROVE [SI!SignInNext]_(SI!signInVars)
    <2> DEFINE t == Task("login", "login", a)
    <2>1. /\ queue' = Append(queue, t) /\ net' = net
          /\ messages = <<>> /\ owed = <<>> /\ owed' = <<Event("show", FALSE)>>
          /\ UNCHANGED <<session, messages, signOut>>
      BY <1>1 DEF ClickLogin, Ready, Input, Idle, window
    <2>2. t \in Tasks /\ t.step = "login"
      BY TaskMade, TaskFields
    <2> HIDE DEF t
    <2>3. SignInTask' = IF queue = <<>> THEN "looking" ELSE SignInTask
      BY <1>0, <2>1, <2>2, TaskAppend
    <2>4. Coming("bar")' <=> Coming("bar")
      BY <2>1, ComingBar, BarsIn
    <2>5. (signOut \/ Coming("bar"))' = (signOut \/ Coming("bar"))
      BY <2>1, <2>4
    <2>6. CASE queue # <<>>
      BY <2>1, <2>3, <2>5, <2>6 DEF SI!signInVars
    <2>7. CASE queue = <<>>
      <3>1. SignInTask = "none"
        BY <1>0, <2>7 DEF NetworkOK, SignInTask
      <3>2. SI!Begin
        BY <2>1, <2>3, <2>5, <2>7, <3>1 DEF SI!Begin
      <3> QED
        BY <3>2 DEF SI!SignInNext
    <2> QED
      BY <2>6, <2>7
  <1>2. CASE OnLogin
    <2>1. /\ messages # <<>> /\ messages' = Tail(messages) /\ owed = <<>>
          /\ Head(messages).task.step = "login" /\ Head(messages).ok \in BOOLEAN
          /\ Head(messages).event = "callback"
      BY <1>2, AnsweredStep DEF OnLogin, Answered, Take
    <2>2. UNCHANGED <<session, queue, net, signOut>>
      BY <1>2 DEF OnLogin, network
    <2>3. SignInTask' = SignInTask
      BY <2>2 DEF SignInTask
    <2>4. CASE Head(messages).ok
      <3>1. owed' = <<Event("hide", TRUE), Event("bar", TRUE)>>
        BY <1>2, <2>4 DEF OnLogin
      <3>2. BarIn(owed')
        BY <3>1, BarsIn
      <3>3. (signOut \/ Coming("bar"))' = TRUE
        BY <3>2, ComingBar
      <3>4. News(messages) > 0 /\ News(messages') = News(messages) - 1
        BY <1>0, <2>1, <2>4, NewsTail
      <3>5. SI!Tell
        BY <2>2, <2>3, <3>3, <3>4 DEF SI!Tell, News
      <3> QED
        BY <3>5 DEF SI!SignInNext
    <2>5. CASE ~Head(messages).ok
      <3>1. owed' = <<Event("hide", TRUE)>>
        BY <1>2, <2>5 DEF OnLogin
      <3>2. ~BarIn(owed') /\ ~BarIn(owed)
        BY <2>1, <3>1, BarsIn
      <3>3. BarIn(messages') <=> BarIn(messages)
        BY <1>0, <2>1, BarTail
      <3>4. Coming("bar")' <=> Coming("bar")
        BY <3>2, <3>3, ComingBar
      <3>5. (signOut \/ Coming("bar"))' = (signOut \/ Coming("bar"))
        BY <2>2, <3>4
      <3>6. News(messages') = News(messages)
        BY <1>0, <2>1, <2>5, NewsTail
      <3> QED
        BY <2>2, <2>3, <3>5, <3>6 DEF SI!signInVars, News
    <2> QED
      BY <2>1, <2>4, <2>5
  <1>3. CASE SignOut
    <2>1. /\ messages = <<>> /\ owed = <<>> /\ signOut /\ session' = None /\ signOut' = FALSE
          /\ UNCHANGED <<messages, owed, queue, net>>
      BY <1>3 DEF SignOut, Input, Idle, network
    <2>2. SignInTask' = SignInTask
      BY <2>1 DEF SignInTask
    <2>3. ~Coming("bar")'
      BY <2>1, ComingBar, BarsIn
    <2>4. (signOut \/ Coming("bar"))' = FALSE /\ (signOut \/ Coming("bar"))
      BY <2>1, <2>3
    <2>5. SI!Leave
      BY <2>1, <2>2, <2>4 DEF SI!Leave
    <2> QED
      BY <2>5 DEF SI!SignInNext
  <1> QED
    BY <1>1, <1>2, <1>3

\* The message loop's own steps.
LEMMA SignInLoop ==
    ASSUME TypeOK,
           \/ Post \/ OnShowStatus \/ OnHideStatus \/ Timer
           \/ OnShowLogin \/ CheckLoginFails \/ ShowAddresses \/ \E f : OpenForm(f)
    PROVE  UNCHANGED SI!signInVars
  <1>0. messages \in Seq(Callbacks \cup Events) /\ owed \in Seq(Events)
    BY TypeParts DEF LoopOK
  <1>1. CASE Post
    <2>1. /\ owed # <<>> /\ messages' = Append(messages, Head(owed)) /\ owed' = Tail(owed)
          /\ UNCHANGED <<session, queue, net, signOut>>
      BY <1>1 DEF Post, network, window
    <2>2. Head(owed) \in Events /\ owed \in Seq(Callbacks \cup Events)
      BY <1>0, <2>1
    <2>3. Head(owed) \in Callbacks \cup Events /\ Head(owed).task.step # "login"
      BY <2>2, MessageTypes, NoTaskIsNone
    <2>4. SignInTask' = SignInTask
      BY <2>1 DEF SignInTask
    <2>5. News(messages') = News(messages)
      BY <1>0, <2>1, <2>3, NewsAppend
    <2>6. /\ BarIn(messages') <=> BarIn(messages) \/ Head(owed).event = "bar"
          /\ BarIn(owed) <=> Head(owed).event = "bar" \/ BarIn(owed')
      BY <1>0, <2>1, <2>2, <2>3, BarAppend, BarTail
    <2>7. Coming("bar")' <=> Coming("bar")
      BY <2>6, ComingBar
    <2>8. (signOut \/ Coming("bar"))' = (signOut \/ Coming("bar"))
      BY <2>1, <2>7
    <2> QED
      BY <2>1, <2>4, <2>5, <2>8 DEF SI!signInVars, News
  <1>2. CASE OnShowStatus \/ OnHideStatus
    <2>1. /\ Step({"none"}, {}) /\ owed' = owed /\ UNCHANGED <<session, signOut>>
          /\ owed = <<>> /\ Head(messages).event # "bar"
      BY <1>2, StepsOfLoop DEF OnShowStatus, OnHideStatus, Take, window
    <2> QED
      BY <2>1, BarsIn, SignInPlain
  <1>3. CASE Timer
    <2>1. Step({}, {}) /\ owed' = owed /\ owed = <<>> /\ UNCHANGED <<messages, session, signOut>>
      BY <1>3, StepsOfLoop DEF Timer, Idle, loop, window
    <2> QED
      BY <2>1, BarsIn, SignInPlain
  <1>4. CASE OnShowLogin \/ ShowAddresses \/ \E f : OpenForm(f)
    <2>1. Step({}, {}) /\ owed' = owed /\ owed = <<>> /\ UNCHANGED <<messages, session, signOut>>
      BY <1>4, StepsOfLoop DEF OnShowLogin, ShowAddresses, OpenForm, Input, Idle
    <2> QED
      BY <2>1, BarsIn, SignInPlain
  <1>5. CASE CheckLoginFails
    <2>1. /\ Step({}, {}) /\ owed = <<>> /\ owed' = <<Event("hide", TRUE)>>
          /\ UNCHANGED <<messages, session, signOut>>
      BY <1>5, StepsOfLoop DEF CheckLoginFails, Input, Idle, window
    <2> QED
      BY <2>1, BarsIn, SignInPlain
  <1> QED
    BY <1>1, <1>2, <1>3, <1>4, <1>5

\* The answers that have nothing to do with logging in.
LEMMA SignInAnswers ==
    ASSUME TypeOK, NEW b \in BOOLEAN,
           \/ OnNet \/ OnPage \/ OnTo \/ OnCheckFails \/ OnCreateFails
           \/ OnView(b) \/ OnFrom(b) \/ OnCheckPasses(b) \/ OnCreateSigns(b) \/ OnBroadcast(b)
    PROVE  UNCHANGED SI!signInVars
  <1>1. \E S, T : Step(S, T) /\ "login" \notin S /\ "login" \notin T
    <2>1. \/ Step({"net"}, {}) \/ Step({"page"}, {}) \/ Step({"to"}, {})
          \/ Step({"check"}, {}) \/ Step({"create"}, {}) \/ Step({"view"}, {"net"})
          \/ Step({"from"}, {"to"}) \/ Step({"check"}, {"create"})
          \/ Step({"create"}, {"broadcast"}) \/ Step({"broadcast"}, {})
      BY StepsOfLoop, StepsOfForms, StepsOfTransactions
    <2> QED
      BY <2>1
  <1>2. \E s : Answered(s)
    BY DEF OnNet, OnPage, OnTo, OnCheckFails, OnCreateFails, OnView, OnFrom, OnCheckPasses,
           OnCreateSigns, OnBroadcast
  <1>3. owed = <<>> /\ Head(messages).event # "bar"
    BY <1>2 DEF Answered, Take
  <1>4. session' = session /\ signOut' = signOut
    BY DEF OnNet, OnPage, OnTo, OnCheckFails, OnCreateFails, OnView, OnFrom, OnCheckPasses,
           OnCreateSigns, OnBroadcast, window
  <1>5. \/ owed' = owed \/ owed' = <<>> \/ owed' = <<Event("show", FALSE)>>
        \/ \E c \in BOOLEAN : owed' = <<Event("hide", c)>>
        \/ \E c \in BOOLEAN : owed' = <<Event("hide", c), Event("balanceList", TRUE)>>
    <2>1. CASE OnNet \/ OnTo \/ OnCheckFails \/ OnFrom(b)
      BY <2>1 DEF OnNet, OnTo, OnCheckFails, OnFrom
    <2>2. CASE OnPage
      BY <2>2 DEF OnPage
    <2>3. CASE OnCreateFails
      BY <2>3 DEF OnCreateFails
    <2>4. CASE OnView(b)
      BY <2>4 DEF OnView
    <2>5. CASE OnCheckPasses(b)
      BY <2>5 DEF OnCheckPasses
    <2>6. CASE OnCreateSigns(b)
      BY <2>6 DEF OnCreateSigns
    <2>7. CASE OnBroadcast(b)
      BY <2>7 DEF OnBroadcast
    <2> QED
      BY <2>1, <2>2, <2>3, <2>4, <2>5, <2>6, <2>7
  <1>6. ~BarIn(owed')
    BY <1>3, <1>5, BarsIn
  <1> QED
    BY <1>1, <1>3, <1>4, <1>6, SignInPlain

\* The buttons that ask for something else.
LEMMA SignInClicks ==
    ASSUME TypeOK, NEW b \in BOOLEAN,
           \/ \E f \in Views, a \in Accounts : ClickView(f, a, b)
           \/ \E p \in Pages \ {"transactions"} : ClickPage(p, b)
           \/ \E k \in Kinds : ClickTransaction(k, b)
           \/ ShowTransactions(b)
    PROVE  UNCHANGED SI!signInVars
  <1>1. \/ Step({}, {"view"}) \/ Step({}, {"page"}) \/ Step({}, {"check", "create"})
        \/ Step({}, {"from"})
    BY StepsOfForms, StepsOfTransactions
  <1>2. \E S, T : Step(S, T) /\ "login" \notin S /\ "login" \notin T
    BY <1>1
  <1>3. /\ Ready /\ session' = session /\ signOut' = signOut
        /\ owed' = owed \/ owed' = <<>> \/ owed' = <<Event("show", FALSE)>>
    BY DEF ClickView, ClickPage, ClickTransaction, ShowTransactions, SetAddress, window
  <1>4. owed = <<>> /\ messages' = messages
    BY <1>3 DEF Ready, Input, Idle
  <1>5. ~BarIn(owed')
    BY <1>3, <1>4, BarsIn
  <1> QED
    BY <1>2, <1>3, <1>4, <1>5, SignInPlain

\* The account bar shows the button that it was told to show.
LEMMA SignInBar ==
    ASSUME TypeOK, NEW b \in BOOLEAN, OnAccountBarLogin(b)
    PROVE  UNCHANGED SI!signInVars
  <1>0. messages \in Seq(Callbacks \cup Events) /\ signOut \in BOOLEAN
    BY TypeParts DEF LoopOK, WindowOK
  <1>1. /\ owed = <<>> /\ messages # <<>>
        /\ Head(messages).event \in {"bar", "balanceList"}
        /\ session' = session /\ signOut' = (signOut \/ Head(messages).event = "bar")
    BY DEF OnAccountBarLogin, Take
  <1>2. Step({"none"}, {"view"})
    BY StepsOfForms
  <1>3. ~BarIn(owed')
    <2>1. owed' = owed \/ owed' = <<>> \/ owed' = <<Event("show", FALSE)>>
      BY DEF OnAccountBarLogin, ShowBalanceList, SetAddress
    <2> QED
      BY <1>1, <2>1, BarsIn
  <1>4. CASE Head(messages).event = "balanceList"
    <2>1. signOut' = signOut
      BY <1>0, <1>1, <1>4
    <2> QED
      BY <1>1, <1>2, <1>3, <1>4, <2>1, SignInPlain
  <1>5. CASE Head(messages).event = "bar"
    <2>1. Coming("bar") /\ signOut' = TRUE
      BY <1>0, <1>1, <1>5, BarTail, ComingBar
    <2>2. (signOut \/ Coming("bar"))' = (signOut \/ Coming("bar"))
      BY <2>1
    <2>3. SignInTask' = SignInTask /\ News(messages') = News(messages)
      BY <1>2, SignInQuiet
    <2> QED
      BY <1>1, <2>2, <2>3 DEF SI!signInVars, News
  <1> QED
    BY <1>1, <1>4, <1>5

\* Initially nobody is logged in and nothing is under way.
LEMMA SignInStart == Init => SI!SignInInit
  <1> SUFFICES ASSUME Init PROVE SI!SignInInit
    OBVIOUS
  <1>1. Successes(messages) = {}
    BY DEF Init, Successes
  <1>2. Cardinality(Successes(messages)) = 0
    BY <1>1, FS_EmptySet
  <1>3. SignInTask = "none"
    BY DEF Init, SignInTask
  <1>4. (signOut \/ Coming("bar")) = FALSE
    BY ComingBar, BarsIn DEF Init
  <1> QED
    BY <1>2, <1>3, <1>4 DEF Init, SI!SignInInit

\* Every step of the window and of the network thread is a step of SignIn or none.
LEMMA SignInStep == TypeOK /\ [Next]_vars => [SI!SignInNext]_(SI!signInVars)
  <1> SUFFICES ASSUME TypeOK, [Next]_vars PROVE [SI!SignInNext]_(SI!signInVars)
    OBVIOUS
  <1>1. CASE NetworkNext
    BY <1>1, SignInNetwork
  <1>2. CASE MessageNext
    BY <1>2, SignInLoop, SignInLogin, SignInAnswers, SignInBar DEF MessageNext
  <1>3. CASE UserNext
    BY <1>3, SignInLoop, SignInLogin, SignInClicks DEF UserNext
  <1>4. CASE Timer
    BY <1>4, SignInLoop
  <1>5. CASE UNCHANGED vars
    <2>1. UNCHANGED <<session, queue, net, messages, owed, signOut>>
      BY <1>5 DEF vars, network, loop, window
    <2> QED
      BY <2>1 DEF SI!signInVars, SignInTask, Coming
  <1> QED
    BY <1>1, <1>2, <1>3, <1>4, <1>5 DEF Next, Rest

(* The window's logins, among all the other tasks of the network thread and *)
(* whatever the user clicks meanwhile, are what SignIn says of logging in   *)
(* and out, which is what the account manager was shown to do.              *)
THEOREM WindowSignsIn == Spec => SignsIn
  <1> QED
    BY SignInStart, SignInStep, TypeCorrect, PTL DEF Spec, SignsIn, SI!SignInSpec
=============================================================================
