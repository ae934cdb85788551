----------------------------- MODULE MainWindow -----------------------------
(***************************************************************************)
(* The hot wallet's window: CMainWindow, its forms and the transactions    *)
(* they make, on top of what the network thread promises.                  *)
(*                                                                         *)
(* The network thread takes its tasks one after the other.  An RPC is      *)
(* refused only while one of its type is outstanding, until its handler    *)
(* has returned; it may be accepted even then (NetworkThread, RefusedOnly- *)
(* WhileOutstanding and NoDuplicateOutstanding).  A call that fails or is  *)
(* cancelled is answered with an empty response.  Logins are tasks of the  *)
(* same queue, and are never refused.                                      *)
(*                                                                         *)
(* Answers and events are messages posted to the window, which handles     *)
(* them one by one, before any input of the user; timers come last.  A     *)
(* handler runs to its end, but the network thread may post between two of *)
(* its own posts: `owed' holds the messages that a handler has yet to      *)
(* post.  An event that a click posts is handled before anything else can  *)
(* happen on the UI thread, and is part of the click here.  The overlay is *)
(* taken not to hold back any input.                                       *)
(***************************************************************************)
EXTENDS StatusLayer, Naturals, Sequences, FiniteSets

CONSTANTS
    Accounts,       \* The accounts of the wallet, and the addresses it watches.
    None,           \* The empty address.
    Views,          \* The forms of an account in use, see AllViews.
    Pages,          \* The lists in use, see AllPages.
    Kinds,          \* The kinds of transactions in use, see AllKinds.
    MaxBusy,        \* Bound on the tasks outstanding at a click.
    MaxClicks       \* Bound on the clicks of a run.

\* balance_form_ and send_form_ are the session's, the others belong to the forms
\* of watched addresses.
AllViews == {"balance", "send", "watch", "offlineSend"}

\* The lists of vote_form_, token_list_form_, mytoken_list_form_, participate_form_
\* and transactions_form_.
AllPages == {"witnesses", "tokens", "mytokens", "token", "transactions"}

AllKinds == {"send", "modify", "freeze", "unfreeze", "vote", "issue", "participate"}

ASSUME MainWindowAssumption ==
    /\ None \notin Accounts
    /\ Views \subseteq AllViews
    /\ Pages \subseteq AllPages
    /\ Kinds \subseteq AllKinds
    /\ MaxBusy \in Nat
    /\ MaxClicks \in Nat

VARIABLES
    session,        \* AccountManager's address_pair_
    \* the network thread
    queue,          \* its tasks; the first one runs
    net,            \* "run", or "loggedIn" or "posted": how far the first one is
    \* the message loop
    messages,       \* the messages posted to the window
    owed,           \* the messages the running handler has yet to post
    \* the window and its forms
    content,        \* show_panel_'s content_, "none" if it is hidden
    signOut,        \* the account bar shows the button to sign out
    form,           \* what each view has and shows, see Form
    freezeAddress,  \* freeze_form_'s address_
    rows,           \* transactions_form_'s datas_: whose transactions are in it
    listed,         \* whose transactions transactions_form_ shows
    \* history
    lost,           \* a refused RPC has left a spinner that it was to end
    misSigned,      \* the transaction signed last is not that of the key's account
    hasty,          \* the user switched accounts while something was under way
    duplicated,     \* a request for transactions was accepted twice
    clicks          \* how often the user clicked

network == <<queue, net>>
loop    == <<messages, owed>>
window  == <<content, signOut, form, freezeAddress, rows, listed>>
history == <<lost, misSigned, hasty, duplicated>>
vars    == <<session, network, loop, layer, window, history, clicks>>

Address == Accounts \cup {None}

\* The view's address_; whose address it shows; whose balance, and in a balance form
\* whose tokens; in a send form, the accounts whose tokens assert_ has; in a balance
\* form, whose bandwidth; and whether its last GetAccount, and the GetAccountNet after
\* the last answer to one, was refused.
Form == [address : Address, label : Address, data : Address, tokens : SUBSET Accounts,
         bandwidth : Address, refused : BOOLEAN, netRefused : BOOLEAN]

NoForm == [address |-> None, label |-> None, data |-> None, tokens |-> {},
           bandwidth |-> None, refused |-> FALSE, netRefused |-> FALSE]

Task(step, what, of) == [step |-> step, what |-> what, of |-> of]
NoTask == Task("none", "none", None)

\* A message: an answer to a task (ok: it is not the empty one) or an event
\* (of "hide", ok: it has a text).
Message(event, task, ok) == [event |-> event, task |-> task, ok |-> ok]
Event(event, ok) == Message(event, NoTask, ok)

\* What the network thread is asked for, for whom.
Tasks ==
    [step : {"login"}, what : {"login"}, of : Accounts]
    \cup [step : {"view", "net"}, what : AllViews, of : Accounts]
    \cup [step : {"page"}, what : AllPages \ {"transactions"}, of : {None}]
    \cup [step : {"from", "to"}, what : {"transactions"}, of : Accounts]
    \cup [step : {"check", "create", "broadcast"}, what : AllKinds, of : Address]

Callbacks == [event : {"callback"}, task : Tasks, ok : BOOLEAN]
Events    == [event : {"show", "hide", "bar", "balanceList"}, task : {NoTask}, ok : BOOLEAN]

Contents == {"none", "login", "freeze", "issue", "modify", "addresses"}
            \cup AllViews \cup AllPages

Init ==
    /\ session = None
    /\ queue = <<>>
    /\ net = "run"
    /\ messages = <<>>
    /\ owed = <<>>
    /\ LayerInit
    /\ content = "none"
    /\ signOut = FALSE
    /\ form = [f \in AllViews |-> NoForm]
    /\ freezeAddress = None
    /\ rows = {}
    /\ listed = {}
    /\ lost = FALSE
    /\ misSigned = FALSE
    /\ hasty = FALSE
    /\ duplicated = FALSE
    /\ clicks = 0

-----------------------------------------------------------------------------
(* The network thread.                                                      *)

\* The type of an RPC: what a view and a check ask for is GetAccount.
Type(task) ==
    CASE task.step \in {"view", "check"} \/ task.what = "token" -> "GetAccount"
      [] task.step \in {"create", "page"} -> task.what
      [] OTHER -> task.step

Outstanding(type) == \E i \in DOMAIN queue : Type(queue[i]) = type

\* The tasks whose callback has not been posted.
Unanswered == {queue[i] : i \in {j \in DOMAIN queue : net = "posted" => j > 1}}

Rpc(task, accepted) ==
    /\ accepted \/ Outstanding(Type(task))
    /\ queue' = IF accepted THEN Append(queue, task) ELSE queue
    /\ duplicated' = (duplicated \/ /\ accepted
                                    /\ task.step = "from"
                                    /\ \E t \in Unanswered : t.step = "from")
    /\ UNCHANGED net

NoRpc == UNCHANGED <<network, duplicated>>

\* Login has found the account and sets the session, before its callback is posted.
LogIn ==
    /\ queue # <<>> /\ net = "run"
    /\ Head(queue).step = "login"
    /\ session' = Head(queue).of
    /\ net' = "loggedIn"
    /\ UNCHANGED <<queue, loop, layer, window, history>>

PostCallback(ok) ==
    /\ queue # <<>> /\ net \in {"run", "loggedIn"}
    /\ Head(queue).step = "login" => ok = (net = "loggedIn")
    /\ messages' = Append(messages, Message("callback", Head(queue), ok))
    /\ net' = "posted"
    /\ UNCHANGED <<session, queue, owed, layer, window, history>>

EndTask_KeepsState ==
    /\ net = "posted"
    /\ queue' = Tail(queue)
    /\ UNCHANGED <<session, net, loop, layer, window, history>>

\* The handler returns: its type of request is no longer refused.
EndTask ==
    /\ net = "posted"
    /\ queue' = Tail(queue)
    /\ net' = "run"
    /\ UNCHANGED <<session, loop, layer, window, history>>

NetworkNext == LogIn \/ (\E ok \in BOOLEAN : PostCallback(ok)) \/ EndTask

-----------------------------------------------------------------------------
(* The message loop.                                                        *)

\* PostMessage of the running handler.
Post ==
    /\ owed # <<>>
    /\ messages' = Append(messages, Head(owed))
    /\ owed' = Tail(owed)
    /\ UNCHANGED <<session, network, layer, window, history>>

Idle == messages = <<>> /\ owed = <<>>

Input ==
    /\ Idle
    /\ clicks < MaxClicks /\ clicks' = clicks + 1
    /\ UNCHANGED messages

Ready == Input /\ Len(queue) < MaxBusy

Take(event) ==
    /\ owed = <<>> /\ messages # <<>>
    /\ Head(messages).event = event
    /\ messages' = Tail(messages)

\* The answer m to a task of the given step is taken.
Answered(step) == Take("callback") /\ Head(messages).task.step = step

\* The event is posted or about to be.
Coming(event) ==
    \/ \E i \in DOMAIN messages : messages[i].event = event
    \/ \E i \in DOMAIN owed : owed[i].event = event

\* HideStatus, called or posted.
HideStatus(text) == Show(~text) /\ lost' = (lost /\ Coming("show"))

ShowStatus(accepted) == Update /\ lost' = (lost \/ ~accepted)

OnShowStatus ==
    /\ Take("show")
    /\ Update
    /\ UNCHANGED <<session, network, owed, window, history>>

OnHideStatus ==
    /\ Take("hide")
    /\ HideStatus(Head(messages).ok)
    /\ UNCHANGED <<session, network, owed, window, misSigned, hasty, duplicated>>

Timer ==
    /\ Idle
    /\ OnUITimer
    /\ lost' = FALSE
    /\ UNCHANGED <<session, network, loop, window, misSigned, hasty, duplicated>>

-----------------------------------------------------------------------------
(* Logging in and out.                                                      *)

Busy == queue # <<>>

\* The button to log in, which is there while nobody is logged in.
OnShowLogin ==
    /\ Input /\ ~signOut
    /\ content' = "login"
    /\ UNCHANGED <<session, network, owed, layer, signOut, form, freezeAddress, rows, listed, history>>

\* CLoginForm and CRegisterForm: OnOk.
ClickLogin(a) ==
    /\ Ready /\ content = "login"
    /\ queue' = Append(queue, Task("login", "login", a))
    /\ owed' = <<Event("show", FALSE)>>
    /\ hasty' = (hasty \/ Busy)
    /\ UNCHANGED <<session, net, layer, window, lost, misSigned, duplicated>>

OnLogin_IfShown ==
    /\ Answered("login")
    /\ LET ok == Head(messages).ok /\ content = "login" IN
           /\ owed' = IF ok THEN <<Event("hide", TRUE), Event("bar", TRUE)>>
                           ELSE <<Event("hide", TRUE)>>
           /\ content' = IF ok THEN "none" ELSE content
    /\ UNCHANGED <<session, network, layer, signOut, form, freezeAddress, rows, listed, history>>

OnLogin ==
    /\ Answered("login")
    /\ LET ok == Head(messages).ok IN
           /\ owed' = IF ok THEN <<Event("hide", TRUE), Event("bar", TRUE)>>
                           ELSE <<Event("hide", TRUE)>>
           /\ content' = IF ok /\ content = "login" THEN "none" ELSE content
    /\ UNCHANGED <<session, network, layer, signOut, form, freezeAddress, rows, listed, history>>

\* Logout, and OnAccountBarLogin for the event it posts.
SignOut ==
    /\ Input /\ signOut
    /\ session' = None
    /\ signOut' = FALSE
    /\ content' = "login"
    /\ hasty' = (hasty \/ Busy)
    /\ UNCHANGED <<network, owed, layer, form, freezeAddress, rows, listed, lost, misSigned, duplicated>>

\* "Please Login first": what every button that asks CheckLogin does for nobody.
CheckLoginFails ==
    /\ Input /\ session = None
    /\ owed' = <<Event("hide", TRUE)>>
    /\ UNCHANGED <<session, network, layer, window, history>>

-----------------------------------------------------------------------------
(* The forms of an account: CBalanceForm and CSendForm.                     *)

Spins(f) == f \in {"balance", "watch"}

SetAddress_OnlyIfNew(f, a, accepted) ==
    /\ IF form[f].data = None THEN Rpc(Task("view", f, a), accepted) ELSE NoRpc
    /\ form' = [form EXCEPT ![f].address = a, ![f].refused = ~accepted,
                          ![f].label = IF Spins(f) THEN @ ELSE a]
    /\ owed' = IF Spins(f) THEN <<Event("show", FALSE)>> ELSE <<>>
    /\ lost' = (lost \/ (Spins(f) /\ ~accepted))

\* SetAddress and UpdteAddress: the address is the form's at once, the data comes
\* with the answer.  Only the balance form shows a spinner, refused or not.
SetAddress(f, a, accepted) ==
    /\ Rpc(Task("view", f, a), accepted)
    /\ form' = [form EXCEPT ![f].address = a, ![f].refused = ~accepted,
                          ![f].label = IF Spins(f) THEN @ ELSE a]
    /\ owed' = IF Spins(f) THEN <<Event("show", FALSE)>> ELSE <<>>
    /\ lost' = (lost \/ (Spins(f) /\ ~accepted))

ShowBalanceList_OnlyOnce(accepted) ==
    IF form["balance"].data # None
    THEN NoRpc /\ UNCHANGED <<form, owed, lost>>
    ELSE SetAddress("balance", session, accepted)

\* ShowBalanceList does nothing for the empty address.
ShowBalanceList(accepted) ==
    IF session = None
    THEN NoRpc /\ UNCHANGED <<form, owed, lost>>
    ELSE SetAddress("balance", session, accepted)

\* BTN_SEND, BTN_BALANCELIST, and the button beside a watched address.
ClickView(f, a, accepted) ==
    /\ Ready
    /\ IF f \in {"balance", "send"} THEN a = session ELSE content = "addresses"
    /\ SetAddress(f, a, accepted)
    /\ UNCHANGED <<session, layer, content, signOut, freezeAddress, rows, listed, misSigned, hasty>>

\* Whose data an answer has.
Answer(m) == IF m.ok THEN m.task.of ELSE None

OnView_AsksNetOnce(accepted) ==
    /\ Answered("view")
    /\ LET m == Head(messages)
           f == m.task.what
       IN  /\ IF Spins(f)
              THEN /\ IF form[f].bandwidth = None
                      THEN Rpc(Task("net", f, m.task.of), accepted)
                      ELSE accepted /\ NoRpc
                   /\ owed' = <<Event("hide", FALSE)>>
              ELSE accepted /\ NoRpc /\ UNCHANGED owed
           /\ form' = [form EXCEPT ![f].label = form[f].address,
                                   ![f].data = Answer(m),
                                   ![f].netRefused = Spins(f) /\ ~accepted]
           /\ content' = f
    /\ UNCHANGED <<session, layer, signOut, freezeAddress, rows, listed, lost, misSigned, hasty>>

\* The callbacks of SetAddress and UpdteAddress: whatever address the form has by
\* now is shown with the data of the answer.  A balance form clears its list for it
\* and asks for the bandwidth, which it goes on showing as it was; a send form sets
\* the balance and adds the tokens to those it has.
OnView(accepted) ==
    /\ Answered("view")
    /\ LET m == Head(messages)
           f == m.task.what
       IN  /\ IF Spins(f)
              THEN Rpc(Task("net", f, m.task.of), accepted) /\ owed' = <<Event("hide", FALSE)>>
              ELSE accepted /\ NoRpc /\ UNCHANGED owed
           /\ form' = [form EXCEPT ![f].label = form[f].address,
                                   ![f].data = Answer(m),
                                   ![f].tokens = IF Spins(f) \/ ~m.ok THEN @
                                                 ELSE @ \cup {m.task.of},
                                   ![f].netRefused = Spins(f) /\ ~accepted]
           /\ content' = f
    /\ UNCHANGED <<session, layer, signOut, freezeAddress, rows, listed, lost, misSigned, hasty>>

\* OnAccountBarLogin after a login, and OnShowBalanceList.
OnAccountBarLogin(accepted) ==
    /\ Take("bar") \/ Take("balanceList")
    /\ signOut' = (signOut \/ Head(messages).event = "bar")
    /\ ShowBalanceList(accepted)
    /\ UNCHANGED <<session, layer, content, freezeAddress, rows, listed, misSigned, hasty>>

\* GetAccountNet's callback shows the bandwidth, of whatever address it was asked for.
OnNet ==
    /\ Answered("net")
    /\ form' = [form EXCEPT ![Head(messages).task.what].bandwidth = Answer(Head(messages))]
    /\ UNCHANGED <<session, network, owed, layer, content, signOut, freezeAddress, rows, listed,
                   history>>

\* The list of watched addresses.
ShowAddresses ==
    /\ Input
    /\ Views \cap {"watch", "offlineSend"} # {}
    /\ content' = "addresses"
    /\ UNCHANGED <<session, network, owed, layer, signOut, form, freezeAddress, rows, listed, history>>

-----------------------------------------------------------------------------
(* The lists: witnesses, tokens, one's own tokens, one token.  All but the  *)
(* last show a spinner: the first by a message, the others at once.         *)

ClickPage(p, accepted) ==
    /\ Ready
    /\ p = "mytokens" => session # None
    /\ p = "token" => content = "tokens"
    /\ Rpc(Task("page", p, None), accepted)
    /\ owed' = IF p = "witnesses" THEN <<Event("show", FALSE)>> ELSE <<>>
    /\ IF p \in {"tokens", "mytokens"} THEN Update ELSE UNCHANGED layer
    /\ lost' = (lost \/ (p # "token" /\ ~accepted))
    /\ UNCHANGED <<session, window, misSigned, hasty>>

OnPage ==
    /\ Answered("page")
    /\ LET p == Head(messages).task.what
           empty == p = "mytokens" /\ ~Head(messages).ok
       IN  /\ content' = IF empty THEN content ELSE p
           /\ owed' = IF p = "witnesses" THEN <<Event("hide", FALSE)>> ELSE <<>>
           /\ IF p \in {"tokens", "mytokens"} THEN HideStatus(empty) ELSE UNCHANGED <<layer, lost>>
    /\ UNCHANGED <<session, network, signOut, form, freezeAddress, rows, listed,
                   misSigned, hasty, duplicated>>

\* ShowTransactions asks for the transactions from the account, then for those to it.
ShowTransactions(accepted) ==
    /\ Ready /\ session # None
    /\ Rpc(Task("from", "transactions", session), accepted)
    /\ ShowStatus(accepted)
    /\ UNCHANGED <<session, owed, window, misSigned, hasty>>

Push(m) == IF m.ok THEN rows \cup {m.task.of} ELSE rows

OnFrom(accepted) ==
    /\ Answered("from")
    /\ rows' = Push(Head(messages))
    /\ Rpc(Task("to", "transactions", Head(messages).task.of), accepted)
    /\ lost' = (lost \/ ~accepted)
    /\ UNCHANGED <<session, owed, layer, content, signOut, form, freezeAddress, listed, misSigned, hasty>>

OnTo_KeepsRows ==
    /\ Answered("to")
    /\ listed' = Push(Head(messages))
    /\ rows' = listed'
    /\ content' = "transactions"
    /\ HideStatus(FALSE)
    /\ UNCHANGED <<session, network, owed, signOut, form, freezeAddress, misSigned, hasty, duplicated>>

OnTo ==
    /\ Answered("to")
    /\ listed' = Push(Head(messages))
    /\ rows' = {}
    /\ content' = "transactions"
    /\ HideStatus(FALSE)
    /\ UNCHANGED <<session, network, owed, signOut, form, freezeAddress, misSigned, hasty, duplicated>>

-----------------------------------------------------------------------------
(* Transactions.                                                            *)

\* Before most kinds of transactions are made, the owner's account is looked at.
Checked(k) == k \notin {"send", "modify"}

\* The form with the button, and the owner it puts into the contract.
FormOf(k) ==
    CASE k = "unfreeze"    -> "balance"
      [] k = "participate" -> "token"
      [] k = "vote"        -> "witnesses"
      [] OTHER             -> k

OwnerOf_BalanceForm(k) ==
    CASE k = "send"   -> form["send"].address
      [] k = "freeze" -> freezeAddress
      [] OTHER        -> form["balance"].address

OwnerOf(k) ==
    CASE k = "send"   -> form["send"].address
      [] k = "freeze" -> freezeAddress
      [] OTHER        -> session

\* The three ways to the forms that need no answer.
OpenForm(f) ==
    /\ Input
    /\ \/ f = "issue" /\ session # None
       \/ f = "modify" /\ content = "mytokens"
       \/ f = "freeze" /\ content = "balance"
    /\ content' = f
    /\ freezeAddress' = IF f = "freeze" THEN session ELSE freezeAddress
    /\ UNCHANGED <<session, network, owed, layer, signOut, form, rows, listed, history>>

\* The form's own checks of what was typed have passed.
ClickTransaction(k, accepted) ==
    /\ Ready /\ content = FormOf(k)
    /\ k \in {"vote", "participate"} => session # None
    /\ Rpc(Task(IF Checked(k) THEN "check" ELSE "create", k, OwnerOf(k)), accepted)
    /\ owed' = IF Checked(k) THEN <<>> ELSE <<Event("show", FALSE)>>
    /\ lost' = (lost \/ ~(Checked(k) \/ accepted))
    /\ UNCHANGED <<session, layer, window, misSigned, hasty>>

\* The account is there and has what the transaction needs.  freeze shows no
\* spinner yet, unfreeze shows it at once.
OnCheckPasses(accepted) ==
    /\ Answered("check") /\ Head(messages).ok
    /\ LET k == Head(messages).task.what IN
           /\ Rpc(Task("create", k, Head(messages).task.of), accepted)
           /\ owed' = IF k \in {"freeze", "unfreeze"} THEN <<>> ELSE <<Event("show", FALSE)>>
           /\ IF k = "unfreeze" THEN Update ELSE UNCHANGED layer
           /\ lost' = (lost \/ (k # "freeze" /\ ~accepted))
    /\ UNCHANGED <<session, window, misSigned, hasty>>

\* A message box, and that is all.
OnCheckFails ==
    /\ Answered("check")
    /\ UNCHANGED <<session, network, owed, layer, window, history>>

\* SignTransaction takes the key of whoever is logged in now.
OnCreateSigns(accepted) ==
    /\ Answered("create") /\ Head(messages).ok /\ session # None
    /\ LET t == Head(messages).task IN
           /\ misSigned' = (t.of # session)
           /\ Rpc(Task("broadcast", t.what, t.of), accepted)
           /\ owed' = IF t.what = "freeze" THEN <<Event("show", FALSE)>> ELSE <<>>
           /\ lost' = (lost \/ ~accepted)
    /\ UNCHANGED <<session, layer, window, hasty>>

OnCreateFails_Silently ==
    /\ Answered("create") /\ ~(Head(messages).ok /\ session # None)
    /\ UNCHANGED <<session, network, owed, layer, window, history>>

\* OnTransactionCreateFailed; unfreeze says so at once.
OnCreateFails ==
    /\ Answered("create") /\ ~(Head(messages).ok /\ session # None)
    /\ IF Head(messages).task.what = "unfreeze"
       THEN HideStatus(TRUE) /\ UNCHANGED owed
       ELSE owed' = <<Event("hide", TRUE)>> /\ UNCHANGED <<layer, lost>>
    /\ UNCHANGED <<session, network, window, misSigned, hasty, duplicated>>

\* The node's answer.  A failure without a message leaves no text, except where
\* the form has a text of its own.
OnBroadcast(text) ==
    /\ Answered("broadcast")
    /\ LET k == Head(messages).task.what IN
           /\ Head(messages).ok \/ k \in {"vote", "issue", "participate"} => text
           /\ IF k = "unfreeze"
              THEN HideStatus(text) /\ UNCHANGED owed
              ELSE /\ owed' = IF k = "freeze"
                              THEN <<Event("hide", text), Event("balanceList", TRUE)>>
                              ELSE <<Event("hide", text)>>
                   /\ UNCHANGED <<layer, lost>>
           /\ content' = IF k = "freeze" /\ content = "freeze" THEN "none" ELSE content
    /\ UNCHANGED <<session, network, signOut, form, freezeAddress, rows, listed,
                   misSigned, hasty, duplicated>>

-----------------------------------------------------------------------------
MessageNext ==
    \/ Post
    \/ OnShowStatus \/ OnHideStatus
    \/ OnLogin \/ OnNet \/ OnPage \/ OnTo
    \/ OnCheckFails \/ OnCreateFails
    \/ \E b \in BOOLEAN :
           \/ OnView(b) \/ OnAccountBarLogin(b) \/ OnFrom(b)
           \/ OnCheckPasses(b) \/ OnCreateSigns(b) \/ OnBroadcast(b)

UserNext ==
    \/ OnShowLogin \/ SignOut \/ CheckLoginFails \/ ShowAddresses
    \/ \E a \in Accounts : ClickLogin(a)
    \/ \E f \in {"freeze", "issue", "modify"} \cap Kinds : OpenForm(f)
    \/ \E accepted \in BOOLEAN :
           \/ \E f \in Views, a \in Accounts : ClickView(f, a, accepted)
           \/ \E p \in Pages \ {"transactions"} : ClickPage(p, accepted)
           \/ \E k \in Kinds : ClickTransaction(k, accepted)
           \/ "transactions" \in Pages /\ ShowTransactions(accepted)

\* The user has clicked as often as the bound allows and everything has ended.
Rest == clicks = MaxClicks /\ Idle /\ queue = <<>> /\ ~timer /\ UNCHANGED vars

Next ==
    \/ UserNext
    \/ Rest
    \/ (NetworkNext \/ MessageNext \/ Timer) /\ UNCHANGED clicks

Spec == Init /\ [][Next]_vars

\* Both threads go on: the message loop handles what is posted and its timers, the
\* network thread runs its tasks, and the nodes answer.
LiveSpec ==
    /\ Spec
    /\ WF_vars(NetworkNext /\ UNCHANGED clicks)
    /\ WF_vars(MessageNext /\ UNCHANGED clicks)
    /\ WF_vars(Timer /\ UNCHANGED clicks)

-----------------------------------------------------------------------------
TypeOK ==
    /\ LayerTypeOK
    /\ {session, freezeAddress} \subseteq Address
    /\ queue \in Seq(Tasks)
    /\ net \in {"run", "loggedIn", "posted"}
    /\ net # "run" => queue # <<>>
    /\ net = "loggedIn" => Head(queue).step = "login"
    /\ messages \in Seq(Callbacks \cup Events)
    /\ owed \in Seq(Events)
    /\ content \in Contents
    /\ form \in [AllViews -> Form]
    /\ rows \cup listed \subseteq Accounts
    /\ {signOut, lost, misSigned, hasty, duplicated} \subseteq BOOLEAN

\* The tasks in the order in which their callbacks will be handled, first those that
\* are posted; NoTask for messages that are no callbacks and for a task whose callback
\* is posted already.
LineOf(ms, q, posted) ==
    [p \in 1 .. Len(ms) + Len(q) |->
        IF p <= Len(ms) THEN ms[p].task
        ELSE IF posted /\ p = Len(ms) + 1 THEN NoTask
        ELSE q[p - Len(ms)]]

Line == LineOf(messages, queue, net = "posted")

\* The tasks whose callback has not been handled.
Pending == {Line[p] : p \in DOMAIN Line} \ {NoTask}

\* A task at whose end, or at the end of what its callback asks for, HideStatus runs.
Ends(t) ==
    \/ t.step \in {"login", "create", "broadcast", "from", "to"}
    \/ t.step = "view" /\ Spins(t.what)
    \/ t.step = "page" /\ t.what # "token"

\* Whatever the overlay shows, something under way will take it down: the timer of
\* a text, a HideStatus on its way, or a task that ends in one; unless an RPC was
\* refused that the spinner was shown for.  The answer may be posted before the
\* message that shows the spinner is; it must not be hidden before it is shown.
OverlayEnds ==
    shown # "hidden" => timer \/ lost \/ Coming("hide") \/ \E t \in Pending : Ends(t)

\* The overlay goes away, and a window that it covers can be used again, unless an
\* RPC was refused that the spinner was shown for.
OverlayGoes == (shown # "hidden") ~> (shown = "hidden" \/ lost)

\* A balance form shows an address (label) and a send form has one, together with
\* the balance, and in a balance form the tokens, of an answer that may have been for
\* another one.  They belong together, or the request for the right data is under way,
\* or it was refused.  Nothing like it holds of the tokens a send form offers, which
\* are never taken out again.
ViewShowsItsAddress ==
    \A f \in AllViews :
        \/ form[f].data \in {None, form[f].label}
        \/ form[f].refused
        \/ \E t \in Pending : t.step = "view" /\ t.what = f

\* The bandwidth of a balance form, which comes with a second answer and stays until
\* then, is that of the address it shows, or one of the two requests is under way or
\* was refused.
BandwidthOfItsAddress ==
    \A f \in {"balance", "watch"} :
        \/ form[f].bandwidth \in {None, form[f].label}
        \/ form[f].refused \/ form[f].netRefused
        \/ \E t \in Pending : t.step \in {"view", "net"} /\ t.what = f

\* The address of the form that is shown, of those that belong to the session.
ShownAddress ==
    CASE content \in {"balance", "send"} -> form[content].label
      [] content = "freeze"              -> freezeAddress
      [] OTHER                           -> session

\* Forms of one account are not left on the screen of another: when a form of
\* somebody else is shown to whoever is logged in, the login is still being
\* announced or the balance list that will replace the form is being loaded, or
\* its request was refused.
FormOfSession ==
    \/ session = None
    \/ ShownAddress \in {None, session}
    \/ net = "loggedIn" \/ Coming("bar")
    \/ \E t \in Pending : t.step = "login" \/ (t.step = "view" /\ t.what = "balance")
    \/ form["balance"].refused

\* A transaction is signed with the key of whoever is logged in when the node has
\* made it.  That is its owner, for all the forms that keep an address of their own
\* and all the steps in between, if accounts are only switched when nothing is
\* under way.
SignedByOwner == misSigned => hasty

\* For whoever is shown the button to sign out, it is as good as there once the event
\* that shows it is on its way.
SignInTask ==
    CASE queue = <<>> \/ net = "posted" -> "none"
      [] Head(queue).step # "login"     -> "none"
      [] net = "loggedIn"               -> "found"
      [] OTHER                          -> "looking"

Successes(q) == {i \in DOMAIN q : q[i].task.step = "login" /\ q[i].ok}

SI == INSTANCE SignIn WITH
    Users <- Accounts, Nobody <- None,
    user <- session, task <- SignInTask, news <- Cardinality(Successes(messages)),
    button <- signOut \/ Coming("bar")

\* The window's logins, among the other tasks of the network thread, are what SignIn
\* says of logging in and out: the window uses of AccountManager what Accounts has.
SignsIn == SI!SignInSpec

\* ShowTransactions collects the answers of two requests in one buffer.  They are of
\* one account even if it is asked for again, for another account, in between,
\* unless the first request was accepted twice.
TransactionsOfOneAccount == Cardinality(listed) > 1 => duplicated
=============================================================================
