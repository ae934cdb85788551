------------------------- MODULE OfflineTransaction -------------------------
(***************************************************************************)
(* The way of a transaction through two computers.  The hot wallet has the *)
(* node create it and saves it unsigned; the cold wallet loads, signs and  *)
(* saves it; the hot wallet loads and broadcasts it.  The files between    *)
(* the two are the user's, who carries them and chooses what to load, sign *)
(* and save again, and either wallet may end at any time.                  *)
(*                                                                         *)
(* SignTransaction(key, transaction) stamps the transaction with the time  *)
(* before it signs, so a stamp tells the versions of a transaction apart,  *)
(* and adds its signature to those that are there.  The dialog to save     *)
(* asks for a name but SaveTransaction makes a directory of it, in which   *)
(* the file is named after the first seven hex digits of the transaction:  *)
(* the tag and the length of raw_data, and a part of the next tag.         *)
(***************************************************************************)
EXTENDS Naturals, Sequences, FiniteSets

CONSTANTS
    Txs,            \* The transactions the user has created.
    KindOf,         \* "transfer", "freeze" or "vote"
    OwnerOf,        \* The address that pays, freezes or votes.
    SizeOf,         \* The length of raw_data.
    Owners,         \* The addresses.
    Books,          \* The addresses of each account of the cold wallet.
    Dirs,           \* The directories the user saves to.
    None,
    MaxSignings,    \* Bound on the signings.
    MaxLoads        \* Bound on how often the cold wallet loads a transaction.

\* A copy of a transaction: its timestamp and its signatures, of what and with whose key.
IsCopy(c) ==
    c \in [tx : Txs, stamp : Nat, sigs : Seq([stamp : Nat, by : Owners \cup {None}])]

ASSUME OfflineAssumption ==
    /\ IsFiniteSet(Txs) /\ IsFiniteSet(Dirs)
    /\ KindOf \in [Txs -> {"transfer", "freeze", "vote"}]
    /\ OwnerOf \in [Txs -> Owners]
    /\ SizeOf \in [Txs -> Nat]
    /\ Books \subseteq SUBSET Owners
    /\ MaxSignings \in Nat /\ MaxLoads \in Nat
    /\ None \notin Txs \cup Owners /\ ~IsCopy(None)

Wallets == {"hot", "cold"}

VARIABLES
    files,      \* what each path holds, or None
    offered,    \* the transaction of the hot wallet's form with the button Save, or None
    rows,       \* datas_ of each wallet's CLoadedForm, by the path of the row
    votes,      \* whether it is the form LoadVotes made
    open,       \* the row of each wallet's info form, or None
    book,       \* the addresses whose keys the cold wallet can look up
    clock,      \* currentTimeMillis, which only signings tell apart
    sent,       \* what was handed to BroadcastTransaction
    paid,       \* the versions of transactions the network has executed
    \* history
    created,    \* the transactions created
    saved,      \* <<transaction, directory>> of the saves that succeeded
    failed,     \* and of those that failed
    loads       \* how often the cold wallet loaded each transaction

hot  == <<offered, sent>>
hist == <<created, saved, failed, loads>>
vars == <<files, offered, rows, votes, open, book, clock, sent, paid, created, saved, failed, loads>>

Paths == Dirs \X {SizeOf[x] : x \in Txs}
Empty == [p \in {} |-> None]

Init ==
    /\ files = [p \in Paths |-> None]
    /\ offered = None
    /\ rows = [w \in Wallets |-> Empty]
    /\ votes = [w \in Wallets |-> FALSE]
    /\ open = [w \in Wallets |-> None]
    /\ book = {}
    /\ clock = 0
    /\ sent = {} /\ paid = {}
    /\ created = {} /\ saved = {} /\ failed = {}
    /\ loads = [x \in Txs |-> 0]

-----------------------------------------------------------------------------
(* SaveTransaction and SaveVote.                                            *)

Name_Constant(c) == CHOOSE n \in {SizeOf[x] : x \in Txs} : TRUE
Name(c) == SizeOf[c.tx]

\* The file is written, or it is not: then it is as it was, or empty.
Save(c, d) ==
    \/ /\ files' = [files EXCEPT ![<<d, Name(c)>>] = c]
       /\ saved' = saved \cup {<<c.tx, d>>}
       /\ UNCHANGED failed
    \/ /\ \E left \in {files[<<d, Name(c)>>], None} : files' = [files EXCEPT ![<<d, Name(c)>>] = left]
       /\ failed' = failed \cup {<<c.tx, d>>}
       /\ UNCHANGED saved

-----------------------------------------------------------------------------
(* The hot wallet creates a transaction.                                    *)

\* The callbacks of CreateUnsignedTransaction, of the freeze form and ShowTransaction.
Create(x) ==
    /\ x \in Txs \ created
    /\ created' = created \cup {x}
    /\ offered' = [tx |-> x, stamp |-> 0, sigs |-> <<>>]
    /\ open' = [open EXCEPT !["hot"] = None]
    /\ UNCHANGED <<files, rows, votes, book, clock, sent, paid, saved, failed, loads>>

\* Saving hides the form, whether it succeeds or not; to cancel the dialog does not.
ClickSave(d) ==
    /\ offered # None
    /\ Save(offered, d)
    /\ offered' = None
    /\ UNCHANGED <<rows, votes, open, book, clock, sent, paid, created, loads>>

-----------------------------------------------------------------------------
(* Loading.                                                                 *)

\* LoadTransaction and LoadVote leave out what does not parse.
Parsed_Anything(chosen) == chosen
Parsed(chosen) == {p \in chosen : files[p] # None}

\* A form with the chosen files takes the place of the one before, if there are any.
LoadDatas(w, chosen, asVotes) ==
    LET ps == Parsed(chosen) IN
    /\ ps # {}
    /\ rows' = [rows EXCEPT ![w] = [p \in ps |-> files[p]]]
    /\ votes' = [votes EXCEPT ![w] = asVotes]
    /\ open' = [open EXCEPT ![w] = None]
    /\ offered' = IF w = "hot" THEN None ELSE offered
    /\ loads' = IF w = "hot" THEN loads
                ELSE [x \in Txs |-> loads[x] + Cardinality({p \in ps : files[p] # None /\ files[p].tx = x})]
    /\ \A x \in Txs : loads'[x] <= MaxLoads
    /\ UNCHANGED <<files, book, clock, sent, paid, created, saved, failed>>

\* CreateShowInfoControl makes no form for a vote among transactions, and OnItemClick
\* does not check it: the process ends (Restart).
OnItemClick(w, p) ==
    /\ p \in DOMAIN rows[w]
    /\ votes[w] \/ KindOf[rows[w][p].tx] # "vote"
    /\ open' = [open EXCEPT ![w] = p]
    /\ offered' = IF w = "hot" THEN None ELSE offered
    /\ UNCHANGED <<files, rows, votes, book, clock, sent, paid, hist>>

Close(w) ==
    /\ open[w] # None
    /\ open' = [open EXCEPT ![w] = None]
    /\ UNCHANGED <<files, rows, votes, book, clock, hot, paid, hist>>

-----------------------------------------------------------------------------
(* The cold wallet signs.                                                   *)

SignTransaction_BeforeStamp(c, key) ==
    [c EXCEPT !.stamp = clock + 1, !.sigs = Append(@, [stamp |-> c.stamp, by |-> key])]

SignTransaction_Replaces(c, key) ==
    [c EXCEPT !.stamp = clock + 1, !.sigs = <<[stamp |-> clock + 1, by |-> key]>>]

SignTransaction(c, key) ==
    [c EXCEPT !.stamp = clock + 1, !.sigs = Append(@, [stamp |-> clock + 1, by |-> key])]

\* What LookupPrivate finds for the owner; None is the secret of zeros.
LookupPrivate(x) == IF OwnerOf[x] \in book THEN OwnerOf[x] ELSE None

\* The transaction in the list of the form is the one that is signed, so it stays
\* signed if the dialog to save it is cancelled.
SignAndSave(c) ==
    LET s == SignTransaction(c, LookupPrivate(c.tx)) IN
    /\ clock < MaxSignings
    /\ clock' = clock + 1
    /\ rows' = [rows EXCEPT !["cold"][open["cold"]] = s]
    /\ \/ /\ \E d \in Dirs : Save(s, d)
          /\ open' = [open EXCEPT !["cold"] = None]
       \/ UNCHANGED <<files, saved, failed, open>>

\* Of the forms of transactions and freezes, and of votes.  The former reject an
\* address without a key and close; the latter sign with the secret of zeros, and have
\* no owner if the transaction is not a vote.
ClickSign ==
    /\ open["cold"] # None
    /\ LET c == rows["cold"][open["cold"]] IN
       \/ /\ ~votes["cold"] /\ LookupPrivate(c.tx) = None
          /\ open' = [open EXCEPT !["cold"] = None]
          /\ UNCHANGED <<files, rows, clock, saved, failed>>
       \/ /\ IF votes["cold"] THEN KindOf[c.tx] = "vote" ELSE LookupPrivate(c.tx) # None
          /\ SignAndSave(c)
    /\ UNCHANGED <<votes, book, hot, paid, created, loads>>

\* Of the cold wallet, whose LoadAddresses loads nothing over what it has.
Login(b) ==
    /\ book = {}
    /\ book' = b
    /\ UNCHANGED <<files, rows, votes, open, clock, hot, paid, hist>>

-----------------------------------------------------------------------------
(* The hot wallet broadcasts.                                               *)

\* The form is closed when the node answers, or by the user (Close).
ClickBroadcast ==
    /\ open["hot"] # None
    /\ sent' = sent \cup {rows["hot"][open["hot"]]}
    /\ UNCHANGED <<files, offered, rows, votes, open, book, clock, paid, hist>>

\* The node executes what has the one signature its one contract needs, by the owner
\* and of what was signed, and no version twice.  A call may also be lost.
Valid(c) == c.sigs = <<[stamp |-> c.stamp, by |-> OwnerOf[c.tx]]>>

Version(c) == [tx |-> c.tx, stamp |-> c.stamp]

Execute(c) ==
    /\ c \in sent /\ Valid(c)
    /\ Version(c) \notin paid
    /\ paid' = paid \cup {Version(c)}
    /\ UNCHANGED <<files, offered, rows, votes, open, book, clock, sent, hist>>

Restart(w) ==
    /\ rows' = [rows EXCEPT ![w] = Empty]
    /\ open' = [open EXCEPT ![w] = None]
    /\ votes' = [votes EXCEPT ![w] = FALSE]
    /\ offered' = IF w = "hot" THEN None ELSE offered
    /\ book' = IF w = "cold" THEN {} ELSE book
    /\ UNCHANGED <<files, clock, sent, paid, hist>>

-----------------------------------------------------------------------------
Next ==
    \/ \E x \in Txs : Create(x)
    \/ \E d \in Dirs : ClickSave(d)
    \/ \E w \in Wallets, chosen \in SUBSET Paths, asVotes \in BOOLEAN : LoadDatas(w, chosen, asVotes)
    \/ \E w \in Wallets, p \in Paths : OnItemClick(w, p)
    \/ \E w \in Wallets : Close(w) \/ Restart(w)
    \/ \E b \in Books : Login(b)
    \/ ClickSign
    \/ ClickBroadcast
    \/ \E c \in sent : Execute(c)

Spec == Init /\ [][Next]_vars

-----------------------------------------------------------------------------
TypeOK ==
    /\ DOMAIN files = Paths /\ \A p \in Paths : files[p] = None \/ IsCopy(files[p])
    /\ offered = None \/ IsCopy(offered)
    /\ DOMAIN rows = Wallets /\ DOMAIN open = Wallets /\ votes \in [Wallets -> BOOLEAN]
    /\ \A w \in Wallets :
        /\ DOMAIN rows[w] \subseteq Paths /\ \A p \in DOMAIN rows[w] : IsCopy(rows[w][p])
        /\ open[w] # None => open[w] \in DOMAIN rows[w]
    /\ book \subseteq Owners
    /\ clock \in Nat
    /\ \A c \in sent : IsCopy(c)
    /\ paid \subseteq [tx : Txs, stamp : Nat]
    /\ created \subseteq Txs
    /\ saved \subseteq Txs \X Dirs /\ failed \subseteq Txs \X Dirs
    /\ loads \in [Txs -> Nat]

\* Every copy of a transaction there is.
InFiles == {files[p] : p \in {q \in Paths : files[q] # None}}
InRows  == UNION {{rows[w][p] : p \in DOMAIN rows[w]} : w \in Wallets}
Copies  == InFiles \cup InRows \cup sent

\* A transaction that was signed once is what the network executes, wherever it has
\* been saved to, loaded from and lain since: nothing changes it after it is signed,
\* and no other key signs it.  Only a vote for whose owner there is no key is signed
\* all the same, by nobody (CVoteInfoForm::OnButtonClick does not look at the key).
SignedOnceIsValid ==
    \A c \in Copies :
        Len(c.sigs) = 1 => Valid(c) \/ (KindOf[c.tx] = "vote" /\ c.sigs[1].by = None)

\* The network executes a transaction at most as often as the cold wallet has loaded
\* it.  Every signing makes another version of it, which the network cannot tell
\* from another transaction, so only that a second signature spoils the first keeps
\* a user who signs again, after a cancelled dialog or a failed save, from paying twice.
PaidOncePerLoad ==
    \A x \in Txs : Cardinality({v \in paid : v.tx = x}) <= loads[x]

\* A transaction that was saved is in the directory it was saved to, whatever else
\* was saved there, unless one of the same size was, or a save of one of its size
\* failed there: the name of a file depends on nothing but the length of raw_data.
SavedKept ==
    \A s \in saved :
        \/ \E p \in Paths : p[1] = s[2] /\ files[p] # None /\ files[p].tx = s[1]
        \/ \E t \in (saved \ {s}) \cup failed : t[2] = s[2] /\ SizeOf[t[1]] = SizeOf[s[1]]
=============================================================================
