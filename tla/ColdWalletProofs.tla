-------------------------- MODULE ColdWalletProofs --------------------------
(***************************************************************************)
(* Proofs about ColdWallet, for any accounts and addresses and any number  *)
(* of logins queued.  The two properties speak of moments at which nothing *)
(* is going on; the invariants they follow from also say what is true      *)
(* while a handler runs:                                                   *)
(*                                                                         *)
(*   Handlers    which account a running handler works for;                *)
(*   Ownership   (for BookOfSession) every address that is in the book, on *)
(*               its way to a file or in one belongs to that account;      *)
(*   Retention   (for AddressesKept) no address of the account is missing  *)
(*               where the next step needs it.                             *)
(***************************************************************************)
EXTENDS ColdWallet, SequenceTheorems, TLAPS

USE ColdWalletAssumption

-----------------------------------------------------------------------------
Loading == {"list", "load"}
Adding  == {"encrypt", "open", "close"}

\* Whoever is logged in is who logged in last.  No handler but GenerateAddress's first
\* step runs with nobody logged in, and while no login is under way the file that is
\* loaded is the session's.  A new address is in the book until it is in the file.
Handlers ==
    /\ ui.pc = "idle" => ui = Idle
    /\ session # None => session = last
    /\ "early" \notin mishaps /\ (loading \/ posted > 0) => session # None
    /\ ui.pc \in Loading => ui.path \in Accounts /\ session # None /\ (posted = 0 /\ ~loading => ui.path = session)
    /\ ui.pc \in {"open", "close"} => session # None
    /\ ui.pc = "close" => ui.path \in Accounts
    /\ IF ui.pc \in Adding THEN ui.new # {} /\ ui.new \subseteq book ELSE ui.new = {}

MadeBy(a) == IF a \in Accounts THEN made[a] ELSE {}

\* As long as no other account logged in over a book that was not empty, the book, the
\* text to be written and the files hold no address of another account.
Ownership ==
    "switched" \notin mishaps =>
        /\ book \subseteq MadeBy(last) \cup ui.new
        /\ \A a \in Accounts : file[a].key \in {a, None} /\ file[a].holds \subseteq made[a]
        /\ ui.pc \in {"open", "close"} =>
               /\ ui.cipher.key = session
               /\ ui.cipher.holds \subseteq made[session] \cup ui.new
               /\ ui.new \subseteq ui.cipher.holds
        /\ ui.pc = "close" => ui.path = session

\* Nothing is left out: a book that is not empty, or from which an address can be added,
\* has all the addresses of the account, and so has the text to be written.
Retention ==
    mishaps \subseteq {"raced"} =>
        /\ book # {} => MadeBy(last) \subseteq book
        /\ ui.pc = "idle" /\ posted = 0 /\ ~loading /\ (signOut \/ content = "list") => MadeBy(last) \subseteq book
        /\ ui.pc = "open" => made[session] \subseteq ui.cipher.holds
        /\ \A a \in Accounts :
               made[a] \subseteq (IF ui.pc = "close" /\ ui.path = a THEN ui.cipher.holds ELSE Readable(a))

-----------------------------------------------------------------------------
File == [holds : SUBSET Addresses, key : Accounts \cup {None}]
Handler == [pc : {"idle", "list", "load", "encrypt", "open", "close"},
            new : SUBSET Addresses, cipher : File, path : Accounts \cup {None}]

\* A file is only loaded for an account.
PathType == ui.pc \in Loading => ui.path \in Accounts

\* What a file that is not there, and the UI thread between two handlers, look like.
LEMMA IdleType == NoFile \in File /\ Idle \in Handler
BY DEF NoFile, Idle, File, Handler

\* The book, the files and the handler are well formed: what another key encrypted is
\* never taken for addresses.
THEOREM TypeCorrect == Spec => []TypeOK
<1>1. Init => TypeOK
  <2>1. <<>> \in Seq(Accounts)
    OBVIOUS
  <2>2. [a \in Accounts |-> NoFile] \in [Accounts -> File]
    BY IdleType
  <2>3. [a \in Accounts |-> {}] \in [Accounts -> SUBSET Addresses]
    OBVIOUS
  <2> SUFFICES ASSUME Init PROVE TypeOK
    OBVIOUS
  <2>4. file \in [Accounts -> File] /\ ui \in Handler /\ logins \in Seq(Accounts)
    BY <2>1, <2>2, IdleType DEF Init
  <2>5. made \in [Accounts -> SUBSET Addresses]
    BY <2>3 DEF Init
  <2> QED BY <2>4, <2>5 DEF Init, TypeOK, File, Handler
<1>2. TypeOK /\ PathType /\ [Next]_vars => TypeOK'
  <2> SUFFICES ASSUME TypeOK, PathType, [Next]_vars PROVE TypeOK'
    OBVIOUS
  <2>1. CASE Crash
    <3>1. <<>> \in Seq(Accounts)
      OBVIOUS
    <3>2. mishaps' \subseteq Mishaps
      BY <2>1 DEF Crash, TypeOK, Mishaps
    <3> QED BY <2>1, <3>1, <3>2, IdleType DEF Crash, Restart, TypeOK, File, Handler
  <2>2. CASE Decrypt
    <3>1. book' \subseteq Addresses
      BY <2>2 DEF Decrypt, DecryptInto, TypeOK, PathType, Loading
    <3> QED BY <2>2, <3>1, IdleType DEF Decrypt, DecryptInto, TypeOK, File, Handler
  <2>3. CASE Encrypt
    BY <2>3 DEF Encrypt, TypeOK, Idle, NoFile, Mishaps
  <2>4. CASE EncryptThrows
    <3>1. <<>> \in Seq(Accounts)
      OBVIOUS
    <3>2. mishaps' \subseteq Mishaps
      BY <2>4 DEF EncryptThrows, TypeOK, Mishaps
    <3> QED BY <2>4, <3>1, <3>2, IdleType DEF EncryptThrows, Restart, TypeOK, File, Handler
  <2>5. CASE Open
    BY <2>5 DEF Open, TypeOK, Idle, NoFile, Mishaps
  <2>6. CASE Close
    BY <2>6 DEF Close, TypeOK, Idle, NoFile, Mishaps
  <2>7. CASE ShowLogin
    BY <2>7 DEF ShowLogin, TypeOK, Idle, NoFile, Mishaps
  <2>8. CASE SetSession
    BY <2>8 DEF SetSession, TypeOK, Idle, NoFile, Mishaps
  <2>8b. CASE PostLogin
    <3>1. logins' \in Seq(Accounts)
      BY <2>8b DEF PostLogin, TypeOK
    <3>2. posted' \in Nat /\ loading' = FALSE
      BY <2>8b DEF PostLogin, TypeOK
    <3> QED BY <2>8b, <3>1, <3>2 DEF PostLogin, TypeOK
  <2>9. CASE OnAccountBarLogin
    <3>1. posted' \in Nat
      BY <2>9 DEF OnAccountBarLogin, TypeOK
    <3>2. ui' \in Handler
      <4>1. ui' = ui \/ ui' = [Idle EXCEPT !.pc = "list", !.path = session]
        BY <2>9 DEF OnAccountBarLogin, Load
      <4> QED BY <4>1, IdleType DEF TypeOK, File, Handler
    <3> QED BY <2>9, <3>1, <3>2 DEF OnAccountBarLogin, Load, TypeOK, File, Handler
  <2>10. CASE SignOut
    BY <2>10 DEF SignOut, Early, TypeOK, Idle, NoFile, Mishaps
  <2>11. ASSUME NEW then \in {"list", "load"}, Click(then) PROVE TypeOK'
    BY <2>11, ZenonT(60) DEF Click, Load, TypeOK, Idle, NoFile, Mishaps
  <2>12. ASSUME NEW k \in Addresses \ used, GenerateAddress(k) PROVE TypeOK'
    BY <2>12 DEF GenerateAddress, Early, TypeOK, Idle, NoFile, Mishaps
  <2>13. ASSUME NEW a \in Accounts, ClickLogin(a) PROVE TypeOK'
    BY <2>13 DEF ClickLogin, TypeOK, Idle, NoFile, Mishaps
  <2>14. CASE UNCHANGED vars
    BY <2>14 DEF vars, TypeOK, Idle, NoFile, Mishaps
  <2> QED
    BY <2>1, <2>2, <2>3, <2>4, <2>5, <2>6, <2>7, <2>8, <2>8b, <2>9, <2>10, <2>11, <2>12, <2>13, <2>14 DEF Next
<1>3. TypeOK /\ PathType /\ [Next]_vars => PathType'
  <2> SUFFICES ASSUME TypeOK, PathType, [Next]_vars PROVE PathType'
    OBVIOUS
  <2>1. CASE Crash
    BY <2>1 DEF Crash, Restart, PathType, Loading, Idle, TypeOK
  <2>2. CASE Decrypt
    BY <2>2 DEF Decrypt, DecryptInto, PathType, Loading, Idle, TypeOK
  <2>3. CASE Encrypt
    BY <2>3 DEF Encrypt, PathType, Loading, Idle, TypeOK
  <2>4. CASE EncryptThrows
    BY <2>4 DEF EncryptThrows, Restart, PathType, Loading, Idle, TypeOK
  <2>5. CASE Open
    BY <2>5 DEF Open, PathType, Loading, Idle, TypeOK
  <2>6. CASE Close
    BY <2>6 DEF Close, PathType, Loading, Idle, TypeOK
  <2>7. CASE ShowLogin
    BY <2>7 DEF ShowLogin, PathType, Loading, Idle, TypeOK
  <2>8. CASE SetSession
    BY <2>8 DEF SetSession, PathType, Loading, Idle, TypeOK
  <2>8b. CASE PostLogin
    BY <2>8b DEF PostLogin, PathType, Loading, Idle, TypeOK
  <2>9. CASE OnAccountBarLogin
    BY <2>9 DEF OnAccountBarLogin, Load, PathType, Loading, Idle, TypeOK
  <2>10. CASE SignOut
    BY <2>10 DEF SignOut, Early, PathType, Loading, Idle, TypeOK
  <2>11. ASSUME NEW then \in {"list", "load"}, Click(then) PROVE PathType'
    BY <2>11 DEF Click, Load, PathType, Loading, Idle, TypeOK
  <2>12. ASSUME NEW k \in Addresses \ used, GenerateAddress(k) PROVE PathType'
    BY <2>12 DEF GenerateAddress, Early, PathType, Loading, Idle, TypeOK
  <2>13. ASSUME NEW a \in Accounts, ClickLogin(a) PROVE PathType'
    BY <2>13 DEF ClickLogin, PathType, Loading, Idle, TypeOK
  <2>14. CASE UNCHANGED vars
    BY <2>14 DEF vars, PathType, Loading, Idle, TypeOK
  <2> QED
    BY <2>1, <2>2, <2>3, <2>4, <2>5, <2>6, <2>7, <2>8, <2>8b, <2>9, <2>10, <2>11, <2>12, <2>13, <2>14 DEF Next
<1>4. Init => PathType
  BY DEF Init, PathType, Loading, Idle
<1> QED BY <1>1, <1>2, <1>3, <1>4, PTL DEF Spec

\* Which account a running handler works for.
LEMMA HandlersAlways == Spec => []Handlers
<1>1. Init => Handlers
  BY DEF Init, Handlers, Loading, Adding, Idle, TypeOK
<1>2. TypeOK /\ TypeOK' /\ Handlers /\ [Next]_vars => Handlers'
  <2> SUFFICES ASSUME TypeOK, TypeOK', Handlers, [Next]_vars PROVE Handlers'
    OBVIOUS
  <2>1. CASE Crash
    BY <2>1 DEF Crash, Restart, Handlers, Loading, Adding, Idle, TypeOK
  <2>2. CASE Decrypt
    BY <2>2 DEF Decrypt, DecryptInto, Handlers, Loading, Adding, Idle, TypeOK
  <2>3. CASE Encrypt
    BY <2>3 DEF Encrypt, Handlers, Loading, Adding, Idle, TypeOK
  <2>4. CASE EncryptThrows
    BY <2>4 DEF EncryptThrows, Restart, Handlers, Loading, Adding, Idle, TypeOK
  <2>5. CASE Open
    BY <2>5 DEF Open, Handlers, Loading, Adding, Idle, TypeOK
  <2>6. CASE Close
    BY <2>6 DEF Close, Handlers, Loading, Adding, Idle, TypeOK
  <2>7. CASE ShowLogin
    BY <2>7 DEF ShowLogin, Handlers
  <2>8. CASE SetSession
    <3>1. Head(logins) \in Accounts
      BY <2>8 DEF SetSession, TypeOK
    <3> QED BY <2>8, <3>1 DEF SetSession, Handlers, Loading, Adding, TypeOK
  <2>8b. CASE PostLogin
    BY <2>8b DEF PostLogin, Handlers, Loading, Adding, TypeOK
  <2>9. CASE OnAccountBarLogin
    BY <2>9, ZenonT(60) DEF OnAccountBarLogin, Load, Handlers, Loading, Adding, Idle, TypeOK
  <2>10. CASE SignOut
    BY <2>10 DEF SignOut, Early, Handlers, Loading, Adding, Idle, TypeOK
  <2>11. ASSUME NEW then \in {"list", "load"}, Click(then) PROVE Handlers'
    BY <2>11, ZenonT(60) DEF Click, Load, Handlers, Loading, Adding, Idle, TypeOK
  <2>12. ASSUME NEW k \in Addresses \ used, GenerateAddress(k) PROVE Handlers'
    BY <2>12 DEF GenerateAddress, Early, Handlers, Loading, Adding, Idle, TypeOK
  <2>13. ASSUME NEW a \in Accounts, ClickLogin(a) PROVE Handlers'
    BY <2>13 DEF ClickLogin, Handlers
  <2>14. CASE UNCHANGED vars
    BY <2>14 DEF vars, Handlers
  <2> QED
    BY <2>1, <2>2, <2>3, <2>4, <2>5, <2>6, <2>7, <2>8, <2>8b, <2>9, <2>10, <2>11, <2>12, <2>13, <2>14 DEF Next
<1> QED BY <1>1, <1>2, TypeCorrect, PTL DEF Spec

\* Where the addresses of an account are, and those of others are not.
LEMMA OwnershipAlways == Spec => []Ownership
<1>1. Init => Ownership
  BY DEF Init, Ownership, MadeBy, Handlers, Loading, Adding, Idle, NoFile, TypeOK
<1>2. TypeOK /\ TypeOK' /\ Handlers /\ Handlers' /\ Ownership /\ [Next]_vars => Ownership'
  <2> SUFFICES ASSUME TypeOK, TypeOK', Handlers, Handlers', Ownership, [Next]_vars PROVE Ownership'
    OBVIOUS
  <2>1. CASE Crash
    BY <2>1 DEF Crash, Restart, Ownership, MadeBy, Handlers, Loading, Adding, Idle, NoFile, TypeOK
  <2>2. CASE Decrypt
    BY <2>2 DEF Decrypt, DecryptInto, Ownership, MadeBy, Handlers, Loading, Adding, Idle, NoFile, TypeOK
  <2>3. CASE Encrypt
    BY <2>3 DEF Encrypt, Ownership, MadeBy, Handlers, Loading, Adding, Idle, NoFile, TypeOK
  <2>4. CASE EncryptThrows
    BY <2>4 DEF EncryptThrows, Restart, Ownership, MadeBy, Handlers, Loading, Adding, Idle, NoFile, TypeOK
  <2>5. CASE Open
    BY <2>5 DEF Open, Ownership, MadeBy, Handlers, Loading, Adding, Idle, NoFile, TypeOK
  <2>6. CASE Close
    BY <2>6 DEF Close, Ownership, MadeBy, Handlers, Loading, Adding, Idle, NoFile, TypeOK
  <2>7. CASE ShowLogin
    BY <2>7 DEF ShowLogin, Ownership, MadeBy
  <2>8. CASE SetSession
    BY <2>8 DEF SetSession, Ownership, MadeBy, Handlers, Loading, Adding, Idle, NoFile, TypeOK
  <2>8b. CASE PostLogin
    BY <2>8b DEF PostLogin, Ownership, MadeBy, Handlers, Loading, Adding, Idle, NoFile, TypeOK
  <2>9. CASE OnAccountBarLogin
    BY <2>9 DEF OnAccountBarLogin, Load, Ownership, MadeBy, Handlers, Loading, Adding, Idle, NoFile, TypeOK
  <2>10. CASE SignOut
    BY <2>10 DEF SignOut, Early, Ownership, MadeBy, Handlers, Loading, Adding, Idle, NoFile, TypeOK
  <2>11. ASSUME NEW then \in {"list", "load"}, Click(then) PROVE Ownership'
    BY <2>11 DEF Click, Load, Ownership, MadeBy, Handlers, Loading, Adding, Idle, NoFile, TypeOK
  <2>12. ASSUME NEW k \in Addresses \ used, GenerateAddress(k) PROVE Ownership'
    BY <2>12 DEF GenerateAddress, Early, Ownership, MadeBy, Handlers, Loading, Adding, Idle, NoFile, TypeOK
  <2>13. ASSUME NEW a \in Accounts, ClickLogin(a) PROVE Ownership'
    BY <2>13 DEF ClickLogin, Ownership, MadeBy
  <2>14. CASE UNCHANGED vars
    BY <2>14 DEF vars, Ownership, MadeBy
  <2> QED
    BY <2>1, <2>2, <2>3, <2>4, <2>5, <2>6, <2>7, <2>8, <2>8b, <2>9, <2>10, <2>11, <2>12, <2>13, <2>14 DEF Next
<1> QED BY <1>1, <1>2, TypeCorrect, HandlersAlways, PTL DEF Spec

\* The keys that whoever is logged in can use are the account's own.
THEOREM BookOfSessionAlways == Spec => []BookOfSession
<1>1. TypeOK /\ Handlers /\ Ownership => BookOfSession
  BY DEF TypeOK, Handlers, Ownership, BookOfSession, MadeBy, Idle
<1> QED BY <1>1, TypeCorrect, HandlersAlways, OwnershipAlways, PTL

\* Load reads the file unless there is a book already or nobody is logged in.
LEMMA LoadStep ==
    ASSUME NEW then \in Loading, ui = Idle, Load(then)
    PROVE  /\ ui'.pc \in {"idle"} \cup Loading
           /\ ui'.pc = "idle" => book # {} \/ session = None
<1>1. Idle.pc = "idle" /\ [Idle EXCEPT !.pc = then, !.path = session].pc = then
  BY DEF Idle
<1>2. CASE book # {} \/ session = None
  <2>1. ui' = Idle
    BY <1>2 DEF Load
  <2> QED BY <1>1, <1>2, <2>1
<1>3. CASE ~(book # {} \/ session = None)
  <2>1. ui' = [Idle EXCEPT !.pc = then, !.path = session]
    BY <1>3 DEF Load
  <2>2. ui'.pc = then
    BY <1>1, <2>1
  <2> QED BY <2>2 DEF Loading
<1> QED BY <1>2, <1>3

\* Every address that was shown to an account can be loaded from its file again.
THEOREM AddressesKeptAlways == Spec => []AddressesKept
<1>1. Init => Retention
  BY DEF Init, Retention, Readable, Ownership, MadeBy, Handlers, Loading, Adding, Idle, NoFile, TypeOK
<1>2. TypeOK /\ TypeOK' /\ Handlers /\ Ownership /\ Ownership' /\ Retention /\ [Next]_vars => Retention'
  <2> SUFFICES ASSUME TypeOK, TypeOK', Handlers, Ownership, Ownership', Retention, [Next]_vars PROVE Retention'
    OBVIOUS
  <2>1. CASE Crash
    BY <2>1 DEF Crash, Restart, Retention, Readable, Ownership, MadeBy, Handlers, Loading, Adding, Idle, NoFile, TypeOK
  <2>2. CASE Decrypt
    BY <2>2 DEF Decrypt, DecryptInto, Retention, Readable, Ownership, MadeBy, Handlers, Loading, Adding, Idle, NoFile, TypeOK
  <2>3. CASE Encrypt
    BY <2>3 DEF Encrypt, Retention, Readable, Ownership, MadeBy, Handlers, Loading, Adding, Idle, NoFile, TypeOK
  <2>4. CASE EncryptThrows
    BY <2>4 DEF EncryptThrows, Restart, Retention, Readable, Ownership, MadeBy, Handlers, Loading, Adding, Idle, NoFile, TypeOK
  <2>5. CASE Open
    BY <2>5 DEF Open, Retention, Readable, Ownership, MadeBy, Handlers, Loading, Adding, Idle, NoFile, TypeOK
  <2>6. CASE Close
    BY <2>6 DEF Close, Retention, Readable, Ownership, MadeBy, Handlers, Loading, Adding, Idle, NoFile, TypeOK
  <2>7. CASE ShowLogin
    BY <2>7 DEF ShowLogin, Retention, Readable, MadeBy
  <2>8. CASE SetSession
    BY <2>8 DEF SetSession, Retention, Readable, Ownership, MadeBy, Handlers, Loading, Adding, Idle, NoFile, TypeOK
  <2>8b. CASE PostLogin
    BY <2>8b DEF PostLogin, Retention, Readable, Ownership, MadeBy, Handlers, Loading, Adding, Idle, NoFile, TypeOK
  <2>9. CASE OnAccountBarLogin
    <3> USE DEF OnAccountBarLogin
    <3> SUFFICES ASSUME mishaps \subseteq {"raced"} PROVE Retention'
      BY <2>9 DEF Load, Retention
    <3>1. UNCHANGED <<book, file, made, session, last>> /\ mishaps' = mishaps
      BY <2>9 DEF Load
    <3>2. ui.pc = "idle" /\ ui'.pc \in {"idle", "list", "load"}
      BY <2>9, LoadStep DEF Loading, Idle
    <3>3. ui'.pc = "idle" => book # {}
      BY <2>9, LoadStep DEF Handlers, Loading, TypeOK
    <3>4. MadeBy(last)' = MadeBy(last)
      BY <3>1 DEF MadeBy
    <3> QED BY <3>1, <3>2, <3>3, <3>4 DEF Retention, Readable
  <2>10. CASE SignOut
    BY <2>10 DEF SignOut, Early, Retention, Readable, Ownership, MadeBy, Handlers, Loading, Adding, Idle, NoFile, TypeOK
  <2>11. ASSUME NEW then \in {"list", "load"}, Click(then) PROVE Retention'
    <3> USE DEF Click
    <3> SUFFICES ASSUME mishaps \subseteq {"raced"} PROVE Retention'
      BY <2>11 DEF Load, Retention
    <3>1. UNCHANGED <<book, file, made, session, last>> /\ mishaps' = mishaps
      BY <2>11 DEF Load
    <3>2. ui.pc = "idle" /\ ui'.pc \in {"idle", "list", "load"}
      BY <2>11, LoadStep DEF Loading, Idle
    <3>3. ui'.pc = "idle" => book # {}
      BY <2>11, LoadStep DEF Handlers, Loading, TypeOK
    <3>4. MadeBy(last)' = MadeBy(last)
      BY <3>1 DEF MadeBy
    <3> QED BY <3>1, <3>2, <3>3, <3>4 DEF Retention, Readable
  <2>12. ASSUME NEW k \in Addresses \ used, GenerateAddress(k) PROVE Retention'
    BY <2>12 DEF GenerateAddress, Early, Retention, Readable, Ownership, MadeBy, Handlers, Loading, Adding, Idle, NoFile, TypeOK
  <2>13. ASSUME NEW a \in Accounts, ClickLogin(a) PROVE Retention'
    BY <2>13 DEF ClickLogin, Retention, Readable, MadeBy
  <2>14. CASE UNCHANGED vars
    BY <2>14 DEF vars, Retention, Readable, MadeBy
  <2> QED
    BY <2>1, <2>2, <2>3, <2>4, <2>5, <2>6, <2>7, <2>8, <2>8b, <2>9, <2>10, <2>11, <2>12, <2>13, <2>14 DEF Next
<1>3. Retention => AddressesKept
  BY DEF Retention, AddressesKept
<1> QED BY <1>1, <1>2, <1>3, TypeCorrect, HandlersAlways, OwnershipAlways, PTL DEF Spec
=============================================================================
