----------------------------- MODULE ColdWallet -----------------------------
(***************************************************************************)
(* The cold wallet's address book: AccountManager's addresses with their   *)
(* private keys, the encrypted file that each account has for them, and    *)
(* CColdWalletMainWindow, which lists, adds and loads them.                *)
(*                                                                         *)
(* An address stands for its key.  GenerateAddress and LoadAddresses run   *)
(* on the UI thread and ask Address() twice, for the key to encrypt with   *)
(* and for the name of the file; a login that is still queued changes it   *)
(* in between, on the network thread.  A login sets the session, loads the *)
(* keys, which takes a while, and only then posts its callback; the UI     *)
(* thread takes input all the time.  The file is opened, which truncates   *)
(* it, and then written; the process may end at any step.                  *)
(*                                                                         *)
(* Whoever is logged in can decrypt with the password of the login         *)
(* (Accounts, PasswordAvailable).  With nobody logged in the key manager   *)
(* throws, which nobody catches.                                           *)
(***************************************************************************)
EXTENDS Naturals, Sequences

CONSTANTS
    Accounts,       \* The accounts of the cold wallet.
    Addresses,      \* The addresses MakeKey can make.
    None,           \* Nobody.
    MaxLogins       \* Bound on the logins queued at a time.

ASSUME ColdWalletAssumption == None \notin Accounts /\ MaxLogins \in Nat

VARIABLES
    session,    \* address_pair_
    book,       \* address_lookup_ and cached_
    file,       \* cold_wallet/<account>: what it holds and whose key it needs
    ui,         \* the handler that runs on the UI thread
    logins,     \* the Login tasks of the network thread, with the running one
    loading,    \* the running one has set the session and not posted its callback
    posted,     \* how many callbacks of logins are posted
    content,    \* show_panel_'s content_: "none", "login", "list" or "new"
    signOut,    \* the account bar shows the button to sign out
    \* history
    last,       \* who was logged in last since the process started
    made,       \* the addresses GenerateAddress has returned to each account
    used,       \* the addresses ever made
    mishaps     \* see Mishaps

vars == <<session, book, file, ui, logins, loading, posted, content, signOut, last, made, used, mishaps>>

\* What the code is not prepared for: another account logs in while the book is
\* not empty, a login while a handler runs, an address is added or the user signs
\* out while a login loads its keys, so that the list is not of who is logged in,
\* and the end of the process while the file is being written.
Mishaps == {"switched", "raced", "early", "torn"}

Early == IF loading THEN {"early"} ELSE {}

NoFile == [holds |-> {}, key |-> None]
Idle   == [pc |-> "idle", new |-> {}, cipher |-> NoFile, path |-> None]

Init ==
    /\ session = None
    /\ book = {}
    /\ file = [a \in Accounts |-> NoFile]
    /\ ui = Idle
    /\ logins = <<>>
    /\ loading = FALSE
    /\ posted = 0
    /\ content = "none"
    /\ signOut = FALSE
    /\ last = None
    /\ made = [a \in Accounts |-> {}]
    /\ used = {}
    /\ mishaps = {}

\* The process is gone and is started again, with the files as they are.
Restart ==
    /\ session' = None
    /\ book' = {}
    /\ ui' = Idle
    /\ logins' = <<>>
    /\ loading' = FALSE
    /\ posted' = 0
    /\ content' = "none"
    /\ signOut' = FALSE
    /\ last' = None
    /\ UNCHANGED <<made, used>>

Crash ==
    /\ Restart
    /\ mishaps' = mishaps \cup (IF ui.pc = "close" THEN {"torn"} ELSE {})
    /\ UNCHANGED file

-----------------------------------------------------------------------------
(* Loading and listing.                                                     *)

\* GetAddresses loads only if there is nothing yet; so does LoadAddresses itself.
\* What is done with the addresses comes after: to show the list, or nothing more.
Load_Never(then) ==
    /\ content' = IF then = "list" THEN "list" ELSE content
    /\ UNCHANGED <<session, book, file, ui, logins, loading, last, made, used, mishaps>>

Load(then) ==
    /\ IF book # {} \/ session = None
       THEN /\ content' = IF then = "list" THEN "list" ELSE content
            /\ UNCHANGED ui
       ELSE /\ ui' = [Idle EXCEPT !.pc = then, !.path = session]
            /\ UNCHANGED content
    /\ UNCHANGED <<session, book, file, logins, loading, last, made, used, mishaps>>

\* decryptUseEncryptedKey and Deserialize: what another key encrypted, or only a
\* part of the text, is not a dictionary, and leaves the book empty.
DecryptInto(garbage) ==
    /\ ui.pc \in {"list", "load"}
    /\ book' = IF file[ui.path].key = session THEN file[ui.path].holds ELSE garbage
    /\ content' = IF ui.pc = "list" THEN "list" ELSE content
    /\ ui' = Idle
    /\ UNCHANGED <<session, file, logins, loading, posted, signOut, last, made, used, mishaps>>

Decrypt_Unchecked == DecryptInto({None})
Decrypt == DecryptInto({})

\* The buttons of the toolbar, which ask CheckLogin: the list, and the three that
\* load files of transactions, freezes and votes.
Click(then) ==
    /\ ui = Idle /\ posted = 0 /\ session # None
    /\ Load(then)
    /\ UNCHANGED <<posted, signOut>>

-----------------------------------------------------------------------------
(* GenerateAddress, from the first row of the list.                         *)

GenerateAddress(k) ==
    /\ ui = Idle /\ posted = 0 /\ content = "list"
    /\ book' = book \cup {k}
    /\ used' = used \cup {k}
    /\ ui' = [Idle EXCEPT !.pc = "encrypt", !.new = {k}]
    /\ mishaps' = mishaps \cup Early
    /\ UNCHANGED <<session, file, logins, loading, posted, content, signOut, last, made>>

\* encryptUseEncryptedKey, for whoever is logged in.
Encrypt ==
    /\ ui.pc = "encrypt" /\ session # None
    /\ ui' = [ui EXCEPT !.pc = "open", !.cipher = [holds |-> book, key |-> session]]
    /\ UNCHANGED <<session, book, file, logins, loading, posted, content, signOut, last, made, used, mishaps>>

\* It throws if nobody is, and the process ends.
EncryptThrows_Survives ==
    /\ ui.pc = "encrypt" /\ session = None
    /\ ui' = Idle
    /\ UNCHANGED <<session, book, file, logins, loading, posted, content, signOut, last, made, used, mishaps>>

EncryptThrows ==
    /\ ui.pc = "encrypt" /\ session = None
    /\ Restart
    /\ UNCHANGED <<file, mishaps>>

\* WriteFile truncates the file when it opens it.
Open ==
    /\ ui.pc = "open"
    /\ ui' = [ui EXCEPT !.pc = "close", !.path = session]
    /\ file' = [file EXCEPT ![session] = NoFile]
    /\ UNCHANGED <<session, book, logins, loading, posted, content, signOut, last, made, used, mishaps>>

\* The address is shown once the file is written.
Close ==
    /\ ui.pc = "close"
    /\ file' = [file EXCEPT ![ui.path] = ui.cipher]
    /\ made' = [made EXCEPT ![ui.path] = @ \cup ui.new]
    /\ content' = "new"
    /\ ui' = Idle
    /\ UNCHANGED <<session, book, logins, loading, posted, signOut, last, used, mishaps>>

-----------------------------------------------------------------------------
(* Logging in and out.                                                      *)

ShowLogin ==
    /\ ui = Idle /\ posted = 0 /\ ~signOut
    /\ content' = "login"
    /\ UNCHANGED <<session, book, file, ui, logins, loading, posted, signOut, last, made, used, mishaps>>

ClickLogin(a) ==
    /\ ui = Idle /\ posted = 0 /\ content = "login"
    /\ Len(logins) < MaxLogins
    /\ logins' = Append(logins, a)
    /\ UNCHANGED <<session, book, file, ui, loading, posted, content, signOut, last, made, used, mishaps>>

\* On the network thread, which runs one login after the other: the session, and
\* then KeyManager::load.
SetSession ==
    /\ logins # <<>> /\ ~loading
    /\ session' = Head(logins)
    /\ last' = Head(logins)
    /\ loading' = TRUE
    /\ mishaps' = mishaps
         \cup (IF book # {} /\ last # Head(logins) THEN {"switched"} ELSE {})
         \cup (IF ui # Idle THEN {"raced"} ELSE {})
    /\ UNCHANGED <<book, file, ui, logins, posted, content, signOut, made, used>>

\* The keys are loaded: the task is done and its callback posted.
PostLogin ==
    /\ loading
    /\ loading' = FALSE
    /\ logins' = Tail(logins)
    /\ posted' = posted + 1
    /\ UNCHANGED <<session, book, file, ui, content, signOut, last, made, used, mishaps>>

\* The callback of a login and OnAccountBarLogin for the event it posts.
OnAccountBarLogin ==
    /\ ui = Idle /\ posted > 0
    /\ posted' = posted - 1
    /\ signOut' = TRUE
    /\ Load("list")

\* Logout keeps the book; OnAccountBarLogin shows the list in place of the login form.
SignOut ==
    /\ ui = Idle /\ posted = 0 /\ signOut
    /\ session' = None
    /\ signOut' = FALSE
    /\ content' = "list"
    /\ mishaps' = mishaps \cup Early
    /\ UNCHANGED <<book, file, ui, logins, loading, posted, last, made, used>>

-----------------------------------------------------------------------------
Next ==
    \/ Crash
    \/ Decrypt \/ Encrypt \/ EncryptThrows \/ Open \/ Close
    \/ ShowLogin \/ SetSession \/ PostLogin \/ OnAccountBarLogin \/ SignOut
    \/ \E then \in {"list", "load"} : Click(then)
    \/ \E k \in Addresses \ used : GenerateAddress(k)
    \/ \E a \in Accounts : ClickLogin(a)

Spec == Init /\ [][Next]_vars

-----------------------------------------------------------------------------
TypeOK ==
    /\ session \in Accounts \cup {None}
    /\ book \subseteq Addresses
    /\ file \in [Accounts -> [holds : SUBSET Addresses, key : Accounts \cup {None}]]
    /\ ui \in [pc : {"idle", "list", "load", "encrypt", "open", "close"},
               new : SUBSET Addresses,
               cipher : [holds : SUBSET Addresses, key : Accounts \cup {None}],
               path : Accounts \cup {None}]
    /\ logins \in Seq(Accounts)
    /\ loading \in BOOLEAN /\ (loading => logins # <<>>)
    /\ posted \in Nat
    /\ content \in {"none", "login", "list", "new"}
    /\ signOut \in BOOLEAN
    /\ last \in Accounts \cup {None}
    /\ made \in [Accounts -> SUBSET Addresses]
    /\ used \subseteq Addresses
    /\ mishaps \subseteq Mishaps

\* The addresses of the account that its next login can load.
Readable(a) == IF file[a].key = a THEN file[a].holds ELSE {}

\* Every address that was shown to an account, and may have received money since,
\* can be loaded from the account's file again, however often the process was
\* started and ended and whichever logins came while a handler ran.  It is lost if
\* another account logs in over a book that is not empty, if an address is added
\* from a list that is not loaded yet (or never, after a sign-out while the login
\* was loading), or if the process ends while it writes.  While the file is written
\* the addresses are in what is being written.
AddressesKept ==
    mishaps \subseteq {"raced"} =>
        \A a \in Accounts :
            made[a] \subseteq (IF ui.pc = "close" /\ ui.path = a THEN ui.cipher.holds ELSE Readable(a))

\* The keys that whoever is logged in can look up, sign with and save are the
\* account's own, as long as no other account logged in before it.
BookOfSession ==
    "switched" \notin mishaps /\ session # None /\ ui = Idle => book \subseteq made[session]
=============================================================================
