------------------------------ MODULE Accounts ------------------------------
(***************************************************************************)
(* The accounts of the wallet: AccountManager on top of KeyManager on top  *)
(* of SecretStore, the files they keep, and the register and login forms   *)
(* and the sign-out button that drive them.                                *)
(*                                                                         *)
(* Login and CreateAccount are tasks of the network thread; signing out    *)
(* runs on the UI thread, without any lock.  The steps of both are the     *)
(* changes they make to what both use, and their writes to disk.  The      *)
(* process may end between any two steps: the network thread is detached   *)
(* and dies with the process.                                              *)
(*                                                                         *)
(* An account stands for its key, its uuid and its address.  Encryption,   *)
(* key derivation and hashing are symbolic: a password hash is the pair of *)
(* the password and the string it was salted with, and the key of the keys *)
(* file the pair of a password and the contents of the .salt file.  A      *)
(* random string is named after the account for which it was drawn.        *)
(***************************************************************************)
EXTENDS Naturals, Sequences, FiniteSets

CONSTANTS
    Accounts,       \* The keys MakeKey can make.
    Passwords,      \* What a user can type.
    None,           \* No account, no password, the empty string.
    ZeroAddress,    \* The address of no key.
    MaxPending      \* Bound on the tasks whose callback has not run.

ASSUME AccountsAssumption ==
    /\ None \notin Accounts \cup Passwords
    /\ ZeroAddress \notin Accounts \cup {None}
    /\ MaxPending \in Nat

VARIABLES
    \* SecretStore
    keys,               \* m_keys: the encrypted keys in memory
    cached,             \* m_cached: the keys that are also there decrypted
    file,               \* the key files: "none", "torn" or "whole"
    \* KeyManager
    lookup,             \* m_addrLookup and m_uuidLookup
    keyInfo,            \* m_keyInfo
    cachedPasswords,    \* m_cachedPasswords, for what users typed
    default,            \* m_defaultPasswordDeprecated
    keysFileKey,        \* m_keysFileKey
    master,             \* m_master
    salt,               \* the .salt file
    keysFile,           \* the keys file
    \* AccountManager
    session,            \* address_pair_
    \* the tasks and the forms
    pending,            \* Login and CreateAccount tasks that are queued
    net,                \* the task that runs
    messages,           \* messages posted to the UI thread: callbacks and events
    form,               \* the form that is shown
    registerHidden,     \* the login form's button to register was hidden
    signedIn,           \* the account bar shows the sign-out button
    ui,                 \* how far the handler of that button is, or "idle"
    \* history
    password,           \* the password each account was created with
    reported,           \* the accounts whose creation was reported
    mishaps             \* see Mishaps

store    == <<keys, cached, file>>
manager  == <<lookup, keyInfo, cachedPasswords, default, keysFileKey, master>>
disk     == <<salt, keysFile>>
screen   == <<form, registerHidden, signedIn>>
history  == <<password, reported, mishaps>>
vars     == <<store, manager, disk, session, pending, net, messages, screen, ui, history>>

Hashes == (Passwords \cup {None}) \X (Accounts \cup {None})
NoHash == <<None, None>>
NoKey  == <<None, None>>

NoInfo == [hash |-> NoHash, name |-> "none"]
Infos  == [hash : Hashes, name : {"none", "given", "empty"}]

NoKeysFile == [key |-> NoKey, info |-> [a \in Accounts |-> NoInfo], default |-> None]

\* What the code is not prepared for: to log in while a key is still there decrypted;
\* to sign out while a task runs; and that the task sets the session just then, when
\* signing out has emptied the cache and not yet the session.
Mishaps == {"cachedLogin", "signOutDuringTask", "loginDuringSignOut"}

NetIdle == [pc |-> "idle", op |-> "none", password |-> None, account |-> None,
            hash |-> NoHash, left |-> {}, writing |-> None, contents |-> NoKeysFile]

\* load has stored the key of the keys file and is not through.
KeyStored == {"loadInfo", "loadMaster", "loadCache"}
LoadSteps == {"load", "loadKey"} \cup KeyStored
AccountSteps == {"import", "session", "save", "create", "createKeys"} \cup LoadSteps

\* SecretStore's constructor reads every key file that holds a key.
Stored == {a \in Accounts : file[a] = "whole"}

Init ==
    /\ file = [a \in Accounts |-> "none"]
    /\ salt = None
    /\ keysFile = NoKeysFile
    /\ keys = Stored
    /\ lookup = Stored
    /\ cached = {}
    /\ keyInfo = [a \in Accounts |-> NoInfo]
    /\ cachedPasswords = {}
    /\ default = None
    /\ keysFileKey = NoKey
    /\ master = NoHash
    /\ session = None
    /\ pending = <<>>
    /\ net = NetIdle
    /\ messages = <<>>
    /\ form = "none"
    /\ registerHidden = FALSE
    /\ signedIn = FALSE
    /\ ui = "idle"
    /\ password = [a \in Accounts |-> None]
    /\ reported = {}
    /\ mishaps = {}

\* The process ends, with the files as they are, and is started again.  KeyManager's
\* constructor fills its lookups from the store; nothing else is known yet.
Restart ==
    /\ keys' = Stored
    /\ lookup' = Stored
    /\ cached' = {}
    /\ keyInfo' = [a \in Accounts |-> NoInfo]
    /\ cachedPasswords' = {}
    /\ default' = None
    /\ keysFileKey' = NoKey
    /\ master' = NoHash
    /\ session' = None
    /\ pending' = <<>>
    /\ net' = NetIdle
    /\ messages' = <<>>
    /\ form' = "none"
    /\ registerHidden' = FALSE
    /\ signedIn' = FALSE
    /\ ui' = "idle"

-----------------------------------------------------------------------------
(* KeyManager.                                                              *)

\* accounts() is not empty.
HasAccount == keys # {} \/ \E a \in Accounts : keyInfo[a] # NoInfo

exists == salt # None /\ keysFile # NoKeysFile

hashPassword(p) == <<p, default>>

\* getPassword with DontKnowThrow: what the cache has for the account's hash.
\* None stands for the exception PasswordUnknown.
getPassword(a) ==
    LET hash == IF a \in lookup THEN keyInfo[a].hash ELSE NoHash
    IN  IF hash \in cachedPasswords THEN hash[1] ELSE None

\* write(m_keysFile) does nothing without a key.  The file is written before
\* defaultPassword() looks for the master password in the cache, which throws
\* if it is not there; nobody catches that, and the process ends.
Write(info) ==
    keysFile' = IF keysFileKey = NoKey THEN keysFile
                ELSE [key |-> keysFileKey, info |-> info, default |-> default]

WriteThrows(passwords) == keysFileKey # NoKey /\ master \notin passwords

-----------------------------------------------------------------------------
(* The forms and the account bar (UI thread).                               *)

uiOnly == <<store, manager, disk, session, net, ui, history>>

\* Posted messages are served before input, so that a click is handled with no
\* event left in the queue.  The network thread may post meanwhile.
InputTurn ==
    /\ ui = "idle"
    /\ \A i \in DOMAIN messages : messages[i].msg \in {"success", "failure"}

FirstForm == IF HasAccount THEN "login" ELSE "register"

\* The account bar's button to register or log in.
ShowForm ==
    /\ InputTurn
    /\ ~signedIn
    /\ messages' = Append(messages, [msg |-> "show", form |-> FirstForm])
    /\ UNCHANGED <<uiOnly, pending, screen>>

\* The register form's button to log in, and the login form's to register.
SwitchForm ==
    /\ InputTurn
    /\ \/ form = "register"
       \/ form = "login" /\ ~registerHidden
    /\ messages' = Append(messages, [msg  |-> "show",
                                     form |-> IF form = "login" THEN "register" ELSE "login"])
    /\ UNCHANGED <<uiOnly, pending, screen>>

\* The login form's cancel button, or other content shown in place of a form.
LeaveForm ==
    /\ InputTurn
    /\ form # "none"
    /\ form' = "none"
    /\ UNCHANGED <<uiOnly, pending, messages, registerHidden, signedIn>>

Unanswered == Len(pending) + Len(messages) + (IF net.pc = "idle" THEN 0 ELSE 1)

\* OnOk of either form.  The form stays as it is until the callback.
Submit(p) ==
    /\ InputTurn
    /\ form # "none"
    /\ Unanswered < MaxPending
    /\ pending' = Append(pending, [op |-> form, password |-> p])
    /\ UNCHANGED <<uiOnly, messages, screen>>

\* SetContent shows a form.  The login form's button to register is hidden for
\* good when the form is shown while there is an account.
SetContent(f) ==
    /\ form' = f
    /\ registerHidden' = (registerHidden \/ (f = "login" /\ HasAccount))

\* OnShowLogin and OnShowRegister.
OnShow ==
    /\ ui = "idle" /\ messages # <<>> /\ Head(messages).msg = "show"
    /\ SetContent(Head(messages).form)
    /\ messages' = Tail(messages)
    /\ UNCHANGED <<uiOnly, pending, signedIn>>

\* OnAccountBarLogin: a user logged in, or signed out and a form is to be shown.
OnAccountBarLogin ==
    /\ ui = "idle" /\ messages # <<>> /\ Head(messages).msg = "bar"
    /\ IF Head(messages).form = "none"
       THEN signedIn' = TRUE /\ UNCHANGED <<form, registerHidden>>
       ELSE signedIn' = FALSE /\ SetContent(Head(messages).form)
    /\ messages' = Tail(messages)
    /\ UNCHANGED <<uiOnly, pending>>

\* Fault: the account bar is told only by a form that is still shown.
OnCallback_IfShown ==
    /\ ui = "idle" /\ messages # <<>> /\ Head(messages).msg \in {"success", "failure"}
    /\ IF Head(messages).msg = "success" /\ form = Head(messages).form
       THEN /\ form' = "none"
            /\ messages' = Append(Tail(messages), [msg |-> "bar", form |-> "none"])
       ELSE messages' = Tail(messages) /\ UNCHANGED form
    /\ UNCHANGED <<uiOnly, pending, registerHidden, signedIn>>

\* The callbacks of the two forms: a success hides the form that sent the task.
OnCallback ==
    /\ ui = "idle" /\ messages # <<>> /\ Head(messages).msg \in {"success", "failure"}
    /\ IF Head(messages).msg = "success"
       THEN /\ form' = IF form = Head(messages).form THEN "none" ELSE form
            /\ messages' = Append(Tail(messages), [msg |-> "bar", form |-> "none"])
       ELSE messages' = Tail(messages) /\ UNCHANGED form
    /\ UNCHANGED <<uiOnly, pending, registerHidden, signedIn>>

\* The sign-out button: AccountManager::Logout, which first calls KeyManager::clear.
\* The network thread may go on between any two steps.
SignOut ==
    /\ InputTurn
    /\ signedIn
    /\ lookup' = lookup \ {session}
    /\ keyInfo' = [a \in Accounts |-> IF a = session THEN NoInfo ELSE keyInfo[a]]
    /\ mishaps' = IF net.pc = "idle" THEN mishaps ELSE mishaps \cup {"signOutDuringTask"}
    /\ ui' = "clear"
    /\ UNCHANGED <<store, cachedPasswords, default, keysFileKey, master, disk, session, net,
                   pending, messages, screen, password, reported>>

\* Fault: the decrypted keys stay.
ClearCache_Keeps ==
    /\ ui = "clear" /\ ui' = "write"
    /\ cached' = cached
    /\ UNCHANGED <<keys, file, manager, disk, session, net, pending, messages, screen, history>>

ClearCache ==
    /\ ui = "clear" /\ ui' = "write"
    /\ cached' = {}
    /\ UNCHANGED <<keys, file, manager, disk, session, net, pending, messages, screen, history>>

WriteCleared ==
    /\ ui = "write"
    /\ Write(keyInfo)
    /\ IF WriteThrows(cachedPasswords)
       THEN Restart
       ELSE /\ ui' = "session"
            /\ UNCHANGED <<keys, cached, manager, session, net, pending, messages, screen>>
    /\ UNCHANGED <<file, salt, history>>

\* Fault: address_pair_ is not cleared.
ClearSession_Keeps ==
    /\ ui = "session" /\ ui' = "post"
    /\ session' = session
    /\ UNCHANGED <<store, manager, disk, net, pending, messages, screen, history>>

ClearSession ==
    /\ ui = "session" /\ ui' = "post"
    /\ session' = None
    /\ UNCHANGED <<store, manager, disk, net, pending, messages, screen, history>>

\* The event for the account bar.
PostSignedOut ==
    /\ ui = "post" /\ ui' = "idle"
    /\ messages' = Append(messages, [msg |-> "bar", form |-> FirstForm])
    /\ UNCHANGED <<store, manager, disk, session, net, pending, screen, history>>

-----------------------------------------------------------------------------
(* The network thread.                                                      *)

netOnly == <<pending, messages, screen, ui>>

TakeTask ==
    /\ net.pc = "idle"
    /\ pending # <<>>
    /\ pending' = Tail(pending)
    /\ net' = [NetIdle EXCEPT !.op = Head(pending).op,
                              !.password = Head(pending).password,
                              !.pc = IF Head(pending).op = "login" THEN "find" ELSE "make"]
    /\ mishaps' = IF ui = "idle" THEN mishaps ELSE mishaps \cup {"signOutDuringTask"}
    /\ UNCHANGED <<store, manager, disk, session, messages, screen, ui, password, reported>>

\* SecretStore::secret with the password that was typed: the decrypted key if it
\* is in the cache, else the file's key if the password is right.
Decrypts(a) == a \in keys /\ (a \in cached \/ password[a] = net.password)

\* Fault: load is called without an account.
FindAccount_LoadsAnyway ==
    /\ net.pc = "find"
    /\ \/ /\ \A a \in keys : ~Decrypts(a)
          /\ net' = [net EXCEPT !.pc = "load"]
          /\ UNCHANGED <<cached, mishaps>>
       \/ \E a \in keys :
            /\ Decrypts(a)
            /\ cached' = cached \cup {a}
            /\ net' = [net EXCEPT !.pc = "import", !.account = a]
            /\ mishaps' = IF a \in cached THEN mishaps \cup {"cachedLogin"} ELSE mishaps
    /\ UNCHANGED <<netOnly, keys, file, manager, disk, session, password, reported>>

\* Login's loop over the keys, in the order of a hash table with random keys.
FindAccount ==
    /\ net.pc = "find"
    /\ \/ /\ \A a \in keys : ~Decrypts(a)
          /\ net' = [net EXCEPT !.pc = "reply"]
          /\ UNCHANGED <<cached, mishaps>>
       \/ \E a \in keys :
            /\ Decrypts(a)
            /\ cached' = cached \cup {a}
            /\ net' = [net EXCEPT !.pc = "import", !.account = a]
            /\ mishaps' = IF a \in cached THEN mishaps \cup {"cachedLogin"} ELSE mishaps
    /\ UNCHANGED <<netOnly, keys, file, manager, disk, session, password, reported>>

\* Fault: the password is not cached.
ImportExisting_NoCache ==
    LET a    == net.account
        pwds == cachedPasswords \cup {hashPassword(net.password)}
        info == [keyInfo EXCEPT ![a] = [hash |-> hashPassword(net.password),
                                        name |-> "empty"]]
    IN  /\ net.pc = "import"
        /\ IF ~Decrypts(a)
           THEN /\ net' = [net EXCEPT !.pc = "session"]
                /\ UNCHANGED <<cached, keys, manager, keysFile, session, netOnly>>
           ELSE /\ Write(info)
                /\ IF WriteThrows(pwds)
                   THEN Restart
                   ELSE /\ cached' = cached \cup {a}
                        /\ cachedPasswords' = cachedPasswords
                        /\ lookup' = lookup \cup {a}
                        /\ keyInfo' = info
                        /\ net' = [net EXCEPT !.pc = "session"]
                        /\ UNCHANGED <<keys, default, keysFileKey, master, session, netOnly>>
        /\ UNCHANGED <<file, salt, history>>

\* importExisting, under an empty name.
ImportExisting ==
    LET a    == net.account
        pwds == cachedPasswords \cup {hashPassword(net.password)}
        info == [keyInfo EXCEPT ![a] = [hash |-> hashPassword(net.password),
                                        name |-> "empty"]]
    IN  /\ net.pc = "import"
        /\ IF ~Decrypts(a)
           THEN /\ net' = [net EXCEPT !.pc = "session"]
                /\ UNCHANGED <<cached, keys, manager, keysFile, session, netOnly>>
           ELSE /\ Write(info)
                /\ IF WriteThrows(pwds)
                   THEN Restart
                   ELSE /\ cached' = cached \cup {a}
                        /\ cachedPasswords' = pwds
                        /\ lookup' = lookup \cup {a}
                        /\ keyInfo' = info
                        /\ net' = [net EXCEPT !.pc = "session"]
                        /\ UNCHANGED <<keys, default, keysFileKey, master, session, netOnly>>
        /\ UNCHANGED <<file, salt, history>>

SetSession ==
    /\ net.pc = "session"
    /\ session' = IF net.op = "login" /\ net.account \notin lookup THEN ZeroAddress
                  ELSE net.account
    /\ net' = [net EXCEPT !.pc = IF net.op = "login" THEN "load" ELSE "create"]
    /\ mishaps' = IF ui \in {"write", "session"} THEN mishaps \cup {"loginDuringSignOut"} ELSE mishaps
    /\ UNCHANGED <<netOnly, store, manager, disk, password, reported>>

\* load, whose result Login ignores, reads the file, which the UI thread may replace
\* while it goes on.
ReadKeysFile ==
    /\ net.pc = "load"
    /\ net' = IF keysFile = NoKeysFile THEN [net EXCEPT !.pc = "reply"]
              ELSE [net EXCEPT !.pc = "loadKey", !.contents = keysFile]
    /\ UNCHANGED <<netOnly, store, manager, disk, session, history>>

\* The key is stored before it is known to be the right one.
StoreKey ==
    /\ net.pc = "loadKey"
    /\ keysFileKey' = <<net.password, salt>>
    /\ net' = [net EXCEPT !.pc = "loadInfo"]
    /\ UNCHANGED <<netOnly, store, lookup, keyInfo, cachedPasswords, default, master, disk,
                   session, history>>

\* Decrypting with a wrong key yields garbage, which either is not RLP (an exception,
\* caught) or has a version other than 1.
ReadInfos ==
    LET contents == net.contents
        right == contents.key = <<net.password, salt>>
        known == IF right THEN {a \in keys : contents.info[a] # NoInfo} ELSE {}
    IN  /\ net.pc = "loadInfo"
        /\ lookup' = lookup \cup known
        /\ keyInfo' = [a \in Accounts |-> IF a \in known THEN contents.info[a] ELSE keyInfo[a]]
        /\ default' = IF right THEN contents.default ELSE default
        /\ \/ net' = [net EXCEPT !.pc = "loadMaster", !.contents = NoKeysFile]
           \/ ~right /\ net' = [net EXCEPT !.pc = "reply", !.contents = NoKeysFile]
        /\ UNCHANGED <<netOnly, store, cachedPasswords, keysFileKey, master, disk, session, history>>

\* Fault: m_master is not set.
SetMaster_Keeps ==
    /\ net.pc = "loadMaster"
    /\ master' = master
    /\ net' = [net EXCEPT !.pc = "loadCache"]
    /\ UNCHANGED <<netOnly, store, lookup, keyInfo, cachedPasswords, default, keysFileKey, disk,
                   session, history>>

SetMaster ==
    /\ net.pc = "loadMaster"
    /\ master' = hashPassword(net.password)
    /\ net' = [net EXCEPT !.pc = "loadCache"]
    /\ UNCHANGED <<netOnly, store, lookup, keyInfo, cachedPasswords, default, keysFileKey, disk,
                   session, history>>

CacheMaster ==
    /\ net.pc = "loadCache"
    /\ cachedPasswords' = cachedPasswords \cup {hashPassword(net.password)}
    /\ net' = [net EXCEPT !.pc = "reply"]
    /\ UNCHANGED <<netOnly, store, lookup, keyInfo, default, keysFileKey, master, disk,
                   session, history>>

\* Fault: importSecret does not save.
MakeKey_NoSave ==
    /\ net.pc = "make"
    /\ \E a \in Accounts :
        /\ password[a] = None
        /\ password' = [password EXCEPT ![a] = net.password]
        /\ keys' = keys \cup {a}
        /\ cached' = cached \cup {a}
        /\ cachedPasswords' = cachedPasswords \cup {hashPassword(net.password)}
        /\ net' = [net EXCEPT !.pc = "save", !.account = a, !.left = {},
                              !.hash = hashPassword(net.password)]
    /\ UNCHANGED <<netOnly, file, lookup, keyInfo, default, keysFileKey, master, disk,
                   session, reported, mishaps>>

\* CreateAccount: MakeKey, the first part of import, and importSecret up to the
\* call of save.
MakeKey ==
    /\ net.pc = "make"
    /\ \E a \in Accounts :
        /\ password[a] = None
        /\ password' = [password EXCEPT ![a] = net.password]
        /\ keys' = keys \cup {a}
        /\ cached' = cached \cup {a}
        /\ cachedPasswords' = cachedPasswords \cup {hashPassword(net.password)}
        /\ net' = [net EXCEPT !.pc = "save", !.account = a, !.left = keys \cup {a},
                              !.hash = hashPassword(net.password)]
    /\ UNCHANGED <<netOnly, file, lookup, keyInfo, default, keysFileKey, master, disk,
                   session, reported, mishaps>>

\* SecretStore::save writes every key to its file again: the file is truncated
\* when it is opened, and holds a key again once it is written.
SaveOpen ==
    /\ net.pc = "save" /\ net.writing = None
    /\ \E a \in net.left :
        /\ file' = [file EXCEPT ![a] = "torn"]
        /\ net' = [net EXCEPT !.writing = a]
    /\ UNCHANGED <<netOnly, keys, cached, manager, disk, session, history>>

SaveWrite ==
    /\ net.pc = "save" /\ net.writing # None
    /\ file' = [file EXCEPT ![net.writing] = "whole"]
    /\ net' = [net EXCEPT !.writing = None, !.left = @ \ {net.writing}]
    /\ UNCHANGED <<netOnly, keys, cached, manager, disk, session, history>>

\* Fault: write is called before save is through.
ImportInfo_BeforeSave ==
    LET info == [keyInfo EXCEPT ![net.account] = [hash |-> net.hash, name |-> "given"]]
    IN  /\ net.pc = "save" /\ net.writing = None
        /\ Write(info)
        /\ IF WriteThrows(cachedPasswords)
           THEN Restart
           ELSE /\ keyInfo' = info
                /\ lookup' = lookup \cup {net.account}
                /\ net' = [net EXCEPT !.pc = "session"]
                /\ UNCHANGED <<keys, cached, cachedPasswords, default, keysFileKey, master,
                               session, netOnly>>
        /\ UNCHANGED <<file, salt, history>>

\* The rest of import.
ImportInfo ==
    LET info == [keyInfo EXCEPT ![net.account] = [hash |-> net.hash, name |-> "given"]]
    IN  /\ net.pc = "save" /\ net.writing = None /\ net.left = {}
        /\ Write(info)
        /\ IF WriteThrows(cachedPasswords)
           THEN Restart
           ELSE /\ keyInfo' = info
                /\ lookup' = lookup \cup {net.account}
                /\ net' = [net EXCEPT !.pc = "session"]
                /\ UNCHANGED <<keys, cached, cachedPasswords, default, keysFileKey, master,
                               session, netOnly>>
        /\ UNCHANGED <<file, salt, history>>

\* Fault: create is called whether or not there is a keys file.
CreateSalt_EvenIfExists ==
    /\ net.pc = "create"
    /\ IF FALSE
       THEN /\ net' = [net EXCEPT !.pc = "reply"]
            /\ UNCHANGED <<salt, default, cachedPasswords, master>>
       ELSE /\ default' = net.account
            /\ salt' = net.account
            /\ cachedPasswords' = cachedPasswords \cup {<<net.password, net.account>>}
            /\ master' = <<net.password, net.account>>
            /\ net' = [net EXCEPT !.pc = "createKeys"]
    /\ UNCHANGED <<netOnly, store, lookup, keyInfo, keysFileKey, keysFile, session, history>>

\* create, if there is no keys file: a new default and a new salt, and then the
\* keys file.  Both files are written to the side and renamed.
CreateSalt ==
    /\ net.pc = "create"
    /\ IF exists
       THEN /\ net' = [net EXCEPT !.pc = "reply"]
            /\ UNCHANGED <<salt, default, cachedPasswords, master>>
       ELSE /\ default' = net.account
            /\ salt' = net.account
            /\ cachedPasswords' = cachedPasswords \cup {<<net.password, net.account>>}
            /\ master' = <<net.password, net.account>>
            /\ net' = [net EXCEPT !.pc = "createKeys"]
    /\ UNCHANGED <<netOnly, store, lookup, keyInfo, keysFileKey, keysFile, session, history>>

CreateKeysFile ==
    /\ net.pc = "createKeys"
    /\ keysFileKey' = <<net.password, salt>>
    /\ keysFile' = [key |-> <<net.password, salt>>, info |-> keyInfo, default |-> default]
    /\ net' = [net EXCEPT !.pc = "reply"]
    /\ UNCHANGED <<netOnly, store, lookup, keyInfo, cachedPasswords, default, master, salt,
                   session, history>>

\* Fault: Login never fails.
Reply_AlwaysSucceeds ==
    /\ net.pc = "reply"
    /\ messages' = Append(messages, [msg |-> "success", form |-> net.op])
    /\ reported' = IF net.op = "register" THEN reported \cup {net.account} ELSE reported
    /\ net' = NetIdle
    /\ UNCHANGED <<store, manager, disk, session, pending, screen, ui, password, mishaps>>

\* The task ends and its callback is posted; Login's fails if no key was found.
Reply ==
    /\ net.pc = "reply"
    /\ messages' = Append(messages, [msg  |-> IF net.account = None THEN "failure" ELSE "success",
                                     form |-> net.op])
    /\ reported' = IF net.op = "register" THEN reported \cup {net.account} ELSE reported
    /\ net' = NetIdle
    /\ UNCHANGED <<store, manager, disk, session, pending, screen, ui, password, mishaps>>

\* The user closes the window, or the machine stops.
Exit ==
    /\ Restart
    /\ UNCHANGED <<file, disk, history>>

Next ==
    \/ ShowForm \/ SwitchForm \/ LeaveForm
    \/ \E p \in Passwords : Submit(p)
    \/ SignOut \/ ClearCache \/ WriteCleared \/ ClearSession \/ PostSignedOut
    \/ OnShow \/ OnAccountBarLogin \/ OnCallback
    \/ TakeTask
    \/ FindAccount \/ ImportExisting \/ SetSession
    \/ ReadKeysFile \/ StoreKey \/ ReadInfos \/ SetMaster \/ CacheMaster
    \/ MakeKey \/ SaveOpen \/ SaveWrite \/ ImportInfo \/ CreateSalt \/ CreateKeysFile
    \/ Reply
    \/ Exit

Spec == Init /\ [][Next]_vars

-----------------------------------------------------------------------------
(* Properties.                                                              *)

Tasks == [op : {"login", "register"}, password : Passwords]

KeysFiles == [key : Hashes, info : [Accounts -> Infos], default : Accounts \cup {None}]

Messages == [msg  : {"success", "failure", "show", "bar"},
             form : {"none", "login", "register"}]

NetStates ==
    [pc       : {"idle", "find", "make", "reply"} \cup AccountSteps,
     op       : {"none", "login", "register"},
     password : Passwords \cup {None},
     account  : Accounts \cup {None},
     hash     : Hashes,
     left     : SUBSET Accounts,
     writing  : Accounts \cup {None},
     contents : KeysFiles]

HasItsAccount ==
    /\ net.pc \in AccountSteps => net.account \in Accounts
    /\ net.pc = "reply" /\ net.op = "register" => net.account \in Accounts
    /\ net.pc = "find" => net.op = "login"

(* The variables have their types, and a task that is past the search has   *)
(* an account.                                                              *)
TypeOK ==
    /\ keys \subseteq Accounts /\ cached \subseteq Accounts
    /\ file \in [Accounts -> {"none", "torn", "whole"}]
    /\ lookup \subseteq Accounts
    /\ keyInfo \in [Accounts -> Infos]
    /\ cachedPasswords \subseteq Hashes
    /\ default \in Accounts \cup {None}
    /\ keysFileKey \in Hashes /\ master \in Hashes
    /\ salt \in Accounts \cup {None}
    /\ keysFile \in KeysFiles
    /\ session \in Accounts \cup {None, ZeroAddress}
    /\ pending \in Seq(Tasks)
    /\ net \in NetStates
    /\ HasItsAccount
    /\ messages \in Seq(Messages)
    /\ form \in {"none", "login", "register"}
    /\ registerHidden \in BOOLEAN /\ signedIn \in BOOLEAN
    /\ ui \in {"idle", "clear", "write", "session", "post"}
    /\ password \in [Accounts -> Passwords \cup {None}]
    /\ reported \subseteq Accounts
    /\ mishaps \subseteq Mishaps

(* "The keys are read into memory and changes to the keys are automatically *)
(* synced to the directory": outside of save, memory and directory hold the *)
(* same keys, whenever the process ended and was started again.             *)
StoreSynced == net.pc # "save" => keys = Stored

(* A process that ends at any step leaves a keys file that belongs to the   *)
(* .salt file next to it: it can be read with the master password.          *)
KeysFileReadable == keysFile # NoKeysFile => keysFile.key[2] = salt

(* The keys file never mentions an account whose key was not written to a   *)
(* file before, wherever the process ended between import's two writes.     *)
KeyFileFirst == \A a \in Accounts : keysFile.info[a] # NoInfo => file[a] # "none"

(* When nobody is logged in and nothing is under way, no key is there       *)
(* decrypted, also if the user signed out while a task was caching one,     *)
(* unless the task set the session between the moment when the cache was    *)
(* emptied and the one when the session was: signing out then forgets the   *)
(* new session and not its key.                                             *)
SignOutForgets ==
    net.pc = "idle" /\ ui = "idle" /\ session = None /\ "loginDuringSignOut" \notin mishaps
        => cached = {}

(* The account that is logged in can sign: its uuid is known and its key is *)
(* there decrypted.  Nothing is said of a sign-out while a task runs: that  *)
(* can leave the zero address logged in, for which secret() throws.         *)
SessionUsable ==
    net.pc = "idle" /\ ui = "idle" /\ session # None /\ "signOutDuringTask" \notin mishaps
        => session \in lookup \cap cached

(* For the account that is logged in, the password cache has the password   *)
(* its key is encrypted with, whatever default password the hashes in the   *)
(* keys file were salted with.  Nothing is said of a login while the key    *)
(* was there decrypted: that accepts, and then caches, any password.        *)
PasswordAvailable ==
    net.pc = "idle" /\ ui = "idle" /\ session \in Accounts /\ "cachedLogin" \notin mishaps
        => getPassword(session) = password[session]

(* The exception that ends the process in write() is thrown only while load *)
(* is between storing the key and caching the password, by a sign-out, or   *)
(* after a load with the wrong password: else, as long as the key in memory *)
(* is that of the file, the master password is in the cache.                *)
ThrowsOnlyAfterBadLoad ==
    net.pc \notin KeyStored /\ keysFileKey # NoKey /\ keysFile.key = keysFileKey
        => master \in cachedPasswords

(* Whoever is logged in can sign out: once no task runs and every message   *)
(* is served, the account bar shows the button, in whatever order logins    *)
(* and sign-outs overlapped and whether or not the form was left meanwhile. *)
CanSignOut == net.pc = "idle" /\ messages = <<>> /\ session # None => signedIn

\* For the rest of the program a task has found its account once the session is set;
\* messages to the account bar are as good as served.
SignInTask ==
    CASE net.pc = "idle" -> "none"
      [] net.pc \in {"create", "createKeys"} \cup LoadSteps \/ (net.pc = "reply" /\ net.account # None) -> "found"
      [] OTHER -> "looking"

Posted(msg, q) == {i \in DOMAIN q : q[i].msg = msg}

\* What the account bar shows after the messages in q.
ButtonAfter(q, shown) ==
    LET bars == Posted("bar", q)
    IN  IF bars = {} THEN shown
        ELSE \E i \in bars : (\A j \in bars : j <= i) /\ q[i].form = "none"

SI == INSTANCE SignIn WITH
    Users <- Accounts \cup {ZeroAddress}, Nobody <- None,
    user <- session, task <- SignInTask,
    news <- Cardinality(Posted("success", messages)), button <- ui # "post" /\ ButtonAfter(messages, signedIn)

(* The steps of Login and CreateAccount, with their files, caches and       *)
(* passwords, and those of the forms, are what SignIn says of logging in    *)
(* and out, with a sign-out at any step of a task and the process ending at *)
(* any step.                                                                *)
SignsIn == SI!SignInSpec

(* "Only use if previously loaded ok": a write() of the keys file uses the  *)
(* key the file has, so that its password still opens it, even if the user  *)
(* does nothing the code is not prepared for.                               *)
WriteOnlyAfterLoadedOk ==
    [][mishaps' = {} /\ keysFile # NoKeysFile => keysFile'.key = keysFile.key]_vars

(* "Each file stores exactly one key": when no task runs, the key of every  *)
(* account whose creation was reported is in its file.                      *)
ReportedKeyKept == net.pc = "idle" => reported \subseteq Stored

(* accountName "returns the human-readable name": the account that is       *)
(* logged in has the name it was registered with, also after the user       *)
(* signed out and logged in again.                                          *)
NameKept ==
    net.pc = "idle" /\ session \in reported /\ mishaps = {}
        => keyInfo[session].name = "given"
=============================================================================
