--------------------------- MODULE AccountsProofs ---------------------------
(***************************************************************************)
(* The accounts, proved for any number of accounts, passwords and tasks,   *)
(* and with the process ending at any step: the store and its directory    *)
(* agree, the keys file can be read, no key stays decrypted when nobody is *)
(* logged in, and for the account that is logged in the key, its uuid and  *)
(* its password are at hand.                                               *)
(***************************************************************************)
EXTENDS Accounts, FiniteSetTheorems, TLAPS

-----------------------------------------------------------------------------
(* Types.                                                                   *)

\* The empty hash and the missing key have the type of hashes.
LEMMA HashTypes == NoHash \in Hashes /\ NoKey \in Hashes
  BY DEF NoHash, NoKey, Hashes

\* A missing info and a missing keys file have their types.
LEMMA InfoTypes == NoInfo \in Infos /\ NoKeysFile \in KeysFiles
<1>1. NoInfo \in Infos
  BY HashTypes DEF NoInfo, Infos
<1> QED
  BY <1>1, HashTypes DEF NoKeysFile, KeysFiles

\* An idle network thread is a state of the network thread.
LEMMA NetIdleType == NetIdle \in NetStates /\ NetIdle.pc = "idle"
  BY HashTypes, InfoTypes DEF NetIdle, NetStates

\* Serving a message and posting one keep the type of the message queue.
LEMMA MessageTypes ==
  ASSUME NEW q \in Seq(Messages)
  PROVE  /\ q # <<>> => Tail(q) \in Seq(Messages) /\ Head(q) \in Messages
         /\ \A m \in Messages : Append(q, m) \in Seq(Messages)
  OBVIOUS

\* Taking a task and submitting one keep the type of the task queue.
LEMMA TaskTypes ==
  ASSUME NEW q \in Seq(Tasks)
  PROVE  /\ q # <<>> => Tail(q) \in Seq(Tasks) /\ Head(q) \in Tasks
         /\ \A t \in Tasks : Append(q, t) \in Seq(Tasks)
  OBVIOUS

\* Initially the variables have their types.
LEMMA TypeInit ==
  ASSUME Init
  PROVE  TypeOK
<1>1. /\ keys \subseteq Accounts /\ cached \subseteq Accounts
      /\ file \in [Accounts -> {"none", "torn", "whole"}]
      /\ lookup \subseteq Accounts /\ cachedPasswords \subseteq Hashes
      /\ default \in Accounts \cup {None}
  BY DEF Init, Stored
<1>2. /\ keyInfo \in [Accounts -> Infos]
      /\ keysFileKey \in Hashes /\ master \in Hashes
      /\ salt \in Accounts \cup {None} /\ keysFile \in KeysFiles
      /\ session \in Accounts \cup {None, ZeroAddress}
  BY HashTypes, InfoTypes DEF Init, Stored
<1>3. /\ net \in NetStates
      /\ HasItsAccount
  BY NetIdleType DEF Init, Stored, LoadSteps, KeyStored, AccountSteps, HasItsAccount
<1>4. /\ pending \in Seq(Tasks)
      /\ messages \in Seq(Messages)
  BY DEF Init, Stored
<1>5. /\ form \in {"none", "login", "register"}
      /\ registerHidden \in BOOLEAN /\ signedIn \in BOOLEAN
      /\ ui \in {"idle", "clear", "write", "session", "post"}
      /\ password \in [Accounts -> Passwords \cup {None}]
      /\ reported \subseteq Accounts /\ mishaps \subseteq Mishaps
  BY DEF Init, Stored
<1> QED
  BY <1>1, <1>2, <1>3, <1>4, <1>5 DEF TypeOK

\* A process that is started has its types, whatever is in the files.
LEMMA TypeRestart ==
  ASSUME TypeOK, Restart, UNCHANGED file,
         salt' \in Accounts \cup {None},
         keysFile' \in KeysFiles,
         UNCHANGED <<password, reported>>, mishaps' \subseteq Mishaps
  PROVE  TypeOK'
<1>1. /\ keys' \subseteq Accounts /\ cached' \subseteq Accounts
      /\ file' \in [Accounts -> {"none", "torn", "whole"}]
      /\ lookup' \subseteq Accounts /\ cachedPasswords' \subseteq Hashes
      /\ default' \in Accounts \cup {None}
  BY DEF TypeOK, Restart, Stored
<1>2. /\ keyInfo' \in [Accounts -> Infos]
      /\ keysFileKey' \in Hashes /\ master' \in Hashes
      /\ salt' \in Accounts \cup {None} /\ keysFile' \in KeysFiles
      /\ session' \in Accounts \cup {None, ZeroAddress}
  BY HashTypes, InfoTypes DEF TypeOK, Restart, Stored
<1>3. /\ net' \in NetStates
      /\ HasItsAccount'
  BY NetIdleType DEF TypeOK, Restart, Stored, LoadSteps, KeyStored, AccountSteps, HasItsAccount
<1>4. /\ pending' \in Seq(Tasks)
      /\ messages' \in Seq(Messages)
  BY DEF TypeOK, Restart, Stored
<1>5. /\ form' \in {"none", "login", "register"}
      /\ registerHidden' \in BOOLEAN /\ signedIn' \in BOOLEAN
      /\ ui' \in {"idle", "clear", "write", "session", "post"}
      /\ password' \in [Accounts -> Passwords \cup {None}]
      /\ reported' \subseteq Accounts /\ mishaps' \subseteq Mishaps
  BY DEF TypeOK, Restart, Stored
<1> QED
  BY <1>1, <1>2, <1>3, <1>4, <1>5 DEF TypeOK

\* write() leaves a keys file of the right type.
LEMMA TypeWrite ==
  ASSUME TypeOK, NEW info \in [Accounts -> Infos], Write(info)
  PROVE  keysFile' \in KeysFiles
  BY DEF TypeOK, Write, KeysFiles

\* The handlers of the UI thread keep the types.
LEMMA TypeUI ==
  ASSUME TypeOK,
         \/ ShowForm \/ SwitchForm \/ LeaveForm
         \/ \E p \in Passwords : Submit(p)
         \/ SignOut \/ ClearCache \/ WriteCleared \/ ClearSession \/ PostSignedOut
         \/ OnShow \/ OnAccountBarLogin \/ OnCallback \/ Exit
  PROVE  TypeOK'
<1> USE AccountsAssumption
<1>1. CASE ShowForm
  BY <1>1, MessageTypes DEF ShowForm, FirstForm, Messages, TypeOK, HasItsAccount,
     uiOnly, store, manager, disk, history, screen
<1>2. CASE SwitchForm
  BY <1>2, MessageTypes DEF SwitchForm, Messages, TypeOK, HasItsAccount,
     uiOnly, store, manager, disk, history, screen
<1>3. CASE LeaveForm
  BY <1>3 DEF LeaveForm, TypeOK, HasItsAccount,
     uiOnly, store, manager, disk, history
<1>4. CASE SignOut
  <2>1. keyInfo' \in [Accounts -> Infos]
    BY <1>4, InfoTypes DEF SignOut, TypeOK
  <2>2. mishaps' \subseteq Mishaps
    BY <1>4 DEF SignOut, TypeOK, Mishaps
  <2> QED
    BY <1>4, <2>1, <2>2 DEF SignOut, TypeOK, HasItsAccount, store, disk, screen
<1>5. CASE \E p \in Passwords : Submit(p)
  <2>1. PICK p \in Passwords : Submit(p)
    BY <1>5
  <2>2. [op |-> form, password |-> p] \in Tasks
    BY <2>1 DEF Submit, TypeOK, Tasks
  <2>3. pending' \in Seq(Tasks)
    BY <2>1, <2>2, TaskTypes DEF Submit, TypeOK
  <2> QED
    BY <2>1, <2>3 DEF Submit, TypeOK, HasItsAccount,
     uiOnly, store, manager, disk, history, screen
<1>6. CASE OnShow
  <2>1. Tail(messages) \in Seq(Messages) /\ Head(messages) \in Messages
    BY <1>6, MessageTypes DEF OnShow, TypeOK
  <2>2. Head(messages).form \in {"none", "login", "register"}
    BY <2>1 DEF Messages
  <2> QED
    BY <1>6, <2>1, <2>2 DEF OnShow, SetContent, TypeOK, HasItsAccount,
     uiOnly, store, manager, disk, history
<1>7. CASE OnAccountBarLogin
  <2>1. Tail(messages) \in Seq(Messages) /\ Head(messages) \in Messages
    BY <1>7, MessageTypes DEF OnAccountBarLogin, TypeOK
  <2>2. Head(messages).form \in {"none", "login", "register"}
    BY <2>1 DEF Messages
  <2> QED
    BY <1>7, <2>1, <2>2 DEF OnAccountBarLogin, SetContent, TypeOK, HasItsAccount,
     uiOnly, store, manager, disk, history
<1>8. CASE OnCallback
  <2>1. Tail(messages) \in Seq(Messages) /\ Head(messages) \in Messages
    BY <1>8, MessageTypes DEF OnCallback, TypeOK
  <2>2. messages' \in Seq(Messages)
    <3>1. [msg |-> "bar", form |-> "none"] \in Messages
      BY DEF Messages
    <3>2. Append(Tail(messages), [msg |-> "bar", form |-> "none"]) \in Seq(Messages)
      BY <2>1, <3>1, MessageTypes
    <3> QED
      BY <1>8, <2>1, <3>2 DEF OnCallback
  <2>3. form' \in {"none", "login", "register"}
    BY <1>8 DEF OnCallback, TypeOK
  <2> QED
    BY <1>8, <2>2, <2>3 DEF OnCallback, TypeOK, HasItsAccount,
     uiOnly, store, manager, disk, history
<1>9. CASE Exit
  BY <1>9, TypeRestart DEF Exit, TypeOK, disk, history
<1>10. CASE ClearCache
  BY <1>10 DEF ClearCache, TypeOK, HasItsAccount, manager, disk, screen, history
<1>11. CASE WriteCleared
  <2>1. keysFile' \in KeysFiles
    BY <1>11, TypeWrite DEF WriteCleared, TypeOK
  <2>2. CASE WriteThrows(cachedPasswords)
    BY <1>11, <2>1, <2>2, TypeRestart DEF WriteCleared, TypeOK, history
  <2>3. CASE ~WriteThrows(cachedPasswords)
    BY <1>11, <2>1, <2>3 DEF WriteCleared, TypeOK, HasItsAccount, manager, screen, history
  <2> QED
    BY <2>2, <2>3
<1>12. CASE ClearSession
  BY <1>12 DEF ClearSession, TypeOK, HasItsAccount, store, manager, disk, screen, history
<1>13. CASE PostSignedOut
  BY <1>13, MessageTypes DEF PostSignedOut, FirstForm, Messages, TypeOK, HasItsAccount,
     store, manager, disk, screen, history
<1> QED
  BY <1>1, <1>2, <1>3, <1>4, <1>5, <1>6, <1>7, <1>8, <1>9, <1>10, <1>11, <1>12, <1>13

\* The steps of Login and CreateAccount, and the end of the process, keep
\* the types.
LEMMA TypeNet ==
  ASSUME TypeOK,
         \/ TakeTask
         \/ FindAccount \/ ImportExisting \/ SetSession
         \/ ReadKeysFile \/ StoreKey \/ ReadInfos \/ SetMaster \/ CacheMaster
         \/ MakeKey \/ SaveOpen \/ SaveWrite \/ ImportInfo \/ CreateSalt \/ CreateKeysFile
         \/ Reply
  PROVE  TypeOK'
<1> USE AccountsAssumption
<1>0. /\ hashPassword(net.password) \in Hashes
      /\ \A p \in Passwords \cup {None}, d \in Accounts \cup {None} : <<p, d>> \in Hashes
  BY DEF TypeOK, NetStates, Hashes, hashPassword
<1>1. CASE TakeTask
  <2>1. /\ Tail(pending) \in Seq(Tasks)
        /\ Head(pending) \in Tasks
    BY <1>1, TaskTypes DEF TakeTask, TypeOK
  <2>2. net' \in NetStates /\ HasItsAccount'
    BY <1>1, <2>1, NetIdleType DEF TakeTask, Tasks, NetStates, LoadSteps, KeyStored, AccountSteps, HasItsAccount
  <2>3. mishaps' \subseteq Mishaps
    BY <1>1 DEF TakeTask, TypeOK, Mishaps
  <2> QED
    BY <1>1, <2>1, <2>2, <2>3 DEF TakeTask, TypeOK, store, manager, disk, screen
<1>2. CASE FindAccount
  <2>1. net' \in NetStates /\ HasItsAccount'
    <3>1. CASE net' = [net EXCEPT !.pc = "reply"]
      BY <1>2, <3>1 DEF FindAccount, TypeOK, NetStates, LoadSteps, KeyStored, AccountSteps, HasItsAccount
    <3>2. ASSUME NEW a \in keys, net' = [net EXCEPT !.pc = "import", !.account = a]
          PROVE  net' \in NetStates /\ HasItsAccount'
      <4>1. a \in Accounts
        BY DEF TypeOK
      <4> QED
        BY <3>2, <4>1 DEF TypeOK, NetStates, LoadSteps, KeyStored, AccountSteps, HasItsAccount
    <3> QED
      BY <1>2, <3>1, <3>2 DEF FindAccount
  <2>2. cached' \subseteq Accounts /\ mishaps' \subseteq Mishaps
    BY <1>2 DEF FindAccount, TypeOK, Mishaps
  <2> QED
    BY <1>2, <2>1, <2>2 DEF FindAccount, TypeOK, manager, disk, screen, netOnly
<1>3. CASE ImportExisting
  <2> DEFINE a    == net.account
             pwds == cachedPasswords \cup {hashPassword(net.password)}
             info == [keyInfo EXCEPT ![a] = [hash |-> hashPassword(net.password),
                                             name |-> "empty"]]
  <2>1. a \in Accounts
    BY <1>3 DEF ImportExisting, TypeOK, LoadSteps, KeyStored, AccountSteps, HasItsAccount
  <2>2. info \in [Accounts -> Infos]
    BY <1>0, <2>1 DEF TypeOK, Infos
  <2>3. pwds \subseteq Hashes
    BY <1>0 DEF TypeOK
  <2>4. CASE ~Decrypts(a)
    <3>1. net' \in NetStates /\ HasItsAccount'
      BY <1>3, <2>1, <2>4 DEF ImportExisting, TypeOK, NetStates, LoadSteps, KeyStored, AccountSteps, HasItsAccount
    <3> QED
      BY <1>3, <2>4, <3>1 DEF ImportExisting, TypeOK, manager, history, screen, netOnly
  <2>5. CASE Decrypts(a)
    <3> HIDE DEF info, pwds
    <3>1. Write(info)
      BY <1>3, <2>5 DEF ImportExisting, info
    <3>2. keysFile' \in KeysFiles
      BY <2>2, <3>1, TypeWrite
    <3>3. CASE WriteThrows(pwds)
      BY <1>3, <2>5, <3>2, <3>3, TypeRestart DEF ImportExisting, TypeOK, history, pwds
    <3>4. CASE ~WriteThrows(pwds)
      <4>1. /\ cached' = cached \cup {a}
            /\ cachedPasswords' = pwds
            /\ lookup' = lookup \cup {a}
            /\ keyInfo' = info
            /\ net' = [net EXCEPT !.pc = "session"]
            /\ UNCHANGED <<keys, default, keysFileKey, master, session, netOnly,
                           file, salt, history>>
        BY <1>3, <2>5, <3>4 DEF ImportExisting, info, pwds
      <4>2. net' \in NetStates /\ HasItsAccount'
        BY <2>1, <4>1 DEF TypeOK, NetStates, LoadSteps, KeyStored, AccountSteps, HasItsAccount
      <4> QED
        BY <2>1, <2>2, <2>3, <3>2, <4>1, <4>2 DEF TypeOK, history, screen, netOnly
    <3> QED
      BY <3>3, <3>4
  <2> QED
    BY <2>4, <2>5
<1>4. CASE SetSession
  <2>1. net.account \in Accounts
    BY <1>4 DEF SetSession, TypeOK, LoadSteps, KeyStored, AccountSteps, HasItsAccount
  <2>2. net' \in NetStates /\ HasItsAccount'
    BY <1>4, <2>1 DEF SetSession, TypeOK, NetStates, LoadSteps, KeyStored, AccountSteps, HasItsAccount
  <2>3. mishaps' \subseteq Mishaps
    BY <1>4 DEF SetSession, TypeOK, Mishaps
  <2> QED
    BY <1>4, <2>1, <2>2, <2>3 DEF SetSession, TypeOK, store, manager, disk, screen, netOnly
<1>5. CASE ReadKeysFile
  <2>1. net' \in NetStates /\ HasItsAccount'
    BY <1>5 DEF ReadKeysFile, TypeOK, NetStates, LoadSteps, KeyStored, AccountSteps, HasItsAccount
  <2> QED
    BY <1>5, <2>1 DEF ReadKeysFile, TypeOK, store, manager, disk, history, screen, netOnly
<1>13. CASE StoreKey
  <2>1. net' \in NetStates /\ HasItsAccount'
    BY <1>13 DEF StoreKey, TypeOK, NetStates, LoadSteps, KeyStored, AccountSteps, HasItsAccount
  <2>2. keysFileKey' \in Hashes
    BY <1>0, <1>13 DEF StoreKey, TypeOK, NetStates
  <2> QED
    BY <1>13, <2>1, <2>2 DEF StoreKey, TypeOK, store, disk, history, screen, netOnly
<1>14. CASE ReadInfos
  <2>1. net' \in NetStates /\ HasItsAccount'
    <3>1. \/ net' = [net EXCEPT !.pc = "loadMaster", !.contents = NoKeysFile]
          \/ net' = [net EXCEPT !.pc = "reply", !.contents = NoKeysFile]
      BY <1>14 DEF ReadInfos
    <3>2. net.account \in Accounts
      BY <1>14 DEF ReadInfos, TypeOK, LoadSteps, KeyStored, AccountSteps, HasItsAccount
    <3>3. net \in NetStates /\ NoKeysFile \in KeysFiles
      BY InfoTypes DEF TypeOK
    <3>4. net' \in NetStates /\ net'.account = net.account
      <4>1. {"loadMaster", "reply"} \subseteq {"idle", "find", "make", "reply"} \cup AccountSteps
        BY DEF LoadSteps, KeyStored, AccountSteps
      <4> QED
        BY <3>1, <3>3, <4>1 DEF NetStates
    <3>5. net'.pc \in {"loadMaster", "reply"}
      BY <3>1, <3>3 DEF NetStates
    <3> QED
      BY <3>2, <3>4, <3>5 DEF HasItsAccount
  <2>2. net.contents \in KeysFiles
    BY DEF TypeOK, NetStates
  <2>3. /\ lookup' \subseteq Accounts
        /\ keyInfo' \in [Accounts -> Infos]
        /\ default' \in Accounts \cup {None}
    BY <1>14, <2>2 DEF ReadInfos, TypeOK, KeysFiles
  <2> QED
    BY <1>14, <2>1, <2>3 DEF ReadInfos, TypeOK, store, disk, history, screen, netOnly
<1>15. CASE SetMaster
  <2>1. net' \in NetStates /\ HasItsAccount'
    BY <1>15 DEF SetMaster, TypeOK, NetStates, LoadSteps, KeyStored, AccountSteps, HasItsAccount
  <2> QED
    BY <1>0, <1>15, <2>1 DEF SetMaster, TypeOK, store, disk, history, screen, netOnly
<1>16. CASE CacheMaster
  <2>1. net' \in NetStates /\ HasItsAccount'
    BY <1>16 DEF CacheMaster, TypeOK, NetStates, LoadSteps, KeyStored, AccountSteps, HasItsAccount
  <2> QED
    BY <1>0, <1>16, <2>1 DEF CacheMaster, TypeOK, store, disk, history, screen, netOnly
<1>6. CASE MakeKey
  <2>1. PICK a \in Accounts :
            /\ password' = [password EXCEPT ![a] = net.password]
            /\ keys' = keys \cup {a}
            /\ cached' = cached \cup {a}
            /\ cachedPasswords' = cachedPasswords \cup {hashPassword(net.password)}
            /\ net' = [net EXCEPT !.pc = "save", !.account = a, !.left = keys \cup {a},
                                  !.hash = hashPassword(net.password)]
    BY <1>6 DEF MakeKey
  <2>2. net' \in NetStates /\ HasItsAccount'
    BY <1>0, <2>1 DEF TypeOK, NetStates, LoadSteps, KeyStored, AccountSteps, HasItsAccount
  <2>3. password' \in [Accounts -> Passwords \cup {None}]
    BY <2>1 DEF TypeOK, NetStates
  <2> QED
    BY <1>0, <1>6, <2>1, <2>2, <2>3, ZenonT(60) DEF MakeKey, TypeOK, disk, screen, netOnly
<1>7. CASE SaveOpen
  <2>1. net' \in NetStates /\ HasItsAccount'
    <3>1. PICK a \in net.left : net' = [net EXCEPT !.writing = a]
      BY <1>7 DEF SaveOpen
    <3>2. a \in Accounts
      BY DEF TypeOK, NetStates
    <3> QED
      BY <3>1, <3>2 DEF TypeOK, NetStates, LoadSteps, KeyStored, AccountSteps, HasItsAccount
  <2>2. file' \in [Accounts -> {"none", "torn", "whole"}]
    BY <1>7 DEF SaveOpen, TypeOK
  <2> QED
    BY <1>7, <2>1, <2>2 DEF SaveOpen, TypeOK, manager, disk, history, screen, netOnly
<1>8. CASE SaveWrite
  <2>1. net' \in NetStates /\ HasItsAccount'
    BY <1>8 DEF SaveWrite, TypeOK, NetStates, LoadSteps, KeyStored, AccountSteps, HasItsAccount
  <2>2. file' \in [Accounts -> {"none", "torn", "whole"}]
    BY <1>8 DEF SaveWrite, TypeOK
  <2> QED
    BY <1>8, <2>1, <2>2 DEF SaveWrite, TypeOK, manager, disk, history, screen, netOnly
<1>9. CASE ImportInfo
  <2> DEFINE info == [keyInfo EXCEPT ![net.account] = [hash |-> net.hash, name |-> "given"]]
  <2>1. net.account \in Accounts
    BY <1>9 DEF ImportInfo, TypeOK, LoadSteps, KeyStored, AccountSteps, HasItsAccount
  <2>2. info \in [Accounts -> Infos]
    BY <2>1 DEF TypeOK, NetStates, Infos
  <2> HIDE DEF info
  <2>3. Write(info)
    BY <1>9 DEF ImportInfo, info
  <2>4. keysFile' \in KeysFiles
    BY <2>2, <2>3, TypeWrite
  <2>5. CASE WriteThrows(cachedPasswords)
    BY <1>9, <2>4, <2>5, TypeRestart DEF ImportInfo, TypeOK, history
  <2>6. CASE ~WriteThrows(cachedPasswords)
    <3>1. /\ keyInfo' = info
          /\ lookup' = lookup \cup {net.account}
          /\ net' = [net EXCEPT !.pc = "session"]
          /\ UNCHANGED <<keys, cached, cachedPasswords, default, keysFileKey, master,
                         session, netOnly, file, salt, history>>
      BY <1>9, <2>6 DEF ImportInfo, info
    <3>2. net' \in NetStates /\ HasItsAccount'
      BY <2>1, <3>1 DEF TypeOK, NetStates, LoadSteps, KeyStored, AccountSteps, HasItsAccount
    <3> QED
      BY <2>1, <2>2, <2>4, <3>1, <3>2 DEF TypeOK, history, screen, netOnly
  <2> QED
    BY <2>5, <2>6
<1>10. CASE CreateSalt
  <2>1. net.account \in Accounts /\ net.password \in Passwords \cup {None}
    BY <1>10 DEF CreateSalt, TypeOK, AccountSteps, NetStates, HasItsAccount
  <2>2. net' \in NetStates /\ HasItsAccount'
    <3>1. \/ net' = [net EXCEPT !.pc = "reply"]
          \/ net' = [net EXCEPT !.pc = "createKeys"]
      BY <1>10 DEF CreateSalt
    <3> QED
      BY <2>1, <3>1 DEF TypeOK, NetStates, LoadSteps, KeyStored, AccountSteps, HasItsAccount
  <2>3. /\ salt' \in Accounts \cup {None} /\ default' \in Accounts \cup {None}
        /\ master' \in Hashes /\ cachedPasswords' \subseteq Hashes
    BY <1>0, <1>10, <2>1 DEF CreateSalt, TypeOK
  <2> QED
    BY <1>10, <2>2, <2>3 DEF CreateSalt, TypeOK, store, history, screen, netOnly
<1>11. CASE CreateKeysFile
  <2>1. net' \in NetStates /\ HasItsAccount'
    BY <1>11 DEF CreateKeysFile, TypeOK, NetStates, LoadSteps, KeyStored, AccountSteps, HasItsAccount
  <2>2. keysFileKey' \in Hashes
    BY <1>0, <1>11 DEF CreateKeysFile, TypeOK, NetStates
  <2>3. keysFile' \in KeysFiles
    BY <1>11, <2>2 DEF CreateKeysFile, TypeOK, KeysFiles
  <2> QED
    BY <1>11, <2>1, <2>2, <2>3 DEF CreateKeysFile, TypeOK, store, history, screen, netOnly
<1>12. CASE Reply
  <2> DEFINE m == [msg  |-> IF net.account = None THEN "failure" ELSE "success",
                   form |-> net.op]
  <2>1. m \in Messages
    BY DEF TypeOK, NetStates, Messages
  <2>2. messages' \in Seq(Messages)
    BY <1>12, <2>1, MessageTypes DEF Reply, TypeOK
  <2>3. reported' \subseteq Accounts
    BY <1>12 DEF Reply, TypeOK, HasItsAccount
  <2> QED
    BY <1>12, <2>2, <2>3, NetIdleType DEF Reply, TypeOK, LoadSteps, KeyStored, AccountSteps, HasItsAccount, store, manager,
       disk, screen
<1> QED
  BY <1>1, <1>2, <1>3, <1>4, <1>5, <1>6, <1>7, <1>8, <1>9, <1>10, <1>11, <1>12, <1>13,
     <1>14, <1>15, <1>16

(* In every state the variables of the accounts have their types, and a     *)
(* task past the search has an account, wherever the process ended before.  *)
THEOREM TypeCorrect == Spec => []TypeOK
<1>1. Init => TypeOK
  BY TypeInit
<1>2. TypeOK /\ [Next]_vars => TypeOK'
  <2>1. TypeOK /\ Next => TypeOK'
    BY TypeUI, TypeNet DEF Next
  <2>2. TypeOK /\ UNCHANGED vars => TypeOK'
    BY DEF vars, TypeOK, HasItsAccount, store, manager, disk, history, screen
  <2> QED
    BY <2>1, <2>2
<1> QED
  BY <1>1, <1>2, PTL DEF Spec

-----------------------------------------------------------------------------
(* The key files.                                                           *)

\* While save runs, the keys that are not left to write are in their files, and
\* there is no file for a key that the store does not have.
SaveProgress ==
    /\ net.left \subseteq keys
    /\ net.writing # None => net.writing \in net.left
    /\ \A a \in Accounts : a \in keys \ net.left => file[a] = "whole"
    /\ \A a \in Accounts : a \notin keys => file[a] # "whole"

StoreInv ==
    /\ net.pc # "save" => keys = Stored /\ net.writing = None
    /\ net.pc = "save" => SaveProgress

\* With no key and no file, store and directory agree.
LEMMA StoreInvInit == Init => StoreInv
  BY DEF Init, StoreInv, NetIdle, Stored

\* The UI thread changes neither the encrypted keys nor their files.
LEMMA StoreInvUI ==
  ASSUME StoreInv,
         \/ ShowForm \/ SwitchForm \/ LeaveForm
         \/ \E p \in Passwords : Submit(p)
         \/ SignOut \/ ClearCache \/ WriteCleared \/ ClearSession \/ PostSignedOut
         \/ OnShow \/ OnAccountBarLogin \/ OnCallback \/ Exit
  PROVE  StoreInv'
<1>1. CASE UNCHANGED <<keys, file, net>>
  BY <1>1 DEF StoreInv, SaveProgress, Stored
<1>2. CASE Restart /\ UNCHANGED file
  BY <1>2 DEF StoreInv, Restart, NetIdle, Stored
<1> QED
  BY <1>1, <1>2 DEF ShowForm, SwitchForm, LeaveForm, Submit, SignOut, ClearCache, WriteCleared,
     ClearSession, PostSignedOut, OnShow, OnAccountBarLogin, OnCallback, Exit, uiOnly, store, disk

\* Of the network thread's steps only MakeKey adds a key, and save then writes
\* it: memory and directory agree again when save is through.
LEMMA StoreInvNet ==
  ASSUME TypeOK, StoreInv,
         \/ TakeTask
         \/ FindAccount \/ ImportExisting \/ SetSession
         \/ ReadKeysFile \/ StoreKey \/ ReadInfos \/ SetMaster \/ CacheMaster
         \/ MakeKey \/ SaveOpen \/ SaveWrite \/ ImportInfo \/ CreateSalt \/ CreateKeysFile
         \/ Reply
  PROVE  StoreInv'
<1> USE AccountsAssumption
<1>0. net \in NetStates /\ keys \subseteq Accounts
  BY DEF TypeOK
\* Steps that neither begin nor end save, and do not touch the store.
<1>a. ASSUME UNCHANGED <<keys, file>>, net.pc # "save", net'.pc # "save",
             net'.writing = net.writing
      PROVE  StoreInv'
  BY <1>a DEF StoreInv, Stored
<1>1. CASE TakeTask
  <2>1. net.pc # "save" /\ net'.pc # "save" /\ net'.writing = None
    BY <1>1 DEF TakeTask, NetIdle
  <2> QED
    BY <1>1, <2>1 DEF TakeTask, StoreInv, Stored, store
<1>2. CASE FindAccount
  <2>1. net.pc # "save" /\ net'.pc # "save" /\ net'.writing = net.writing
    BY <1>0, <1>2 DEF FindAccount, NetStates
  <2> QED
    BY <1>2, <1>a, <2>1 DEF FindAccount
<1>3. CASE ImportExisting
  <2>1. CASE Restart
    BY <1>3, <2>1 DEF ImportExisting, Restart, StoreInv, Stored, NetIdle
  <2>2. CASE ~Restart
    <3>1. net.pc = "import" /\ net' = [net EXCEPT !.pc = "session"]
      BY <1>3, <2>2 DEF ImportExisting
    <3>2. net'.pc # "save" /\ net'.writing = net.writing
      BY <1>0, <3>1 DEF NetStates
    <3>3. UNCHANGED <<keys, file>>
      BY <1>3, <2>2 DEF ImportExisting
    <3> QED
      BY <1>a, <3>1, <3>2, <3>3
  <2> QED
    BY <2>1, <2>2
<1>4. CASE SetSession
  <2>1. net.pc # "save" /\ net'.pc # "save" /\ net'.writing = net.writing
    BY <1>0, <1>4 DEF SetSession, NetStates
  <2> QED
    BY <1>4, <1>a, <2>1 DEF SetSession, store
<1>5. CASE ReadKeysFile
  <2>1. net.pc # "save" /\ net'.pc # "save" /\ net'.writing = net.writing
    BY <1>0, <1>5 DEF ReadKeysFile, NetStates
  <2> QED
    BY <1>5, <1>a, <2>1 DEF ReadKeysFile, store
<1>13. CASE StoreKey
  <2>1. net.pc # "save" /\ net'.pc # "save" /\ net'.writing = net.writing
    BY <1>0, <1>13 DEF StoreKey, NetStates
  <2> QED
    BY <1>13, <1>a, <2>1 DEF StoreKey, store
<1>14. CASE ReadInfos
  <2>1. net.pc # "save" /\ net'.pc # "save" /\ net'.writing = net.writing
    BY <1>0, <1>14 DEF ReadInfos, NetStates
  <2> QED
    BY <1>14, <1>a, <2>1 DEF ReadInfos, store
<1>15. CASE SetMaster
  <2>1. net.pc # "save" /\ net'.pc # "save" /\ net'.writing = net.writing
    BY <1>0, <1>15 DEF SetMaster, NetStates
  <2> QED
    BY <1>15, <1>a, <2>1 DEF SetMaster, store
<1>16. CASE CacheMaster
  <2>1. net.pc # "save" /\ net'.pc # "save" /\ net'.writing = net.writing
    BY <1>0, <1>16 DEF CacheMaster, NetStates
  <2> QED
    BY <1>16, <1>a, <2>1 DEF CacheMaster, store
<1>6. CASE MakeKey
  <2>1. keys = Stored /\ net.writing = None
    BY <1>6 DEF MakeKey, StoreInv
  <2>2. PICK a \in Accounts :
            /\ keys' = keys \cup {a}
            /\ net' = [net EXCEPT !.pc = "save", !.account = a, !.left = keys \cup {a},
                                  !.hash = hashPassword(net.password)]
    BY <1>6 DEF MakeKey
  <2>3. net'.pc = "save" /\ net'.left = keys' /\ net'.writing = None
    BY <1>0, <2>1, <2>2 DEF NetStates
  <2>4. file' = file
    BY <1>6 DEF MakeKey
  <2>5. \A b \in Accounts : b \notin keys' => file'[b] # "whole"
    BY <2>1, <2>2, <2>4 DEF Stored
  <2> QED
    BY <2>3, <2>5 DEF StoreInv, SaveProgress
<1>7. CASE SaveOpen
  <2>1. PICK a \in net.left : /\ file' = [file EXCEPT ![a] = "torn"]
                              /\ net' = [net EXCEPT !.writing = a]
    BY <1>7 DEF SaveOpen
  <2>2. net'.pc = "save" /\ net'.left = net.left /\ net'.writing = a /\ net.pc = "save"
    BY <1>0, <1>7, <2>1 DEF SaveOpen, NetStates
  <2>3. a \in Accounts /\ keys' = keys
    BY <1>0, <1>7 DEF NetStates, SaveOpen
  <2> QED
    BY <2>1, <2>2, <2>3 DEF StoreInv, SaveProgress, TypeOK
<1>8. CASE SaveWrite
  <2>1. /\ net.pc = "save" /\ net.writing \in net.left
        /\ file' = [file EXCEPT ![net.writing] = "whole"]
        /\ keys' = keys
    BY <1>8 DEF SaveWrite, StoreInv, SaveProgress
  <2>2. net'.pc = "save" /\ net'.left = net.left \ {net.writing} /\ net'.writing = None
    BY <1>0, <1>8 DEF SaveWrite, NetStates
  <2>3. SaveProgress
    BY <2>1 DEF StoreInv
  <2> QED
    BY <1>0, <2>1, <2>2, <2>3 DEF StoreInv, SaveProgress, TypeOK
<1>9. CASE ImportInfo
  <2>1. net.pc = "save" /\ net.left = {} /\ net.writing = None
    BY <1>9 DEF ImportInfo
  <2>2. keys = Stored
    BY <1>0, <2>1 DEF StoreInv, SaveProgress, Stored
  <2>3. CASE Restart
    BY <1>9, <2>3 DEF ImportInfo, Restart, StoreInv, Stored, NetIdle
  <2>4. CASE ~Restart
    <3>1. net' = [net EXCEPT !.pc = "session"] /\ UNCHANGED <<keys, file>>
      BY <1>9, <2>4 DEF ImportInfo
    <3>2. net'.pc = "session" /\ net'.writing = None
      BY <1>0, <2>1, <3>1 DEF NetStates
    <3> QED
      BY <2>2, <3>1, <3>2 DEF StoreInv, Stored
  <2> QED
    BY <2>3, <2>4
<1>10. CASE CreateSalt
  <2>1. net.pc # "save" /\ net'.pc # "save" /\ net'.writing = net.writing
    BY <1>0, <1>10 DEF CreateSalt, NetStates
  <2> QED
    BY <1>10, <1>a, <2>1 DEF CreateSalt, store
<1>11. CASE CreateKeysFile
  <2>1. net.pc # "save" /\ net'.pc # "save" /\ net'.writing = net.writing
    BY <1>0, <1>11 DEF CreateKeysFile, NetStates
  <2> QED
    BY <1>11, <1>a, <2>1 DEF CreateKeysFile, store
<1>12. CASE Reply
  BY <1>12 DEF Reply, StoreInv, Stored, NetIdle, store
<1> QED
  BY <1>1, <1>2, <1>3, <1>4, <1>5, <1>6, <1>7, <1>8, <1>9, <1>10, <1>11, <1>12, <1>13,
     <1>14, <1>15, <1>16

(* Outside of save, the keys in memory are those whose files can be read,   *)
(* for any number of accounts and wherever earlier processes ended: it      *)
(* rests on save writing every key and on the constructor reading all.      *)
THEOREM StoreIsSynced == Spec => []StoreSynced
<1>1. Init => StoreInv
  BY StoreInvInit
<1>2. TypeOK /\ StoreInv /\ [Next]_vars => StoreInv'
  <2>1. TypeOK /\ StoreInv /\ Next => StoreInv'
    BY StoreInvUI, StoreInvNet DEF Next
  <2>2. StoreInv /\ UNCHANGED vars => StoreInv'
    BY DEF vars, StoreInv, SaveProgress, Stored, store, manager, disk, history, screen
  <2> QED
    BY <2>1, <2>2
<1>3. StoreInv => StoreSynced
  BY DEF StoreInv, StoreSynced
<1> QED
  BY <1>1, <1>2, <1>3, TypeCorrect, PTL DEF Spec

-----------------------------------------------------------------------------
(* The keys file and its salt.                                              *)

\* A keys file belongs to the salt next to it, and so does the key in memory;
\* create writes a salt only where there is no keys file, and load stores a key
\* only where there is one.
KeysFileInv ==
    /\ keysFile # NoKeysFile => keysFile.key[2] = salt /\ salt # None
    /\ keysFileKey # NoKey => keysFile # NoKeysFile /\ keysFileKey[2] = salt
    /\ net.pc = "createKeys" => salt # None /\ keysFile = NoKeysFile
    /\ net.pc = "loadKey" => keysFile # NoKeysFile

\* There is no keys file at first.
LEMMA KeysFileInvInit == Init => KeysFileInv
  BY DEF Init, KeysFileInv, NetIdle

\* write() keeps the invariant: what it writes has the key in memory.
LEMMA KeysFileInvWrite ==
  ASSUME KeysFileInv, NEW info, Write(info), salt' = salt
  PROVE  /\ keysFile' # NoKeysFile => keysFile'.key[2] = salt' /\ salt' # None
         /\ keysFile' # NoKeysFile <=> keysFile # NoKeysFile
<1>1. CASE keysFileKey = NoKey
  BY <1>1 DEF KeysFileInv, Write
<1>2. CASE keysFileKey # NoKey
  <2>1. keysFile'.key = keysFileKey
    BY <1>2 DEF Write
  <2>2. keysFile' # NoKeysFile
    BY <1>2, <2>1 DEF NoKeysFile
  <2> QED
    BY <1>2, <2>1, <2>2 DEF KeysFileInv
<1> QED
  BY <1>1, <1>2

\* What is left to show after a write is about a process that goes on with the
\* key it has, or that was started again and has none.
LEMMA KeysFileInvAfterWrite ==
  ASSUME KeysFileInv, NEW info, Write(info), salt' = salt,
         \/ Restart
         \/ /\ keysFileKey' = keysFileKey
            /\ net'.pc \in {"createKeys", "loadKey"} => net.pc = net'.pc
  PROVE  KeysFileInv'
  BY KeysFileInvWrite DEF KeysFileInv, Restart, NetIdle

\* Signing out writes the keys file under the key in memory.
LEMMA KeysFileInvUI ==
  ASSUME KeysFileInv,
         \/ ShowForm \/ SwitchForm \/ LeaveForm
         \/ \E p \in Passwords : Submit(p)
         \/ SignOut \/ ClearCache \/ WriteCleared \/ ClearSession \/ PostSignedOut
         \/ OnShow \/ OnAccountBarLogin \/ OnCallback \/ Exit
  PROVE  KeysFileInv'
<1>1. CASE UNCHANGED <<keysFileKey, disk, net>>
  BY <1>1 DEF KeysFileInv, disk
<1>2. CASE Exit
  BY <1>2 DEF Exit, Restart, KeysFileInv, NetIdle, disk
<1>3. CASE WriteCleared
  <2>1. PICK info : Write(info)
    BY <1>3 DEF WriteCleared
  <2>2. /\ salt' = salt
        /\ Restart \/ UNCHANGED <<keysFileKey, net>>
    BY <1>3 DEF WriteCleared, manager
  <2> QED
    BY <2>1, <2>2, KeysFileInvAfterWrite
<1> QED
  BY <1>1, <1>2, <1>3 DEF ShowForm, SwitchForm, LeaveForm, Submit, SignOut, ClearCache,
     ClearSession, PostSignedOut, OnShow, OnAccountBarLogin, OnCallback, uiOnly, manager, disk

\* create and load take their key from the salt that is on disk.
LEMMA KeysFileInvNet ==
  ASSUME TypeOK, KeysFileInv,
         \/ TakeTask
         \/ FindAccount \/ ImportExisting \/ SetSession
         \/ ReadKeysFile \/ StoreKey \/ ReadInfos \/ SetMaster \/ CacheMaster
         \/ MakeKey \/ SaveOpen \/ SaveWrite \/ ImportInfo \/ CreateSalt \/ CreateKeysFile
         \/ Reply
  PROVE  KeysFileInv'
<1> USE AccountsAssumption
<1>0. net \in NetStates
  BY DEF TypeOK
<1>a. ASSUME UNCHANGED <<keysFileKey, keysFile, salt>>, net'.pc \notin {"createKeys", "loadKey"}
      PROVE  KeysFileInv'
  BY <1>a DEF KeysFileInv
<1>1. CASE TakeTask
  <2>1. net'.pc \notin {"createKeys", "loadKey"}
    BY <1>1 DEF TakeTask, NetIdle
  <2> QED
    BY <1>1, <1>a, <2>1 DEF TakeTask, manager, disk
<1>2. CASE FindAccount
  <2>1. net'.pc \notin {"createKeys", "loadKey"}
    BY <1>0, <1>2 DEF FindAccount, NetStates
  <2> QED
    BY <1>2, <1>a, <2>1 DEF FindAccount, manager, disk
<1>3. CASE ImportExisting
  <2>1. CASE ~Decrypts(net.account)
    <3>1. net'.pc \notin {"createKeys", "loadKey"}
      BY <1>0, <1>3, <2>1 DEF ImportExisting, NetStates
    <3> QED
      BY <1>3, <1>a, <2>1, <3>1 DEF ImportExisting, manager
  <2>2. CASE Decrypts(net.account)
    <3>1. PICK info : Write(info)
      BY <1>3, <2>2 DEF ImportExisting
    <3>2. /\ salt' = salt
          /\ Restart \/ (keysFileKey' = keysFileKey /\ net' = [net EXCEPT !.pc = "session"])
      BY <1>3, <2>2 DEF ImportExisting
    <3>3. Restart \/ (keysFileKey' = keysFileKey /\ net'.pc \notin {"createKeys", "loadKey"})
      BY <1>0, <3>2 DEF NetStates
    <3> QED
      BY <3>1, <3>2, <3>3, KeysFileInvAfterWrite
  <2> QED
    BY <2>1, <2>2
<1>4. CASE SetSession
  <2>1. net'.pc \notin {"createKeys", "loadKey"}
    BY <1>0, <1>4 DEF SetSession, NetStates
  <2> QED
    BY <1>4, <1>a, <2>1 DEF SetSession, manager, disk
<1>5. CASE ReadKeysFile
  <2>1. /\ net'.pc # "createKeys"
        /\ net'.pc = "loadKey" => keysFile # NoKeysFile
        /\ UNCHANGED <<keysFileKey, keysFile, salt>>
    BY <1>0, <1>5 DEF ReadKeysFile, NetStates, manager, disk
  <2> QED
    BY <2>1 DEF KeysFileInv
<1>13. CASE StoreKey
  <2>1. net'.pc \notin {"createKeys", "loadKey"}
    BY <1>0, <1>13 DEF StoreKey, NetStates
  <2>2. UNCHANGED <<keysFile, salt>> /\ keysFileKey' = <<net.password, salt>> /\ net.pc = "loadKey"
    BY <1>13 DEF StoreKey, disk
  <2> QED
    BY <2>1, <2>2 DEF KeysFileInv
<1>14. CASE ReadInfos
  <2>1. net'.pc \notin {"createKeys", "loadKey"}
    BY <1>0, <1>14 DEF ReadInfos, NetStates
  <2> QED
    BY <1>14, <1>a, <2>1 DEF ReadInfos, disk
<1>15. CASE SetMaster
  <2>1. net'.pc \notin {"createKeys", "loadKey"}
    BY <1>0, <1>15 DEF SetMaster, NetStates
  <2> QED
    BY <1>15, <1>a, <2>1 DEF SetMaster, disk
<1>16. CASE CacheMaster
  <2>1. net'.pc \notin {"createKeys", "loadKey"}
    BY <1>0, <1>16 DEF CacheMaster, NetStates
  <2> QED
    BY <1>16, <1>a, <2>1 DEF CacheMaster, disk
<1>6. CASE MakeKey
  <2>1. net'.pc \notin {"createKeys", "loadKey"}
    BY <1>0, <1>6 DEF MakeKey, NetStates
  <2> QED
    BY <1>6, <1>a, <2>1 DEF MakeKey, disk
<1>7. CASE SaveOpen
  <2>1. net'.pc \notin {"createKeys", "loadKey"}
    BY <1>0, <1>7 DEF SaveOpen, NetStates
  <2> QED
    BY <1>7, <1>a, <2>1 DEF SaveOpen, manager, disk
<1>8. CASE SaveWrite
  <2>1. net'.pc \notin {"createKeys", "loadKey"}
    BY <1>0, <1>8 DEF SaveWrite, NetStates
  <2> QED
    BY <1>8, <1>a, <2>1 DEF SaveWrite, manager, disk
<1>9. CASE ImportInfo
  <2>1. PICK info : Write(info)
    BY <1>9 DEF ImportInfo
  <2>2. /\ salt' = salt
        /\ Restart \/ (keysFileKey' = keysFileKey /\ net' = [net EXCEPT !.pc = "session"])
    BY <1>9 DEF ImportInfo
  <2>3. Restart \/ (keysFileKey' = keysFileKey /\ net'.pc \notin {"createKeys", "loadKey"})
    BY <1>0, <2>2 DEF NetStates
  <2> QED
    BY <2>1, <2>2, <2>3, KeysFileInvAfterWrite
<1>10. CASE CreateSalt
  <2>1. CASE exists
    <3>1. net'.pc \notin {"createKeys", "loadKey"}
      BY <1>0, <1>10, <2>1 DEF CreateSalt, NetStates
    <3> QED
      BY <1>10, <1>a, <2>1, <3>1 DEF CreateSalt
  <2>2. CASE ~exists
    <3>1. keysFile = NoKeysFile /\ keysFileKey = NoKey
      BY <2>2 DEF exists, KeysFileInv
    <3>2. salt' = net.account /\ UNCHANGED <<keysFile, keysFileKey>>
      BY <1>10, <2>2 DEF CreateSalt
    <3>3. salt' # None
      BY <1>10, <3>2 DEF CreateSalt, TypeOK, HasItsAccount, AccountSteps
    <3>4. net'.pc = "createKeys"
      BY <1>0, <1>10, <2>2 DEF CreateSalt, NetStates
    <3> QED
      BY <3>1, <3>2, <3>3, <3>4 DEF KeysFileInv
  <2> QED
    BY <2>1, <2>2
<1>11. CASE CreateKeysFile
  <2>1. net'.pc \notin {"createKeys", "loadKey"} /\ salt' = salt /\ salt # None
    BY <1>0, <1>11 DEF CreateKeysFile, NetStates, KeysFileInv
  <2>2. keysFile'.key = <<net.password, salt>> /\ keysFileKey' = <<net.password, salt>>
    BY <1>11 DEF CreateKeysFile
  <2>3. keysFile' # NoKeysFile
    BY <2>1, <2>2 DEF NoKeysFile, NoKey
  <2> QED
    BY <2>1, <2>2, <2>3 DEF KeysFileInv
<1>12. CASE Reply
  <2>1. net'.pc \notin {"createKeys", "loadKey"}
    BY <1>12 DEF Reply, NetIdle
  <2> QED
    BY <1>12, <1>a, <2>1 DEF Reply, manager, disk
<1> QED
  BY <1>1, <1>2, <1>3, <1>4, <1>5, <1>6, <1>7, <1>8, <1>9, <1>10, <1>11, <1>12, <1>13,
     <1>14, <1>15, <1>16

\* The keys file belongs to its salt in every state.
LEMMA KeysFileInvAlways == Spec => []KeysFileInv
<1>1. TypeOK /\ KeysFileInv /\ [Next]_vars => KeysFileInv'
  <2>1. TypeOK /\ KeysFileInv /\ Next => KeysFileInv'
    BY KeysFileInvUI, KeysFileInvNet DEF Next
  <2>2. KeysFileInv /\ UNCHANGED vars => KeysFileInv'
    BY DEF vars, KeysFileInv, manager, disk
  <2> QED
    BY <2>1, <2>2
<1> QED
  BY <1>1, KeysFileInvInit, TypeCorrect, PTL DEF Spec

(* A process that ends between any two steps leaves a keys file that        *)
(* belongs to its salt: create replaces the salt only where exists() found  *)
(* no keys file, and load and write() never change the salt.                *)
THEOREM KeysFileIsReadable == Spec => []KeysFileReadable
<1>1. KeysFileInv => KeysFileReadable
  BY DEF KeysFileInv, KeysFileReadable
<1> QED
  BY <1>1, KeysFileInvAlways, PTL

-----------------------------------------------------------------------------
(* Decrypted keys.                                                          *)

\* With nobody logged in, and also when signing out has emptied the cache, a key is
\* there decrypted only between the step of a task that decrypts it and the one that
\* logs its account in, unless that one fell in the middle of signing out.
CacheInv ==
    cached # {} /\ "loginDuringSignOut" \notin mishaps
        /\ (session = None \/ ui \in {"write", "session"})
            => net.pc \in {"import", "session", "save"}

\* No key is there decrypted at first.
LEMMA CacheInvInit == Init => CacheInv
  BY DEF Init, CacheInv

\* Signing out empties the cache before it forgets the session.
LEMMA CacheInvUI ==
  ASSUME CacheInv,
         \/ ShowForm \/ SwitchForm \/ LeaveForm
         \/ \E p \in Passwords : Submit(p)
         \/ SignOut \/ ClearCache \/ WriteCleared \/ ClearSession \/ PostSignedOut
         \/ OnShow \/ OnAccountBarLogin \/ OnCallback \/ Exit
  PROVE  CacheInv'
<1>1. CASE UNCHANGED <<store, session, net, ui, mishaps>>
  BY <1>1 DEF CacheInv, store
<1>2. CASE Exit
  BY <1>2 DEF Exit, Restart, CacheInv
<1>3. CASE SignOut
  BY <1>3 DEF SignOut, CacheInv, store
<1>4. CASE ClearCache
  BY <1>4 DEF ClearCache, CacheInv
<1>5. CASE WriteCleared
  BY <1>5 DEF WriteCleared, Restart, CacheInv, history
<1>6. CASE ClearSession
  BY <1>6 DEF ClearSession, CacheInv, store, history
<1>7. CASE PostSignedOut
  BY <1>7 DEF PostSignedOut, CacheInv, store, history
<1> QED
  BY <1>1, <1>2, <1>3, <1>4, <1>5, <1>6, <1>7 DEF ShowForm, SwitchForm, LeaveForm, Submit,
     OnShow, OnAccountBarLogin, OnCallback, uiOnly, history

\* A task that decrypts a key goes on to log its account in.
LEMMA CacheInvNet ==
  ASSUME TypeOK, CacheInv,
         \/ TakeTask
         \/ FindAccount \/ ImportExisting \/ SetSession
         \/ ReadKeysFile \/ StoreKey \/ ReadInfos \/ SetMaster \/ CacheMaster
         \/ MakeKey \/ SaveOpen \/ SaveWrite \/ ImportInfo \/ CreateSalt \/ CreateKeysFile
         \/ Reply
  PROVE  CacheInv'
<1> USE AccountsAssumption
<1>0. net \in NetStates
  BY DEF TypeOK
\* A step that does not touch the cache and starts where no key is decrypted.
<1>a. ASSUME UNCHANGED <<cached, session, ui>>, net.pc \notin {"import", "session", "save"},
             mishaps \subseteq mishaps'
      PROVE  CacheInv'
  BY <1>a DEF CacheInv
<1>1. CASE TakeTask
  BY <1>1, <1>a DEF TakeTask, store
<1>2. CASE FindAccount
  <2>1. CASE UNCHANGED cached
    BY <1>2, <1>a, <2>1 DEF FindAccount, netOnly
  <2>2. CASE \E b \in keys : net' = [net EXCEPT !.pc = "import", !.account = b]
    BY <1>0, <2>2 DEF CacheInv, NetStates
  <2> QED
    BY <1>2, <2>1, <2>2 DEF FindAccount
<1>3. CASE ImportExisting
  <2>1. Restart \/ net' = [net EXCEPT !.pc = "session"]
    BY <1>3 DEF ImportExisting
  <2> QED
    BY <1>0, <2>1 DEF Restart, CacheInv, NetStates
<1>4. CASE SetSession
  <2>1. net.account \in Accounts
    BY <1>4 DEF SetSession, TypeOK, HasItsAccount, AccountSteps
  <2>2. session' # None /\ ui' = ui
    BY <1>4, <2>1 DEF SetSession, netOnly
  <2>3. ui \in {"write", "session"} => "loginDuringSignOut" \in mishaps'
    BY <1>4 DEF SetSession
  <2> QED
    BY <2>2, <2>3 DEF CacheInv
<1>5. CASE ReadKeysFile
  BY <1>5, <1>a DEF ReadKeysFile, store, netOnly, history
<1>13. CASE StoreKey
  BY <1>13, <1>a DEF StoreKey, store, netOnly, history
<1>14. CASE ReadInfos
  BY <1>14, <1>a DEF ReadInfos, store, netOnly, history
<1>15. CASE SetMaster
  BY <1>15, <1>a DEF SetMaster, store, netOnly, history
<1>16. CASE CacheMaster
  BY <1>16, <1>a DEF CacheMaster, store, netOnly, history
<1>6. CASE MakeKey
  <2>1. net'.pc = "save"
    BY <1>0, <1>6 DEF MakeKey, NetStates
  <2> QED
    BY <2>1 DEF CacheInv
<1>7. CASE SaveOpen
  <2>1. net'.pc = "save"
    BY <1>0, <1>7 DEF SaveOpen, NetStates
  <2> QED
    BY <2>1 DEF CacheInv
<1>8. CASE SaveWrite
  <2>1. net'.pc = "save"
    BY <1>0, <1>8 DEF SaveWrite, NetStates
  <2> QED
    BY <2>1 DEF CacheInv
<1>9. CASE ImportInfo
  <2>1. Restart \/ net' = [net EXCEPT !.pc = "session"]
    BY <1>9 DEF ImportInfo
  <2> QED
    BY <1>0, <2>1 DEF Restart, CacheInv, NetStates
<1>10. CASE CreateSalt
  BY <1>10, <1>a DEF CreateSalt, store, netOnly, history
<1>11. CASE CreateKeysFile
  BY <1>11, <1>a DEF CreateKeysFile, store, netOnly, history
<1>12. CASE Reply
  BY <1>12, <1>a DEF Reply, store
<1> QED
  BY <1>1, <1>2, <1>3, <1>4, <1>5, <1>6, <1>7, <1>8, <1>9, <1>10, <1>11, <1>12, <1>13,
     <1>14, <1>15, <1>16

(* When nobody is logged in and nothing is under way, no key is there       *)
(* decrypted, in whatever step of a task the user signed out, unless the    *)
(* task set the session after the cache and before the session was cleared. *)
THEOREM SignOutDoesForget == Spec => []SignOutForgets
<1>1. Init => CacheInv
  BY CacheInvInit
<1>2. TypeOK /\ CacheInv /\ [Next]_vars => CacheInv'
  <2>1. TypeOK /\ CacheInv /\ Next => CacheInv'
    BY CacheInvUI, CacheInvNet DEF Next
  <2>2. CacheInv /\ UNCHANGED vars => CacheInv'
    BY DEF vars, CacheInv, store, history
  <2> QED
    BY <2>1, <2>2
<1>3. CacheInv => SignOutForgets
  BY DEF CacheInv, SignOutForgets
<1> QED
  BY <1>1, <1>2, <1>3, TypeCorrect, PTL DEF Spec
-----------------------------------------------------------------------------
(* The order of the two files.                                              *)

Described(info) == \A a \in Accounts : info[a] # NoInfo => file[a] # "none"

\* Whatever has an info, in memory, in the keys file or in what load read of it, has
\* a key file, and so has the account that gets one next.
InfoInv ==
    /\ Described(keyInfo)
    /\ Described(keysFile.info)
    /\ Described(net.contents.info)
    /\ net.pc = "import" => file[net.account] # "none"
    /\ net.pc = "save" => net.account \in keys

\* There are no infos at first.
LEMMA InfoInvInit == Init => InfoInv
  BY DEF Init, InfoInv, Described, NoKeysFile, NetIdle

\* No step removes a key file, and a write describes what memory does.
LEMMA DescribedWrite ==
  ASSUME InfoInv, UNCHANGED file, NEW info, Described(info), Write(info)
  PROVE  Described(keysFile.info)'
<1>1. CASE keysFileKey = NoKey
  BY <1>1 DEF InfoInv, Described, Write
<1>2. CASE keysFileKey # NoKey
  <2>1. keysFile'.info = info
    BY <1>2 DEF Write
  <2> QED
    BY <2>1 DEF Described
<1> QED
  BY <1>1, <1>2

\* A restart forgets the infos in memory and keeps the files.
LEMMA InfoInvRestart ==
  ASSUME UNCHANGED file, Restart, Described(keysFile.info)'
  PROVE  InfoInv'
  BY DEF InfoInv, Restart, Described, NetIdle, NoKeysFile

\* Signing out describes fewer accounts.
LEMMA InfoInvUI ==
  ASSUME InfoInv,
         \/ ShowForm \/ SwitchForm \/ LeaveForm
         \/ \E p \in Passwords : Submit(p)
         \/ SignOut \/ ClearCache \/ WriteCleared \/ ClearSession \/ PostSignedOut
         \/ OnShow \/ OnAccountBarLogin \/ OnCallback \/ Exit
  PROVE  InfoInv'
<1>1. CASE UNCHANGED <<file, keys, keyInfo, disk, net>>
  BY <1>1 DEF InfoInv, Described, disk
<1>2. CASE Exit
  BY <1>2, InfoInvRestart DEF Exit, InfoInv, Described, disk
<1>3. CASE SignOut
  <2>1. /\ keyInfo' = [a \in Accounts |-> IF a = session THEN NoInfo ELSE keyInfo[a]]
        /\ UNCHANGED <<keys, file, keysFile, net>>
    BY <1>3 DEF SignOut, store, disk
  <2> QED
    BY <2>1 DEF InfoInv, Described
<1>4. CASE WriteCleared
  <2>1. Write(keyInfo) /\ UNCHANGED file
    BY <1>4 DEF WriteCleared
  <2>2. Described(keysFile.info)'
    BY <2>1, DescribedWrite DEF InfoInv
  <2>3. CASE Restart
    BY <2>1, <2>2, <2>3, InfoInvRestart
  <2>4. CASE ~Restart
    <3>1. UNCHANGED <<keyInfo, keys, net>>
      BY <1>4, <2>4 DEF WriteCleared, manager
    <3> QED
      BY <2>1, <2>2, <3>1 DEF InfoInv, Described
  <2> QED
    BY <2>3, <2>4
<1> QED
  BY <1>1, <1>2, <1>3, <1>4 DEF ShowForm, SwitchForm, LeaveForm, Submit, ClearCache,
     ClearSession, PostSignedOut, OnShow, OnAccountBarLogin, OnCallback, uiOnly, store, manager

\* A task describes an account only after its key file was opened.
LEMMA InfoInvNet ==
  ASSUME TypeOK, StoreInv, InfoInv,
         \/ TakeTask
         \/ FindAccount \/ ImportExisting \/ SetSession
         \/ ReadKeysFile \/ StoreKey \/ ReadInfos \/ SetMaster \/ CacheMaster
         \/ MakeKey \/ SaveOpen \/ SaveWrite \/ ImportInfo \/ CreateSalt \/ CreateKeysFile
         \/ Reply
  PROVE  InfoInv'
<1> USE AccountsAssumption
<1>0. net \in NetStates
  BY DEF TypeOK
<1>a. ASSUME UNCHANGED <<keyInfo, keysFile, file>>, net'.pc \notin {"import", "save"},
             net'.contents \in {net.contents, keysFile, NoKeysFile}
      PROVE  InfoInv'
  BY <1>a DEF InfoInv, Described, NoKeysFile
<1>1. CASE TakeTask
  <2>1. net'.pc \notin {"import", "save"} /\ net'.contents = NoKeysFile
    BY <1>1 DEF TakeTask, NetIdle
  <2> QED
    BY <1>1, <1>a, <2>1 DEF TakeTask, store, manager, disk
<1>2. CASE FindAccount
  <2>1. UNCHANGED <<keyInfo, keysFile, file>>
    BY <1>2 DEF FindAccount, manager, disk
  <2>2. CASE net' = [net EXCEPT !.pc = "reply"]
    BY <1>0, <1>a, <2>1, <2>2 DEF NetStates
  <2>3. ASSUME NEW b \in keys, net' = [net EXCEPT !.pc = "import", !.account = b]
        PROVE  InfoInv'
    <3>1. file[b] = "whole"
      BY <1>2 DEF FindAccount, StoreInv, Stored
    <3>2. net'.pc = "import" /\ net'.account = b /\ net'.contents = net.contents
      BY <1>0, <2>3 DEF NetStates
    <3> QED
      BY <2>1, <3>1, <3>2 DEF InfoInv, Described
  <2> QED
    BY <1>2, <2>2, <2>3 DEF FindAccount
<1>3. CASE ImportExisting
  <2> DEFINE info == [keyInfo EXCEPT ![net.account] =
                          [hash |-> hashPassword(net.password), name |-> "empty"]]
  <2>1. file' = file
    BY <1>3 DEF ImportExisting
  <2>2. CASE ~Decrypts(net.account)
    <3>1. net'.pc = "session" /\ net'.contents = net.contents
      BY <1>0, <1>3, <2>2 DEF ImportExisting, NetStates
    <3> QED
      BY <1>3, <1>a, <2>1, <2>2, <3>1 DEF ImportExisting, manager
  <2>3. CASE Decrypts(net.account)
    <3>1. Described(info)
      BY <1>3 DEF ImportExisting, InfoInv, Described, TypeOK
    <3> HIDE DEF info
    <3>2. Write(info)
      BY <1>3, <2>3 DEF ImportExisting, info
    <3>3. Described(keysFile.info)'
      BY <2>1, <3>1, <3>2, DescribedWrite
    <3>4. CASE Restart
      BY <2>1, <3>3, <3>4, InfoInvRestart
    <3>5. CASE ~Restart
      <4>1. keyInfo' = info /\ net' = [net EXCEPT !.pc = "session"]
        BY <1>3, <2>3, <3>5 DEF ImportExisting, info
      <4>2. net'.pc = "session" /\ net'.contents = net.contents
        BY <1>0, <4>1 DEF NetStates
      <4> QED
        BY <2>1, <3>1, <3>3, <4>1, <4>2 DEF InfoInv, Described
    <3> QED
      BY <3>4, <3>5
  <2> QED
    BY <2>2, <2>3
<1>4. CASE SetSession
  <2>1. net'.pc \notin {"import", "save"} /\ net'.contents = net.contents
    BY <1>0, <1>4 DEF SetSession, NetStates
  <2> QED
    BY <1>4, <1>a, <2>1 DEF SetSession, store, manager, disk
<1>5. CASE ReadKeysFile
  <2>1. /\ net'.pc \notin {"import", "save"}
        /\ net'.contents \in {net.contents, keysFile, NoKeysFile}
    BY <1>0, <1>5 DEF ReadKeysFile, NetStates
  <2> QED
    BY <1>5, <1>a, <2>1 DEF ReadKeysFile, store, manager, disk
<1>13. CASE StoreKey
  <2>1. /\ net'.pc \notin {"import", "save"}
        /\ net'.contents \in {net.contents, keysFile, NoKeysFile}
    BY <1>0, <1>13 DEF StoreKey, NetStates
  <2> QED
    BY <1>13, <1>a, <2>1 DEF StoreKey, store, manager, disk
<1>15. CASE SetMaster
  <2>1. /\ net'.pc \notin {"import", "save"}
        /\ net'.contents \in {net.contents, keysFile, NoKeysFile}
    BY <1>0, <1>15 DEF SetMaster, NetStates
  <2> QED
    BY <1>15, <1>a, <2>1 DEF SetMaster, store, manager, disk
<1>16. CASE CacheMaster
  <2>1. /\ net'.pc \notin {"import", "save"}
        /\ net'.contents \in {net.contents, keysFile, NoKeysFile}
    BY <1>0, <1>16 DEF CacheMaster, NetStates
  <2> QED
    BY <1>16, <1>a, <2>1 DEF CacheMaster, store, manager, disk
<1>14. CASE ReadInfos
  <2>1. net'.pc \notin {"import", "save"} /\ net'.contents = NoKeysFile
    BY <1>0, <1>14 DEF ReadInfos, NetStates
  <2>2. UNCHANGED <<keysFile, file>>
    BY <1>14 DEF ReadInfos, store, disk
  <2>3. \E known : keyInfo' = [b \in Accounts |-> IF b \in known THEN net.contents.info[b]
                                               ELSE keyInfo[b]]
    BY <1>14 DEF ReadInfos
  <2>4. Described(net.contents.info)'
    BY <2>1 DEF Described, NoKeysFile
  <2> QED
    BY <2>1, <2>2, <2>3, <2>4 DEF InfoInv, Described
<1>6. CASE MakeKey
  <2>1. UNCHANGED <<keyInfo, keysFile, file>>
    BY <1>6 DEF MakeKey, disk
  <2>2. net'.pc = "save" /\ net'.account \in keys' /\ net'.contents = net.contents
    BY <1>0, <1>6 DEF MakeKey, NetStates
  <2> QED
    BY <2>1, <2>2 DEF InfoInv, Described
<1>7. CASE SaveOpen
  <2>1. /\ net'.pc = "save" /\ net'.account = net.account /\ net.pc = "save"
        /\ net'.contents = net.contents
    BY <1>0, <1>7 DEF SaveOpen, NetStates
  <2>2. UNCHANGED <<keyInfo, keysFile, keys>>
    BY <1>7 DEF SaveOpen, manager, disk
  <2>3. \A b \in Accounts : file[b] # "none" => file'[b] # "none"
    BY <1>7 DEF SaveOpen, TypeOK
  <2> QED
    BY <2>1, <2>2, <2>3 DEF InfoInv, Described
<1>8. CASE SaveWrite
  <2>1. /\ net'.pc = "save" /\ net'.account = net.account /\ net.pc = "save"
        /\ net'.contents = net.contents
    BY <1>0, <1>8 DEF SaveWrite, NetStates
  <2>2. UNCHANGED <<keyInfo, keysFile, keys>>
    BY <1>8 DEF SaveWrite, manager, disk
  <2>3. \A b \in Accounts : file[b] # "none" => file'[b] # "none"
    BY <1>8 DEF SaveWrite, TypeOK
  <2> QED
    BY <2>1, <2>2, <2>3 DEF InfoInv, Described
<1>9. CASE ImportInfo
  <2> DEFINE info == [keyInfo EXCEPT ![net.account] = [hash |-> net.hash, name |-> "given"]]
  <2>1. file' = file /\ net.pc = "save" /\ net.left = {}
    BY <1>9 DEF ImportInfo
  <2>2. net.account \in keys /\ net.account \in Accounts
    BY <2>1 DEF InfoInv, TypeOK
  <2>3. file[net.account] = "whole"
    BY <2>1, <2>2 DEF StoreInv, SaveProgress
  <2>4. Described(info)
    BY <2>3 DEF InfoInv, Described, TypeOK
  <2> HIDE DEF info
  <2>5. Write(info)
    BY <1>9 DEF ImportInfo, info
  <2>6. Described(keysFile.info)'
    BY <2>1, <2>4, <2>5, DescribedWrite
  <2>7. CASE Restart
    BY <2>1, <2>6, <2>7, InfoInvRestart
  <2>8. CASE ~Restart
    <3>1. keyInfo' = info /\ net' = [net EXCEPT !.pc = "session"]
      BY <1>9, <2>8 DEF ImportInfo, info
    <3>2. net'.pc = "session" /\ net'.contents = net.contents
      BY <1>0, <3>1 DEF NetStates
    <3> QED
      BY <2>1, <2>4, <2>6, <3>1, <3>2 DEF InfoInv, Described
  <2> QED
    BY <2>7, <2>8
<1>10. CASE CreateSalt
  <2>1. net'.pc \notin {"import", "save"} /\ net'.contents = net.contents
    BY <1>0, <1>10 DEF CreateSalt, NetStates
  <2> QED
    BY <1>10, <1>a, <2>1 DEF CreateSalt, store
<1>11. CASE CreateKeysFile
  <2>1. net'.pc \notin {"import", "save"} /\ net'.contents = net.contents
    BY <1>0, <1>11 DEF CreateKeysFile, NetStates
  <2>2. keysFile'.info = keyInfo /\ UNCHANGED <<keyInfo, file>>
    BY <1>11 DEF CreateKeysFile, store
  <2> QED
    BY <2>1, <2>2 DEF InfoInv, Described
<1>12. CASE Reply
  <2>1. net'.pc \notin {"import", "save"} /\ net'.contents = NoKeysFile
    BY <1>12 DEF Reply, NetIdle
  <2> QED
    BY <1>12, <1>a, <2>1 DEF Reply, store, manager, disk
<1> QED
  BY <1>1, <1>2, <1>3, <1>4, <1>5, <1>6, <1>7, <1>8, <1>9, <1>10, <1>11, <1>12, <1>13,
     <1>14, <1>15, <1>16

(* The keys file mentions an account only once its key file exists,         *)
(* wherever the process ends: import saves the key first, Login finds only  *)
(* keys that are in their files, and no step removes a key file.            *)
THEOREM KeyFileIsFirst == Spec => []KeyFileFirst
<1> DEFINE Inv == StoreInv /\ InfoInv
<1>1. Init => Inv
  BY StoreInvInit, InfoInvInit
<1>2. TypeOK /\ Inv /\ [Next]_vars => Inv'
  <2>1. TypeOK /\ Inv /\ Next => Inv'
    BY StoreInvUI, StoreInvNet, InfoInvUI, InfoInvNet DEF Next
  <2>2. Inv /\ UNCHANGED vars => Inv'
    BY DEF vars, StoreInv, SaveProgress, Stored, InfoInv, Described, store, manager, disk
  <2> QED
    BY <2>1, <2>2
<1>3. Inv => KeyFileFirst
  BY DEF InfoInv, Described, KeyFileFirst
<1> QED
  BY <1>1, <1>2, <1>3, TypeCorrect, PTL DEF Spec

-----------------------------------------------------------------------------
(* The master password.                                                     *)

\* As long as the key in memory is that of the file the master password is in the
\* cache, and it is there before create makes the key and the file.  While load has the
\* contents of the file, a write() that did not end the process found the master password.
MasterInv ==
    /\ ThrowsOnlyAfterBadLoad
    /\ net.pc = "createKeys" => master \in cachedPasswords
    /\ net.pc = "loadInfo" => keysFileKey = <<net.password, salt>>
    /\ net.pc \in {"loadKey", "loadInfo"} =>
          keysFile.key = net.contents.key \/ master \in cachedPasswords
    /\ net.pc = "loadCache" => master = hashPassword(net.password)

\* There is no key at first.
LEMMA MasterInvInit == Init => MasterInv
  BY DEF Init, MasterInv, ThrowsOnlyAfterBadLoad, NetIdle

\* A process that is started has no key.
LEMMA MasterInvRestart == Restart => MasterInv'
  BY DEF Restart, MasterInv, ThrowsOnlyAfterBadLoad, NetIdle

\* Signing out ends the process unless the master password is in the cache.
LEMMA MasterInvUI ==
  ASSUME MasterInv,
         \/ ShowForm \/ SwitchForm \/ LeaveForm
         \/ \E p \in Passwords : Submit(p)
         \/ SignOut \/ ClearCache \/ WriteCleared \/ ClearSession \/ PostSignedOut
         \/ OnShow \/ OnAccountBarLogin \/ OnCallback \/ Exit
  PROVE  MasterInv'
<1>1. CASE UNCHANGED <<cachedPasswords, default, keysFileKey, master, disk, net>>
  BY <1>1 DEF MasterInv, ThrowsOnlyAfterBadLoad, hashPassword, disk
<1>2. CASE Exit
  BY <1>2, MasterInvRestart DEF Exit
<1>3. CASE WriteCleared
  <2>1. CASE Restart
    BY <2>1, MasterInvRestart
  <2>2. CASE ~Restart
    <3>1. UNCHANGED <<cachedPasswords, default, keysFileKey, master, salt, net>>
      BY <1>3, <2>2 DEF WriteCleared, manager
    <3>2. CASE keysFileKey = NoKey
      BY <1>1, <1>3, <3>1, <3>2 DEF WriteCleared, Write, disk
    <3>3. CASE keysFileKey # NoKey
      <4>1. master \in cachedPasswords
        BY <1>3, <2>2, <3>3 DEF WriteCleared, WriteThrows
      <4> QED
        BY <3>1, <4>1 DEF MasterInv, ThrowsOnlyAfterBadLoad, hashPassword
    <3> QED
      BY <3>2, <3>3
  <2> QED
    BY <2>1, <2>2
<1> QED
  BY <1>1, <1>2, <1>3 DEF ShowForm, SwitchForm, LeaveForm, Submit, SignOut, ClearCache,
     ClearSession, PostSignedOut, OnShow, OnAccountBarLogin, OnCallback, uiOnly, manager, disk

\* A task caches the master password when it loads or creates the keys file; a
\* load with the wrong password leaves a key that is not the file's, and the next
\* write() with it ends the process.
LEMMA MasterInvNet ==
  ASSUME TypeOK, MasterInv,
         \/ TakeTask
         \/ FindAccount \/ ImportExisting \/ SetSession
         \/ ReadKeysFile \/ StoreKey \/ ReadInfos \/ SetMaster \/ CacheMaster
         \/ MakeKey \/ SaveOpen \/ SaveWrite \/ ImportInfo \/ CreateSalt \/ CreateKeysFile
         \/ Reply
  PROVE  MasterInv'
<1> USE DEF KeyStored
<1> DEFINE Delicate == {"createKeys", "loadKey", "loadInfo", "loadCache"}
<1>0. net \in NetStates
  BY DEF TypeOK
\* A step that leaves the keys alone, forgets no password and does not leave load.
<1>a. ASSUME UNCHANGED <<keysFileKey, keysFile, master>>, cachedPasswords \subseteq cachedPasswords',
             net'.pc \notin Delicate, net.pc \notin KeyStored
      PROVE  MasterInv'
  BY <1>a DEF MasterInv, ThrowsOnlyAfterBadLoad
<1>1. CASE TakeTask
  BY <1>1, <1>a DEF TakeTask, NetIdle, manager, disk
<1>2. CASE FindAccount
  <2>1. net'.pc \notin Delicate
    BY <1>0, <1>2 DEF FindAccount, NetStates
  <2> QED
    BY <1>2, <1>a, <2>1 DEF FindAccount, manager, disk
<1>3. CASE ImportExisting
  <2>1. CASE Restart
    BY <2>1, MasterInvRestart
  <2>2. CASE ~Restart
    <3>1. net'.pc \notin Delicate
      BY <1>0, <1>3, <2>2 DEF ImportExisting, NetStates
    <3>2. CASE ~Decrypts(net.account)
      BY <1>3, <1>a, <3>1, <3>2 DEF ImportExisting, manager
    <3>3. CASE Decrypts(net.account)
      <4>1. /\ keysFileKey # NoKey => master \in cachedPasswords'
            /\ UNCHANGED <<keysFileKey, master>>
        BY <1>3, <2>2, <3>3 DEF ImportExisting, WriteThrows
      <4> QED
        BY <3>1, <4>1 DEF MasterInv, ThrowsOnlyAfterBadLoad
    <3> QED
      BY <3>2, <3>3
  <2> QED
    BY <2>1, <2>2
<1>4. CASE SetSession
  <2>1. net'.pc \notin Delicate
    BY <1>0, <1>4 DEF SetSession, NetStates
  <2> QED
    BY <1>4, <1>a, <2>1 DEF SetSession, manager, disk
<1>5. CASE ReadKeysFile
  <2>1. UNCHANGED <<keysFileKey, keysFile, master, cachedPasswords>>
    BY <1>5 DEF ReadKeysFile, manager, disk
  <2>2. /\ net.pc \notin KeyStored
        /\ \/ net'.pc = "reply"
           \/ net'.pc = "loadKey" /\ net'.contents = keysFile
    BY <1>0, <1>5 DEF ReadKeysFile, NetStates
  <2> QED
    BY <2>1, <2>2 DEF MasterInv, ThrowsOnlyAfterBadLoad
<1>13. CASE StoreKey
  <2>1. /\ net.pc = "loadKey" /\ net'.pc = "loadInfo"
        /\ net'.contents = net.contents /\ net'.password = net.password
    BY <1>0, <1>13 DEF StoreKey, NetStates
  <2>2. /\ UNCHANGED <<keysFile, salt, master, cachedPasswords>>
        /\ keysFileKey' = <<net.password, salt>>
    BY <1>13 DEF StoreKey, disk
  <2> QED
    BY <2>1, <2>2 DEF MasterInv, ThrowsOnlyAfterBadLoad
<1>14. CASE ReadInfos
  <2>1. UNCHANGED <<keysFileKey, keysFile, master, cachedPasswords>> /\ net.pc = "loadInfo"
    BY <1>14 DEF ReadInfos, disk
  <2>2. CASE net' = [net EXCEPT !.pc = "loadMaster", !.contents = NoKeysFile]
    <3>1. net'.pc = "loadMaster"
      BY <1>0, <2>2 DEF NetStates
    <3> QED
      BY <3>1 DEF MasterInv, ThrowsOnlyAfterBadLoad
  <2>3. CASE /\ net.contents.key # <<net.password, salt>>
             /\ net' = [net EXCEPT !.pc = "reply", !.contents = NoKeysFile]
    <3>1. net'.pc = "reply"
      BY <1>0, <2>3 DEF NetStates
    <3>2. keysFile.key # keysFileKey \/ master \in cachedPasswords
      BY <2>1, <2>3 DEF MasterInv
    <3> QED
      BY <2>1, <3>1, <3>2 DEF MasterInv, ThrowsOnlyAfterBadLoad
  <2> QED
    BY <1>14, <2>2, <2>3 DEF ReadInfos
<1>15. CASE SetMaster
  <2>1. net'.pc = "loadCache" /\ net'.password = net.password
    BY <1>0, <1>15 DEF SetMaster, NetStates
  <2>2. master' = hashPassword(net.password) /\ default' = default
    BY <1>15 DEF SetMaster
  <2> QED
    BY <2>1, <2>2 DEF MasterInv, ThrowsOnlyAfterBadLoad, hashPassword
<1>16. CASE CacheMaster
  <2>1. net'.pc = "reply" /\ net.pc = "loadCache"
    BY <1>0, <1>16 DEF CacheMaster, NetStates
  <2>2. cachedPasswords' = cachedPasswords \cup {hashPassword(net.password)} /\ master' = master
    BY <1>16 DEF CacheMaster
  <2>3. master' \in cachedPasswords'
    BY <2>1, <2>2 DEF MasterInv
  <2> QED
    BY <2>1, <2>3 DEF MasterInv, ThrowsOnlyAfterBadLoad
<1>6. CASE MakeKey
  <2>1. net'.pc \notin Delicate
    BY <1>0, <1>6 DEF MakeKey, NetStates
  <2> QED
    BY <1>6, <1>a, <2>1 DEF MakeKey, disk
<1>7. CASE SaveOpen
  <2>1. net'.pc \notin Delicate
    BY <1>0, <1>7 DEF SaveOpen, NetStates
  <2> QED
    BY <1>7, <1>a, <2>1 DEF SaveOpen, manager, disk
<1>8. CASE SaveWrite
  <2>1. net'.pc \notin Delicate
    BY <1>0, <1>8 DEF SaveWrite, NetStates
  <2> QED
    BY <1>8, <1>a, <2>1 DEF SaveWrite, manager, disk
<1>9. CASE ImportInfo
  <2>1. CASE Restart
    BY <2>1, MasterInvRestart
  <2>2. CASE ~Restart
    <3>1. net'.pc \notin Delicate
      BY <1>0, <1>9, <2>2 DEF ImportInfo, NetStates
    <3>2. /\ keysFileKey # NoKey => master \in cachedPasswords
          /\ UNCHANGED <<keysFileKey, master, cachedPasswords>>
      BY <1>9, <2>2 DEF ImportInfo, WriteThrows
    <3> QED
      BY <3>1, <3>2 DEF MasterInv, ThrowsOnlyAfterBadLoad
  <2> QED
    BY <2>1, <2>2
<1>10. CASE CreateSalt
  <2>1. CASE exists
    <3>1. net'.pc \notin Delicate
      BY <1>0, <1>10, <2>1 DEF CreateSalt, NetStates
    <3> QED
      BY <1>10, <1>a, <2>1, <3>1 DEF CreateSalt
  <2>2. CASE ~exists
    <3>1. master' \in cachedPasswords'
      BY <1>10, <2>2 DEF CreateSalt
    <3>2. net'.pc = "createKeys"
      BY <1>0, <1>10, <2>2 DEF CreateSalt, NetStates
    <3> QED
      BY <3>1, <3>2 DEF MasterInv, ThrowsOnlyAfterBadLoad
  <2> QED
    BY <2>1, <2>2
<1>11. CASE CreateKeysFile
  <2>1. net'.pc \notin Delicate
    BY <1>0, <1>11 DEF CreateKeysFile, NetStates
  <2>2. master' \in cachedPasswords'
    BY <1>11 DEF CreateKeysFile, MasterInv
  <2> QED
    BY <2>1, <2>2 DEF MasterInv, ThrowsOnlyAfterBadLoad
<1>12. CASE Reply
  BY <1>12, <1>a DEF Reply, NetIdle, manager, disk
<1> QED
  BY <1>1, <1>2, <1>3, <1>4, <1>5, <1>6, <1>7, <1>8, <1>9, <1>10, <1>11, <1>12, <1>13,
     <1>14, <1>15, <1>16

(* Outside of the steps of load, write() finds the master password in the   *)
(* cache as long as the key in memory is the file's: the exception that     *)
(* ends the process is thrown only after a load with the wrong password, or *)
(* by a sign-out in the middle of a load.                                   *)
THEOREM ThrowsOnlyAfterBadLoadAlways == Spec => []ThrowsOnlyAfterBadLoad
<1>1. TypeOK /\ MasterInv /\ [Next]_vars => MasterInv'
  <2>1. TypeOK /\ MasterInv /\ Next => MasterInv'
    BY MasterInvUI, MasterInvNet DEF Next
  <2>2. MasterInv /\ UNCHANGED vars => MasterInv'
    BY DEF vars, MasterInv, ThrowsOnlyAfterBadLoad, hashPassword, manager, disk
  <2> QED
    BY <2>1, <2>2
<1>2. MasterInv => ThrowsOnlyAfterBadLoad
  BY DEF MasterInv
<1> QED
  BY <1>1, <1>2, MasterInvInit, TypeCorrect, PTL DEF Spec

-----------------------------------------------------------------------------
(* The account that is logged in.                                           *)

\* Unless the user signs out while a task runs, an account that is logged in
\* can sign until it signs out, and a task has made its account able to before it
\* logs it in.
UsableInv ==
    "signOutDuringTask" \notin mishaps =>
        /\ ui # "idle" => net.pc = "idle"
        /\ ui = "post" => session = None
        /\ ui = "idle" /\ session # None => session \in lookup \cap cached
        /\ net.pc = "import" => net.account \in keys \cap cached
        /\ net.pc = "save" => net.account \in cached
        /\ net.pc = "session" => net.account \in lookup \cap cached

\* Nobody is logged in at first, nor after a restart.
LEMMA UsableInvInit == /\ Init => UsableInv
                       /\ Restart => UsableInv'
  BY DEF Init, Restart, UsableInv, NetIdle

\* Signing out takes the account out of the cache and of the lookup before it logs it
\* out; during a task it is a mishap.
LEMMA UsableInvUI ==
  ASSUME UsableInv,
         \/ ShowForm \/ SwitchForm \/ LeaveForm
         \/ \E p \in Passwords : Submit(p)
         \/ SignOut \/ ClearCache \/ WriteCleared \/ ClearSession \/ PostSignedOut
         \/ OnShow \/ OnAccountBarLogin \/ OnCallback \/ Exit
  PROVE  UsableInv'
<1>1. CASE UNCHANGED <<store, manager, session, net, ui, history>>
  BY <1>1 DEF UsableInv, store, manager, history
<1>2. CASE Exit
  BY <1>2, UsableInvInit DEF Exit
<1>3. CASE SignOut
  <2>1. ui' = "clear" /\ UNCHANGED net
    BY <1>3 DEF SignOut
  <2>2. net.pc # "idle" => "signOutDuringTask" \in mishaps'
    BY <1>3 DEF SignOut
  <2> QED
    BY <2>1, <2>2 DEF UsableInv
<1>4. CASE ClearCache
  BY <1>4 DEF ClearCache, UsableInv, history
<1>5. CASE WriteCleared
  <2>1. CASE Restart
    BY <2>1, UsableInvInit
  <2>2. CASE ~Restart
    BY <1>5, <2>2 DEF WriteCleared, UsableInv, history
  <2> QED
    BY <2>1, <2>2
<1>6. CASE ClearSession
  BY <1>6 DEF ClearSession, UsableInv, history
<1>7. CASE PostSignedOut
  BY <1>7 DEF PostSignedOut, UsableInv, history
<1> QED
  BY <1>1, <1>2, <1>3, <1>4, <1>5, <1>6, <1>7 DEF ShowForm, SwitchForm, LeaveForm, Submit, OnShow,
     OnAccountBarLogin, OnCallback, uiOnly

\* A task decrypts the key and makes its uuid known before it logs the account in.
LEMMA UsableInvNet ==
  ASSUME TypeOK, UsableInv,
         \/ TakeTask
         \/ FindAccount \/ ImportExisting \/ SetSession
         \/ ReadKeysFile \/ StoreKey \/ ReadInfos \/ SetMaster \/ CacheMaster
         \/ MakeKey \/ SaveOpen \/ SaveWrite \/ ImportInfo \/ CreateSalt \/ CreateKeysFile
         \/ Reply
  PROVE  UsableInv'
<1>0. net \in NetStates
  BY DEF TypeOK
\* A step that forgets nothing and is not on the way to a login.
<1>a. ASSUME mishaps \subseteq mishaps', session' = session, ui' = ui,
             net.pc # "idle" \/ ui = "idle" \/ "signOutDuringTask" \in mishaps',
             lookup \subseteq lookup', cached \subseteq cached',
             net'.pc \notin {"import", "save", "session"}
      PROVE  UsableInv'
  BY <1>a DEF UsableInv
<1>1. CASE TakeTask
  <2>1. net'.pc \notin {"import", "save", "session"}
    BY <1>1 DEF TakeTask, NetIdle
  <2> QED
    BY <1>1, <1>a, <2>1 DEF TakeTask, store, manager
<1>2. CASE FindAccount
  <2>1. /\ mishaps \subseteq mishaps' /\ UNCHANGED <<session, lookup, keys, ui>>
        /\ cached \subseteq cached' /\ net.pc = "find"
    BY <1>2 DEF FindAccount, manager, netOnly
  <2>2. CASE net' = [net EXCEPT !.pc = "reply"]
    <3>1. net'.pc = "reply"
      BY <1>0, <2>2 DEF NetStates
    <3> QED
      BY <1>a, <2>1, <3>1
  <2>3. ASSUME NEW b \in keys, cached' = cached \cup {b},
               net' = [net EXCEPT !.pc = "import", !.account = b]
        PROVE  UsableInv'
    <3>1. net'.pc = "import" /\ net'.account = b
      BY <1>0, <2>3 DEF NetStates
    <3> QED
      BY <2>1, <2>3, <3>1 DEF UsableInv
  <2> QED
    BY <1>2, <2>2, <2>3 DEF FindAccount
<1>3. CASE ImportExisting
  <2>1. CASE Restart
    BY <2>1, UsableInvInit
  <2>2. CASE ~Restart
    <3>1. net'.pc = "session" /\ net'.account = net.account /\ net.pc = "import"
      BY <1>0, <1>3, <2>2 DEF ImportExisting, NetStates
    <3>2. CASE "signOutDuringTask" \in mishaps
      BY <1>3, <3>2 DEF ImportExisting, UsableInv, history
    <3>3. CASE "signOutDuringTask" \notin mishaps
      <4>1. Decrypts(net.account)
        BY <3>1, <3>3 DEF Decrypts, UsableInv
      <4>2. /\ cached' = cached \cup {net.account} /\ lookup' = lookup \cup {net.account}
            /\ UNCHANGED <<session, ui>>
        BY <1>3, <2>2, <4>1 DEF ImportExisting, netOnly
      <4> QED
        BY <3>1, <3>3, <4>2 DEF UsableInv
    <3> QED
      BY <3>2, <3>3
  <2> QED
    BY <2>1, <2>2
<1>4. CASE SetSession
  <2>1. net'.pc \notin {"import", "save", "session"} /\ net.pc = "session"
    BY <1>0, <1>4 DEF SetSession, NetStates
  <2>2. UNCHANGED <<lookup, cached, ui>> /\ mishaps \subseteq mishaps'
    BY <1>4 DEF SetSession, store, manager, netOnly
  <2>3. net.account \in lookup => session' = net.account
    BY <1>4 DEF SetSession
  <2> QED
    BY <2>1, <2>2, <2>3 DEF UsableInv
<1>5. CASE ReadKeysFile
  <2>1. net'.pc \notin {"import", "save", "session"}
    BY <1>0, <1>5 DEF ReadKeysFile, NetStates
  <2> QED
    BY <1>5, <1>a, <2>1 DEF ReadKeysFile, store, manager, netOnly, history
<1>13. CASE StoreKey
  <2>1. net'.pc \notin {"import", "save", "session"}
    BY <1>0, <1>13 DEF StoreKey, NetStates
  <2> QED
    BY <1>13, <1>a, <2>1 DEF StoreKey, store, manager, netOnly, history
<1>14. CASE ReadInfos
  <2>1. net'.pc \notin {"import", "save", "session"}
    BY <1>0, <1>14 DEF ReadInfos, NetStates
  <2> QED
    BY <1>14, <1>a, <2>1 DEF ReadInfos, store, manager, netOnly, history
<1>15. CASE SetMaster
  <2>1. net'.pc \notin {"import", "save", "session"}
    BY <1>0, <1>15 DEF SetMaster, NetStates
  <2> QED
    BY <1>15, <1>a, <2>1 DEF SetMaster, store, manager, netOnly, history
<1>16. CASE CacheMaster
  <2>1. net'.pc \notin {"import", "save", "session"}
    BY <1>0, <1>16 DEF CacheMaster, NetStates
  <2> QED
    BY <1>16, <1>a, <2>1 DEF CacheMaster, store, manager, netOnly, history
<1>6. CASE MakeKey
  <2>1. net'.pc = "save" /\ net'.account \in cached' /\ cached \subseteq cached'
    BY <1>0, <1>6 DEF MakeKey, NetStates
  <2> QED
    BY <1>6, <2>1 DEF MakeKey, UsableInv, netOnly
<1>7. CASE SaveOpen
  <2>1. net'.pc = "save" /\ net'.account = net.account /\ net.pc = "save"
    BY <1>0, <1>7 DEF SaveOpen, NetStates
  <2> QED
    BY <1>7, <2>1 DEF SaveOpen, UsableInv, manager, netOnly, history
<1>8. CASE SaveWrite
  <2>1. net'.pc = "save" /\ net'.account = net.account /\ net.pc = "save"
    BY <1>0, <1>8 DEF SaveWrite, NetStates
  <2> QED
    BY <1>8, <2>1 DEF SaveWrite, UsableInv, manager, netOnly, history
<1>9. CASE ImportInfo
  <2>1. CASE Restart
    BY <2>1, UsableInvInit
  <2>2. CASE ~Restart
    <3>1. net'.pc = "session" /\ net'.account = net.account /\ net.pc = "save"
      BY <1>0, <1>9, <2>2 DEF ImportInfo, NetStates
    <3>2. /\ lookup' = lookup \cup {net.account}
          /\ UNCHANGED <<cached, session, ui, mishaps>>
      BY <1>9, <2>2 DEF ImportInfo, netOnly, history
    <3> QED
      BY <3>1, <3>2 DEF UsableInv
  <2> QED
    BY <2>1, <2>2
<1>10. CASE CreateSalt
  <2>1. net'.pc \notin {"import", "save", "session"}
    BY <1>0, <1>10 DEF CreateSalt, NetStates
  <2> QED
    BY <1>10, <1>a, <2>1 DEF CreateSalt, store, netOnly, history
<1>11. CASE CreateKeysFile
  <2>1. net'.pc = "reply"
    BY <1>0, <1>11 DEF CreateKeysFile, NetStates
  <2> QED
    BY <1>11, <1>a, <2>1 DEF CreateKeysFile, store, netOnly, history
<1>12. CASE Reply
  <2>1. net'.pc = "idle"
    BY <1>12 DEF Reply, NetIdle
  <2> QED
    BY <1>12, <1>a, <2>1 DEF Reply, store, manager
<1> QED
  BY <1>1, <1>2, <1>3, <1>4, <1>5, <1>6, <1>7, <1>8, <1>9, <1>10, <1>11, <1>12, <1>13,
     <1>14, <1>15, <1>16

(* The account that is logged in can sign when no task runs, unless the     *)
(* user signed out while one ran: its uuid is known and its key is there    *)
(* decrypted, whatever other logins and registrations came in between.      *)
THEOREM SessionIsUsable == Spec => []SessionUsable
<1>1. TypeOK /\ UsableInv /\ [Next]_vars => UsableInv'
  <2>1. TypeOK /\ UsableInv /\ Next => UsableInv'
    BY UsableInvUI, UsableInvNet DEF Next
  <2>2. UsableInv /\ UNCHANGED vars => UsableInv'
    BY DEF vars, UsableInv, store, manager, history
  <2> QED
    BY <2>1, <2>2
<1>2. UsableInv => SessionUsable
  BY DEF UsableInv, SessionUsable
<1> QED
  BY <1>1, <1>2, UsableInvInit, TypeCorrect, PTL DEF Spec

-----------------------------------------------------------------------------
(* The password of the account that is logged in.                           *)

\* What a task works with was typed, and nothing else gets into the cache.
TypedInv ==
    /\ \A i \in DOMAIN pending : pending[i].password \in Passwords
    /\ net.pc # "idle" => net.password \in Passwords
    /\ \A h \in cachedPasswords : h[1] \in Passwords

\* An info has the hash of the account's password, salted with nothing or with d.
Salted(info, d) ==
    \A a \in Accounts : info[a] # NoInfo =>
        /\ password[a] \in Passwords
        /\ info[a].hash \in {<<password[a], None>>, <<password[a], d>>}

\* There is at most one default password beside the empty one; a process that knows
\* it has a key to write the keys file with, and has written it, with its default
\* password, before load reads the file.
DefaultInv ==
    /\ Salted(keyInfo, default)
    /\ Salted(keysFile.info, keysFile.default)
    /\ Salted(net.contents.info, net.contents.default)
    /\ net.pc = "load" \/ (net.pc = "session" /\ net.op = "login") =>
          keysFileKey = NoKey \/ keysFile.default = default
    /\ net.pc \in {"loadKey", "loadInfo"} => default \in {None, net.contents.default}
    /\ net.pc = "loadInfo" => keysFileKey # NoKey
    /\ keysFile = NoKeysFile /\ net.pc # "createKeys" => default = None
    /\ default # None => keysFileKey # NoKey \/ net.pc = "createKeys"

\* The account's hash in memory is in the cache, ...
Known(a) ==
    a \in lookup /\ keyInfo[a] # NoInfo /\ keyInfo[a].hash \in cachedPasswords

\* ... or load is about to cache it, ...
Coming(a) ==
    /\ net.pc \in {"loadMaster", "loadCache"}
    /\ a \in lookup /\ keyInfo[a] # NoInfo /\ keyInfo[a].hash = hashPassword(net.password)

\* ... and so is the one in a keys file, or it will be once that is loaded.
Covered(f, a) ==
    f.info[a] # NoInfo => f.info[a].hash \in cachedPasswords \cup {<<password[a], f.default>>}

\* Where a task is on the way to log its account in, and where load is.
OnTheWay ==
    /\ net.pc = "find" => net.op = "login"
    /\ net.pc \in {"make", "save"} => net.op # "login"
    /\ net.pc = "import" =>
          net.op = "login" /\ net.account \in keys /\ password[net.account] = net.password
    /\ net.pc = "save" =>
          /\ password[net.account] \in Passwords /\ net.account # session
          /\ net.hash = hashPassword(password[net.account]) /\ net.hash \in cachedPasswords
    /\ net.pc = "session" /\ net.op # "login" => net.account # session /\ Known(net.account)
    /\ net.pc = "session" /\ net.op = "login" =>
          /\ password[net.account] = net.password
          /\ net.account \in lookup => Known(net.account) /\ Covered(keysFile, net.account)
    /\ net.pc \in {"load", "loadKey", "loadInfo"} => password[net.account] = net.password
    /\ net.pc = "load" /\ session \in Accounts =>
          /\ session = net.account /\ Covered(keysFile, session)
          /\ keyInfo[session] = NoInfo \/ Known(session)
    /\ net.pc \in {"loadKey", "loadInfo"} /\ session \in Accounts =>
          session = net.account /\ Covered(net.contents, session)

\* Signing out has not begun, or has forgotten the session it began with.
Settled == ui \in {"idle", "post"}

SessionInv ==
    /\ session \in Accounts => password[session] \in Passwords
    /\ session \in Accounts /\ Settled => Known(session) \/ Coming(session)
    /\ OnTheWay

\* Nothing is said once a login found a key that was there decrypted.
PasswordInv == "cachedLogin" \notin mishaps => DefaultInv /\ SessionInv

\* At first, and when the process is started, nothing is typed or cached.
LEMMA TypedInvInit == /\ Init => TypedInv
                      /\ Restart => TypedInv'
  BY DEF Init, Restart, TypedInv, NetIdle

\* The forms hand over what was typed.
LEMMA TypedInvUI ==
  ASSUME TypeOK, TypedInv,
         \/ ShowForm \/ SwitchForm \/ LeaveForm
         \/ \E p \in Passwords : Submit(p)
         \/ SignOut \/ ClearCache \/ WriteCleared \/ ClearSession \/ PostSignedOut
         \/ OnShow \/ OnAccountBarLogin \/ OnCallback \/ Exit
  PROVE  TypedInv'
<1>1. CASE UNCHANGED <<cachedPasswords, net, pending>>
  BY <1>1 DEF TypedInv
<1>2. CASE Exit
  BY <1>2, TypedInvInit DEF Exit
<1>3. CASE WriteCleared
  <2>1. CASE Restart
    BY <2>1, TypedInvInit
  <2>2. CASE ~Restart
    BY <1>1, <1>3, <2>2 DEF WriteCleared, manager
  <2> QED
    BY <2>1, <2>2
<1>4. ASSUME NEW p \in Passwords, Submit(p)
      PROVE  TypedInv'
  <2>1. pending' \in Seq(Tasks) /\ UNCHANGED <<cachedPasswords, net>>
    <3>1. [op |-> form, password |-> p] \in Tasks
      BY <1>4 DEF Submit, TypeOK, Tasks
    <3> QED
      BY <1>4, <3>1, TaskTypes DEF Submit, TypeOK, uiOnly, manager
  <2>2. \A i \in DOMAIN pending' : pending'[i] \in Tasks
    BY <2>1
  <2> QED
    BY <2>1, <2>2 DEF TypedInv, Tasks
<1> QED
  BY <1>1, <1>2, <1>3, <1>4 DEF ShowForm, SwitchForm, LeaveForm, SignOut, ClearCache,
     ClearSession, PostSignedOut, OnShow, OnAccountBarLogin, OnCallback, uiOnly, manager

\* A task caches the password it was given and no other.
LEMMA TypedInvNet ==
  ASSUME TypeOK, TypedInv,
         \/ TakeTask
         \/ FindAccount \/ ImportExisting \/ SetSession
         \/ ReadKeysFile \/ StoreKey \/ ReadInfos \/ SetMaster \/ CacheMaster
         \/ MakeKey \/ SaveOpen \/ SaveWrite \/ ImportInfo \/ CreateSalt \/ CreateKeysFile
         \/ Reply
  PROVE  TypedInv'
<1>0. net \in NetStates
  BY DEF TypeOK
<1>a. ASSUME pending' = pending, net.pc # "idle", net'.password = net.password,
             \A h \in cachedPasswords' : h \in cachedPasswords \/ h[1] = net.password
      PROVE  TypedInv'
  BY <1>a DEF TypedInv
<1>1. CASE TakeTask
  <2>1. /\ Head(pending) \in Tasks /\ Tail(pending) \in Seq(Tasks)
    BY <1>1, TaskTypes DEF TakeTask, TypeOK
  <2>2. \A i \in DOMAIN pending' : pending'[i] \in Tasks
    BY <1>1, <2>1 DEF TakeTask
  <2>3. net'.password = Head(pending).password /\ cachedPasswords' = cachedPasswords
    BY <1>1 DEF TakeTask, NetIdle, manager
  <2> QED
    BY <2>1, <2>2, <2>3 DEF TypedInv, Tasks
<1>2. CASE FindAccount
  <2>1. net'.password = net.password /\ net.pc # "idle"
    BY <1>0, <1>2 DEF FindAccount, NetStates
  <2> QED
    BY <1>2, <1>a, <2>1 DEF FindAccount, netOnly, manager
<1>3. CASE ImportExisting
  <2>1. CASE Restart
    BY <2>1, TypedInvInit
  <2>2. CASE ~Restart
    <3>1. net'.password = net.password /\ net.pc # "idle"
      BY <1>0, <1>3, <2>2 DEF ImportExisting, NetStates
    <3>2. cachedPasswords' \subseteq cachedPasswords \cup {hashPassword(net.password)}
      BY <1>3, <2>2 DEF ImportExisting, manager
    <3>3. hashPassword(net.password)[1] = net.password
      BY DEF hashPassword
    <3> QED
      BY <1>3, <1>a, <2>2, <3>1, <3>2, <3>3 DEF ImportExisting, netOnly
  <2> QED
    BY <2>1, <2>2
<1>4. CASE SetSession
  <2>1. net'.password = net.password /\ net.pc # "idle"
    BY <1>0, <1>4 DEF SetSession, NetStates
  <2> QED
    BY <1>4, <1>a, <2>1 DEF SetSession, netOnly, manager
<1>5. CASE ReadKeysFile
  <2>1. net'.password = net.password /\ net.pc # "idle"
    BY <1>0, <1>5 DEF ReadKeysFile, NetStates
  <2> QED
    BY <1>5, <1>a, <2>1 DEF ReadKeysFile, netOnly, manager
<1>13. CASE StoreKey
  <2>1. net'.password = net.password /\ net.pc # "idle"
    BY <1>0, <1>13 DEF StoreKey, NetStates
  <2> QED
    BY <1>13, <1>a, <2>1 DEF StoreKey, netOnly, manager
<1>14. CASE ReadInfos
  <2>1. net'.password = net.password /\ net.pc # "idle"
    BY <1>0, <1>14 DEF ReadInfos, NetStates
  <2> QED
    BY <1>14, <1>a, <2>1 DEF ReadInfos, netOnly, manager
<1>15. CASE SetMaster
  <2>1. net'.password = net.password /\ net.pc # "idle"
    BY <1>0, <1>15 DEF SetMaster, NetStates
  <2> QED
    BY <1>15, <1>a, <2>1 DEF SetMaster, netOnly, manager
<1>16. CASE CacheMaster
  <2>1. /\ net'.password = net.password /\ net.pc # "idle"
        /\ cachedPasswords' = cachedPasswords \cup {hashPassword(net.password)}
    BY <1>0, <1>16 DEF CacheMaster, NetStates
  <2>2. hashPassword(net.password)[1] = net.password
    BY DEF hashPassword
  <2> QED
    BY <1>16, <1>a, <2>1, <2>2 DEF CacheMaster, netOnly
<1>6. CASE MakeKey
  <2>1. /\ net'.password = net.password /\ net.pc # "idle"
        /\ cachedPasswords' = cachedPasswords \cup {hashPassword(net.password)}
    BY <1>0, <1>6 DEF MakeKey, NetStates
  <2>2. hashPassword(net.password)[1] = net.password
    BY DEF hashPassword
  <2> QED
    BY <1>6, <1>a, <2>1, <2>2 DEF MakeKey, netOnly
<1>7. CASE SaveOpen
  <2>1. net'.password = net.password /\ net.pc # "idle"
    BY <1>0, <1>7 DEF SaveOpen, NetStates
  <2> QED
    BY <1>7, <1>a, <2>1 DEF SaveOpen, netOnly, manager
<1>8. CASE SaveWrite
  <2>1. net'.password = net.password /\ net.pc # "idle"
    BY <1>0, <1>8 DEF SaveWrite, NetStates
  <2> QED
    BY <1>8, <1>a, <2>1 DEF SaveWrite, netOnly, manager
<1>9. CASE ImportInfo
  <2>1. CASE Restart
    BY <2>1, TypedInvInit
  <2>2. CASE ~Restart
    <3>1. net'.password = net.password /\ net.pc # "idle"
      BY <1>0, <1>9, <2>2 DEF ImportInfo, NetStates
    <3> QED
      BY <1>9, <1>a, <2>2, <3>1 DEF ImportInfo, netOnly
  <2> QED
    BY <2>1, <2>2
<1>10. CASE CreateSalt
  <2>1. net'.password = net.password /\ net.pc # "idle"
    BY <1>0, <1>10 DEF CreateSalt, NetStates
  <2>2. \/ cachedPasswords' = cachedPasswords
        \/ cachedPasswords' = cachedPasswords \cup {<<net.password, net.account>>}
    BY <1>10 DEF CreateSalt
  <2>3. <<net.password, net.account>>[1] = net.password
    OBVIOUS
  <2> QED
    BY <1>10, <1>a, <2>1, <2>2, <2>3 DEF CreateSalt, netOnly
<1>11. CASE CreateKeysFile
  <2>1. net'.password = net.password /\ net.pc # "idle"
    BY <1>0, <1>11 DEF CreateKeysFile, NetStates
  <2> QED
    BY <1>11, <1>a, <2>1 DEF CreateKeysFile, netOnly
<1>12. CASE Reply
  <2>1. net'.pc = "idle"
    BY <1>12 DEF Reply, NetIdle
  <2> QED
    BY <1>12, <2>1 DEF Reply, TypedInv, manager
<1> QED
  BY <1>1, <1>2, <1>3, <1>4, <1>5, <1>6, <1>7, <1>8, <1>9, <1>10, <1>11, <1>12, <1>13,
     <1>14, <1>15, <1>16

\* Only passwords that were typed are in the cache.
LEMMA TypedAlways == Spec => []TypedInv
<1>1. TypeOK /\ TypedInv /\ [Next]_vars => TypedInv'
  <2>1. TypeOK /\ TypedInv /\ Next => TypedInv'
    BY TypedInvUI, TypedInvNet DEF Next
  <2>2. TypedInv /\ UNCHANGED vars => TypedInv'
    BY DEF vars, TypedInv, manager
  <2> QED
    BY <2>1, <2>2
<1> QED
  BY <1>1, TypedInvInit, TypeCorrect, PTL DEF Spec

\* What write() puts into the keys file is salted as the file says.
LEMMA SaltedWrite ==
  ASSUME DefaultInv, NEW info, Salted(info, default), Write(info), password' = password
  PROVE  /\ Salted(keysFile.info, keysFile.default)'
         /\ keysFileKey # NoKey => keysFile'.info = info /\ keysFile'.default = default
         /\ keysFile' = NoKeysFile => keysFile = NoKeysFile
<1>1. CASE keysFileKey = NoKey
  BY <1>1 DEF DefaultInv, Salted, Write
<1>2. CASE keysFileKey # NoKey
  <2>1. keysFile'.key = keysFileKey /\ keysFile'.info = info /\ keysFile'.default = default
    BY <1>2 DEF Write
  <2>2. keysFile' # NoKeysFile
    BY <1>2, <2>1 DEF NoKeysFile
  <2> QED
    BY <2>1, <2>2 DEF Salted
<1> QED
  BY <1>1, <1>2

\* A process that is started knows no infos and no default password.
LEMMA PasswordRestart ==
  ASSUME Restart, Salted(keysFile.info, keysFile.default)'
  PROVE  DefaultInv' /\ SessionInv'
  BY AccountsAssumption DEF Restart, DefaultInv, Salted, SessionInv, OnTheWay, NetIdle, NoKeysFile

\* At first there is nothing to be salted.
LEMMA PasswordInit == Init => PasswordInv
  BY AccountsAssumption DEF Init, PasswordInv, DefaultInv, Salted, SessionInv, OnTheWay, NetIdle,
     NoKeysFile

\* Signing out forgets the account's info in memory, ...
LEMMA PasswordSignOut ==
  ASSUME TypeOK, DefaultInv, SessionInv, SignOut
  PROVE  DefaultInv' /\ SessionInv'
<1> DEFINE left == [a \in Accounts |-> IF a = session THEN NoInfo ELSE keyInfo[a]]
<1>1. Salted(left, default)
  BY DEF DefaultInv, Salted
<1>2. \A a \in Accounts : left[a] = IF a = session THEN NoInfo ELSE keyInfo[a]
  OBVIOUS
<1>3. /\ keyInfo' = left /\ lookup' = lookup \ {session} /\ ui' = "clear"
      /\ UNCHANGED <<keys, cachedPasswords, default, keysFileKey, keysFile, session, net, password>>
  BY DEF SignOut, store, disk
<1> HIDE DEF left
<1>4. DefaultInv'
  BY <1>1, <1>3 DEF DefaultInv, Salted
<1>5. net.pc \in AccountSteps => net.account \in Accounts
  BY DEF TypeOK, HasItsAccount
<1>6. \A a \in Accounts : a # session /\ Known(a) => Known(a)'
  BY <1>2, <1>3 DEF Known
<1>7. hashPassword(password[net.account])' = hashPassword(password[net.account])
  BY <1>3 DEF hashPassword
<1>8. OnTheWay'
  <2>1. net.pc = "session" /\ net.op # "login" => Known(net.account)'
    <3> SUFFICES ASSUME net.pc = "session", net.op # "login"
                 PROVE  Known(net.account)'
      OBVIOUS
    <3>1. net.account \in Accounts /\ net.account # session /\ Known(net.account)
      BY <1>5 DEF SessionInv, OnTheWay, AccountSteps
    <3> QED
      BY <1>3, <1>6, <3>1 DEF Known
  <2>2. net.pc = "session" /\ net.op = "login" /\ net.account \in lookup' =>
            Known(net.account)' /\ Covered(keysFile, net.account)'
    <3> SUFFICES ASSUME net.pc = "session", net.op = "login", net.account \in lookup'
                 PROVE  Known(net.account)' /\ Covered(keysFile, net.account)'
      OBVIOUS
    <3>1. net.account \in Accounts /\ net.account \in lookup /\ net.account # session
      BY <1>3, <1>5 DEF AccountSteps
    <3>2. Known(net.account) /\ Covered(keysFile, net.account)
      BY <3>1 DEF SessionInv, OnTheWay
    <3> QED
      BY <1>3, <1>6, <3>1, <3>2 DEF Covered
  <2>3. net.pc = "load" /\ session \in Accounts =>
            Covered(keysFile, session)' /\ keyInfo'[session] = NoInfo
    BY <1>2, <1>3 DEF SessionInv, OnTheWay, Covered
  <2>4. net.pc \in {"loadKey", "loadInfo"} /\ session \in Accounts =>
            Covered(net.contents, session)'
    BY <1>3 DEF SessionInv, OnTheWay, Covered
  <2> QED
    BY <1>3, <1>7, <2>1, <2>2, <2>3, <2>4 DEF SessionInv, OnTheWay
<1> QED
  BY <1>3, <1>4, <1>8 DEF SessionInv, Settled

\* ... and then in the keys file; a task that is about to log another account in still
\* finds its hash in both.
LEMMA PasswordCleared ==
  ASSUME TypeOK, DefaultInv, SessionInv, WriteCleared
  PROVE  DefaultInv' /\ SessionInv'
<1>1. Write(keyInfo) /\ password' = password
  BY DEF WriteCleared, history
<1>2. /\ Salted(keysFile.info, keysFile.default)'
      /\ keysFileKey # NoKey => keysFile'.info = keyInfo /\ keysFile'.default = default
      /\ keysFile' = NoKeysFile => keysFile = NoKeysFile
  BY <1>1, SaltedWrite DEF DefaultInv
<1>3. CASE Restart
  BY <1>2, <1>3, PasswordRestart
<1>4. CASE ~Restart
  <2>1. UNCHANGED <<keys, lookup, keyInfo, cachedPasswords, default, keysFileKey, session, net>>
    BY <1>4 DEF WriteCleared, manager
  <2>2. ui' = "session"
    BY <1>4 DEF WriteCleared
  <2>3. keysFileKey = NoKey => keysFile' = keysFile
    BY <1>1 DEF Write
  <2>4. DefaultInv'
    BY <1>1, <1>2, <2>1, <2>3 DEF DefaultInv, Salted
  <2>5. \A a : Known(a)' <=> Known(a)
    BY <2>1 DEF Known
  <2>6. ASSUME NEW a, Covered(keysFile, a), keyInfo[a] = NoInfo \/ Known(a)
        PROVE  Covered(keysFile, a)'
    <3>1. CASE keysFileKey = NoKey
      BY <1>1, <2>1, <2>3, <2>6, <3>1 DEF Covered
    <3>2. CASE keysFileKey # NoKey
      BY <1>2, <2>1, <2>6, <3>2 DEF Covered, Known
    <3> QED
      BY <3>1, <3>2
  <2>7. hashPassword(password[net.account])' = hashPassword(password[net.account])
    BY <1>1, <2>1 DEF hashPassword
  <2>8. net.pc \in {"loadKey", "loadInfo"} /\ session \in Accounts =>
            Covered(net.contents, session)'
    BY <1>1, <2>1 DEF SessionInv, OnTheWay, Covered
  <2>9. OnTheWay'
    BY <1>1, <2>1, <2>5, <2>6, <2>7, <2>8 DEF SessionInv, OnTheWay
  <2> QED
    BY <1>1, <2>1, <2>2, <2>4, <2>9 DEF SessionInv, Settled
<1> QED
  BY <1>3, <1>4

\* The UI thread says nothing of an account once signing out has begun with it.
LEMMA PasswordUI ==
  ASSUME TypeOK, PasswordInv,
         \/ ShowForm \/ SwitchForm \/ LeaveForm
         \/ \E p \in Passwords : Submit(p)
         \/ SignOut \/ ClearCache \/ WriteCleared \/ ClearSession \/ PostSignedOut
         \/ OnShow \/ OnAccountBarLogin \/ OnCallback \/ Exit
  PROVE  PasswordInv'
<1> USE AccountsAssumption
<1>1. CASE UNCHANGED <<keys, manager, disk, session, net, password, mishaps>> /\ (Settled' => Settled)
  BY <1>1 DEF PasswordInv, DefaultInv, Salted, SessionInv, OnTheWay, Known, Coming, Covered,
     hashPassword, manager, disk
<1>2. CASE Exit
  <2>1. UNCHANGED <<keysFile, password, mishaps>> /\ Restart
    BY <1>2 DEF Exit, disk, history
  <2> QED
    BY <2>1, PasswordRestart DEF PasswordInv, DefaultInv, Salted
<1>3. CASE SignOut
  <2>1. mishaps \subseteq mishaps'
    BY <1>3 DEF SignOut
  <2> QED
    BY <1>3, <2>1, PasswordSignOut DEF PasswordInv
<1>4. CASE WriteCleared
  BY <1>4, PasswordCleared DEF PasswordInv, WriteCleared, history
<1>5. CASE ClearSession
  <2>1. /\ UNCHANGED <<keys, manager, disk, net, password, mishaps>> /\ session' = None
        /\ None \notin Accounts
    BY <1>5 DEF ClearSession, store, history
  <2>2. net.pc \in AccountSteps => net.account \in Accounts
    BY DEF TypeOK, HasItsAccount
  <2>3. net.pc \in {"save", "session"} => net.account # None
    BY <2>1, <2>2 DEF AccountSteps
  <2> QED
    BY <2>1, <2>3 DEF PasswordInv, DefaultInv, Salted, SessionInv, OnTheWay, Known, Covered,
       hashPassword, manager, disk
<1>6. CASE ClearCache
  BY <1>1, <1>6 DEF ClearCache, Settled, history
<1>7. CASE PostSignedOut
  BY <1>1, <1>7 DEF PostSignedOut, Settled, store, history
<1> QED
  BY <1>1, <1>2, <1>3, <1>4, <1>5, <1>6, <1>7 DEF ShowForm, SwitchForm, LeaveForm, Submit, OnShow,
     OnAccountBarLogin, OnCallback, uiOnly, store, history, Settled

\* A login caches the hash under every salt its account's info can have: the
\* default of the process when it imports the key, that of the file when it loads
\* it, and write() brings the file up to date in between.
LEMMA PasswordNet ==
  ASSUME TypeOK, TypedInv, KeysFileInv, PasswordInv,
         \/ TakeTask
         \/ FindAccount \/ ImportExisting \/ SetSession
         \/ ReadKeysFile \/ StoreKey \/ ReadInfos \/ SetMaster \/ CacheMaster
         \/ MakeKey \/ SaveOpen \/ SaveWrite \/ ImportInfo \/ CreateSalt \/ CreateKeysFile
         \/ Reply,
         "cachedLogin" \notin mishaps'
  PROVE  DefaultInv' /\ SessionInv'
<1> USE AccountsAssumption
<1>0. net \in NetStates /\ (net.pc \in AccountSteps => net.account \in Accounts)
  BY DEF TypeOK, HasItsAccount
<1>i. DefaultInv /\ SessionInv
  <2>1. mishaps \subseteq mishaps'
    BY DEF TakeTask, FindAccount, ImportExisting, SetSession, ReadKeysFile, StoreKey, ReadInfos,
       SetMaster, CacheMaster, MakeKey, SaveOpen, SaveWrite, ImportInfo, CreateSalt,
       CreateKeysFile, Reply, history
  <2> QED
    BY <2>1 DEF PasswordInv
\* A step that changes no info and no default password, ...
<1>a. ASSUME UNCHANGED <<keyInfo, keysFile, default, keysFileKey, password>>,
             net.pc # "createKeys",
             net'.pc \notin {"createKeys", "session", "load", "loadKey", "loadInfo"},
             net'.contents \in {net.contents, NoKeysFile}
      PROVE  DefaultInv'
  <2>1. Salted(net.contents.info, net.contents.default)'
    BY <1>a, <1>i DEF DefaultInv, Salted, NoKeysFile
  <2> QED
    BY <1>a, <1>i, <2>1 DEF DefaultInv, Salted
\* ... and one that forgets nothing of the account that is logged in.
<1>b. ASSUME UNCHANGED <<keyInfo, session, ui, password>>, lookup \subseteq lookup',
             cachedPasswords \subseteq cachedPasswords',
             net.pc \notin {"loadMaster", "loadCache"},
             net'.pc \notin {"find", "make", "import", "save", "session", "load", "loadKey",
                             "loadInfo"}
      PROVE  SessionInv'
  BY <1>b, <1>i DEF SessionInv, OnTheWay, Known, Coming, Settled
<1>1. CASE TakeTask
  <2>1. /\ UNCHANGED <<keyInfo, keysFile, default, keysFileKey, password, session, lookup,
                       cachedPasswords, ui>>
        /\ net.pc = "idle" /\ net'.contents = NoKeysFile
        /\ \/ net'.pc = "find" /\ net'.op = "login"
           \/ net'.pc = "make" /\ net'.op # "login"
    BY <1>1 DEF TakeTask, NetIdle, manager, disk
  <2>2. SessionInv'
    BY <1>i, <2>1 DEF SessionInv, OnTheWay, Known, Coming, Settled
  <2> QED
    BY <1>a, <2>1, <2>2
<1>2. CASE FindAccount
  <2>1. /\ UNCHANGED <<keyInfo, keysFile, default, keysFileKey, password, session, lookup,
                       cachedPasswords, keys, ui>>
        /\ net.pc = "find" /\ net.op = "login"
    BY <1>2, <1>i DEF FindAccount, SessionInv, OnTheWay, manager, disk, netOnly
  <2>2. CASE net' = [net EXCEPT !.pc = "reply"]
    <3>1. net'.pc = "reply" /\ net'.contents = net.contents
      BY <1>0, <2>2 DEF NetStates
    <3> QED
      BY <1>a, <1>b, <2>1, <3>1
  <2>3. ASSUME NEW b \in keys, Decrypts(b), b \notin cached,
               net' = [net EXCEPT !.pc = "import", !.account = b]
        PROVE  DefaultInv' /\ SessionInv'
    <3>1. /\ net'.pc = "import" /\ net'.account = b /\ net'.op = net.op
          /\ net'.password = net.password /\ net'.contents = net.contents
      BY <1>0, <2>3 DEF NetStates
    <3>2. password[b] = net.password
      BY <2>3 DEF Decrypts
    <3>3. SessionInv'
      BY <1>i, <2>1, <2>3, <3>1, <3>2 DEF SessionInv, OnTheWay, Known, Coming, Settled
    <3> QED
      BY <1>a, <2>1, <3>1, <3>3
  <2> QED
    BY <1>2, <2>2, <2>3 DEF FindAccount
<1>3. CASE ImportExisting
  <2> DEFINE a    == net.account
             hash == hashPassword(net.password)
             info == [keyInfo EXCEPT ![a] = [hash |-> hash, name |-> "empty"]]
  <2>1. /\ net.pc = "import" /\ a \in keys /\ a \in Accounts
        /\ password[a] = net.password /\ net.op = "login"
    BY <1>0, <1>3, <1>i DEF ImportExisting, SessionInv, OnTheWay, AccountSteps
  <2>2. Decrypts(a) /\ password[a] \in Passwords
    BY <2>1 DEF Decrypts, TypedInv
  <2>3. /\ info[a].hash = hash /\ info[a] # NoInfo
        /\ \A b \in Accounts : b # a => info[b] = keyInfo[b]
    <3>1. info[a] = [hash |-> hash, name |-> "empty"]
      BY <2>1 DEF TypeOK
    <3> QED
      BY <3>1 DEF NoInfo, TypeOK
  <2>4. hash = <<password[a], default>>
    BY <2>1 DEF hashPassword
  <2> HIDE DEF info, hash
  <2>5. Salted(info, default)
    BY <1>i, <2>2, <2>3, <2>4 DEF DefaultInv, Salted
  <2>6. Write(info) /\ password' = password
    BY <1>3, <2>2 DEF ImportExisting, info, hash, history
  <2>7. /\ Salted(keysFile.info, keysFile.default)'
        /\ keysFileKey # NoKey => keysFile'.info = info /\ keysFile'.default = default
        /\ keysFile' = NoKeysFile => keysFile = NoKeysFile
    BY <1>i, <2>5, <2>6, SaltedWrite
  <2>8. CASE Restart
    BY <2>7, <2>8, PasswordRestart
  <2>9. CASE ~Restart
    <3>1. /\ keyInfo' = info /\ lookup' = lookup \cup {a}
          /\ cachedPasswords' = cachedPasswords \cup {hash}
          /\ UNCHANGED <<default, keysFileKey, session, ui>>
          /\ net' = [net EXCEPT !.pc = "session"]
      BY <1>3, <2>2, <2>9 DEF ImportExisting, info, hash, netOnly
    <3>2. /\ net'.pc = "session" /\ net'.account = a /\ net'.op = net.op
          /\ net'.password = net.password /\ net'.contents = net.contents
      BY <1>0, <3>1 DEF NetStates
    <3>3. DefaultInv'
      BY <1>i, <2>1, <2>5, <2>6, <2>7, <3>1, <3>2 DEF DefaultInv, Salted
    <3>4. Known(a)'
      BY <2>3, <3>1 DEF Known
    <3>5. session' \in Accounts /\ Settled' => Known(session)'
      BY <1>i, <2>1, <2>3, <3>1, <3>4 DEF SessionInv, Known, Coming, Settled
    <3>6. Covered(keysFile, a)'
      <4>1. CASE keysFileKey = NoKey
        <5>1. default = None /\ keysFile' = keysFile
          BY <1>i, <2>1, <2>6, <4>1 DEF DefaultInv, Write
        <5>2. keysFile.info[a] # NoInfo =>
                  keysFile.info[a].hash \in {hash, <<password[a], keysFile.default>>}
          BY <1>i, <2>1, <2>4, <5>1 DEF DefaultInv, Salted
        <5> QED
          BY <2>6, <3>1, <5>1, <5>2 DEF Covered
      <4>2. CASE keysFileKey # NoKey
        <5>1. keysFile'.info[a].hash = hash
          BY <2>3, <2>6, <4>2 DEF Write
        <5> QED
          BY <3>1, <5>1 DEF Covered
      <4> QED
        BY <4>1, <4>2
    <3>7. OnTheWay'
      BY <2>1, <2>6, <3>2, <3>4, <3>6 DEF OnTheWay
    <3> QED
      BY <1>i, <2>6, <3>1, <3>3, <3>5, <3>7 DEF SessionInv
  <2> QED
    BY <2>8, <2>9
<1>4. CASE SetSession
  <2>1. /\ net.pc = "session" /\ net.account \in Accounts
        /\ net'.pc = IF net.op = "login" THEN "load" ELSE "create"
        /\ net'.account = net.account /\ net'.op = net.op /\ net'.password = net.password
        /\ net'.contents = net.contents
        /\ session' = IF net.op = "login" /\ net.account \notin lookup THEN ZeroAddress
                      ELSE net.account
    BY <1>0, <1>4 DEF SetSession, NetStates, AccountSteps
  <2>2. UNCHANGED <<keyInfo, keysFile, default, keysFileKey, password, lookup, cachedPasswords>>
    BY <1>4 DEF SetSession, manager, disk, history
  <2>3. session' \in Accounts =>
            /\ session' = net.account /\ Known(net.account)'
            /\ net.op = "login" => Covered(keysFile, net.account)'
    BY <1>i, <2>1, <2>2 DEF SessionInv, OnTheWay, Known, Covered
  <2>4. net.op = "login" => password[net.account] = net.password
    BY <1>i, <2>1 DEF SessionInv, OnTheWay
  <2>5. OnTheWay'
    BY <2>1, <2>2, <2>3, <2>4 DEF OnTheWay
  <2>6. session' \in Accounts => password'[session'] \in Passwords
    BY <1>i, <2>1, <2>2, <2>3 DEF DefaultInv, Salted, Known
  <2>7. DefaultInv'
    BY <1>i, <2>1, <2>2 DEF DefaultInv, Salted
  <2> QED
    BY <2>1, <2>3, <2>5, <2>6, <2>7 DEF SessionInv, Known
<1>5. CASE ReadKeysFile
  <2>1. /\ net.pc = "load"
        /\ UNCHANGED <<keyInfo, keysFile, default, keysFileKey, password, session, lookup,
                       cachedPasswords, ui>>
    BY <1>5 DEF ReadKeysFile, manager, disk, history, netOnly
  <2>2. CASE keysFile = NoKeysFile
    <3>1. net'.pc = "reply" /\ net'.contents = net.contents
      BY <1>0, <1>5, <2>2 DEF ReadKeysFile, NetStates
    <3> QED
      BY <1>a, <1>b, <2>1, <3>1
  <2>3. CASE keysFile # NoKeysFile
    <3>1. /\ net'.pc = "loadKey" /\ net'.contents = keysFile
          /\ net'.account = net.account /\ net'.password = net.password
      BY <1>0, <1>5, <2>3 DEF ReadKeysFile, NetStates
    <3>2. DefaultInv'
      BY <1>i, <2>1, <2>3, <3>1 DEF DefaultInv, Salted
    <3>3. session \in Accounts => session = net.account /\ Covered(net.contents, session)'
      BY <1>i, <2>1, <3>1 DEF SessionInv, OnTheWay, Covered
    <3>4. OnTheWay'
      BY <1>i, <2>1, <3>1, <3>3 DEF SessionInv, OnTheWay
    <3> QED
      BY <1>i, <2>1, <3>1, <3>2, <3>4 DEF SessionInv, Known, Coming, Settled
  <2> QED
    BY <2>2, <2>3
<1>13. CASE StoreKey
  <2>1. /\ net.pc = "loadKey" /\ keysFileKey' = <<net.password, salt>>
        /\ UNCHANGED <<keyInfo, keysFile, default, password, session, lookup, cachedPasswords, ui>>
    BY <1>13 DEF StoreKey, disk, history, netOnly
  <2>2. /\ net'.pc = "loadInfo" /\ net'.contents = net.contents
        /\ net'.account = net.account /\ net'.password = net.password
    BY <1>0, <1>13 DEF StoreKey, NetStates
  <2>3. keysFileKey' # NoKey
    BY <2>1 DEF NoKey, TypedInv
  <2>4. DefaultInv'
    BY <1>i, <2>1, <2>2, <2>3 DEF DefaultInv, Salted
  <2>5. OnTheWay'
    BY <1>i, <2>1, <2>2 DEF SessionInv, OnTheWay, Covered
  <2> QED
    BY <1>i, <2>1, <2>2, <2>4, <2>5 DEF SessionInv, Known, Coming, Settled
<1>14. CASE ReadInfos
  <2> DEFINE contents == net.contents
             right == contents.key = <<net.password, salt>>
             known == IF right THEN {a \in keys : contents.info[a] # NoInfo} ELSE {}
  <2>1. /\ net.pc = "loadInfo" /\ lookup' = lookup \cup known
        /\ keyInfo' = [a \in Accounts |-> IF a \in known THEN contents.info[a] ELSE keyInfo[a]]
        /\ default' = IF right THEN contents.default ELSE default
        /\ UNCHANGED <<keysFile, keysFileKey, password, session, cachedPasswords, ui>>
    BY <1>14 DEF ReadInfos, disk, history, netOnly
  <2>2. /\ net'.pc \in {"loadMaster", "reply"} /\ net'.contents = NoKeysFile
        /\ right => net'.pc = "loadMaster"
        /\ net'.password = net.password
    BY <1>0, <1>14 DEF ReadInfos, NetStates
  <2>3. \A a \in known : right /\ contents.info[a] # NoInfo
    OBVIOUS
  <2>4. \A a \in Accounts : keyInfo'[a] = IF a \in known THEN contents.info[a] ELSE keyInfo[a]
    BY <2>1
  <2>5. contents = net.contents
    OBVIOUS
  <2> HIDE DEF contents, right, known
  <2>6. default \in {None, contents.default} /\ keysFileKey # NoKey
    BY <1>i, <2>1, <2>5 DEF DefaultInv
  <2>7. Salted(keyInfo, default)'
    <3> SUFFICES ASSUME NEW a \in Accounts, keyInfo'[a] # NoInfo
                 PROVE  /\ password[a] \in Passwords
                        /\ keyInfo'[a].hash \in {<<password[a], None>>, <<password[a], default'>>}
      BY <2>1 DEF Salted
    <3>1. CASE a \in known
      BY <1>i, <2>1, <2>3, <2>4, <2>5, <3>1 DEF DefaultInv, Salted
    <3>2. CASE a \notin known
      BY <1>i, <2>1, <2>4, <2>6, <3>2 DEF DefaultInv, Salted
    <3> QED
      BY <3>1, <3>2
  <2>8. DefaultInv'
    <3>1. Salted(net.contents.info, net.contents.default)'
      BY <2>2 DEF Salted, NoKeysFile
    <3>2. keysFile # NoKeysFile
      BY <2>1, <2>6 DEF KeysFileInv
    <3> QED
      BY <1>i, <2>1, <2>2, <2>6, <2>7, <3>1, <3>2 DEF DefaultInv, Salted
  <2>9. session \in Accounts /\ Settled => Known(session)' \/ Coming(session)'
    <3> SUFFICES ASSUME session \in Accounts, Settled
                 PROVE  Known(session)' \/ Coming(session)'
      OBVIOUS
    <3>1. /\ session = net.account /\ password[session] = net.password
          /\ Covered(contents, session) /\ Known(session)
      BY <1>i, <2>1, <2>5 DEF SessionInv, OnTheWay, Coming
    <3>2. CASE session \in known
      <4>1. keyInfo'[session] = contents.info[session] /\ contents.info[session] # NoInfo /\ right
        BY <2>3, <2>4, <3>2
      <4>2. keyInfo'[session].hash \in cachedPasswords' \cup {<<net.password, default'>>}
        BY <2>1, <3>1, <4>1 DEF Covered
      <4>3. session \in lookup' /\ net'.pc = "loadMaster"
        BY <2>1, <2>2, <3>2, <4>1
      <4>4. hashPassword(net.password)' = <<net.password, default'>>
        BY <2>2 DEF hashPassword
      <4> QED
        BY <2>1, <4>1, <4>2, <4>3, <4>4 DEF Known, Coming
    <3>3. CASE session \notin known
      BY <2>1, <2>4, <3>1, <3>3 DEF Known
    <3> QED
      BY <3>2, <3>3
  <2>10. OnTheWay'
    BY <2>2 DEF OnTheWay
  <2> QED
    BY <1>i, <2>1, <2>8, <2>9, <2>10 DEF SessionInv, Settled
<1>15. CASE SetMaster
  <2>1. /\ net.pc = "loadMaster"
        /\ UNCHANGED <<keyInfo, keysFile, default, keysFileKey, password, session, lookup,
                       cachedPasswords, ui>>
    BY <1>15 DEF SetMaster, disk, history, netOnly
  <2>2. net'.pc = "loadCache" /\ net'.contents = net.contents /\ net'.password = net.password
    BY <1>0, <1>15 DEF SetMaster, NetStates
  <2>3. SessionInv'
    BY <1>i, <2>1, <2>2 DEF SessionInv, OnTheWay, Known, Coming, Settled, hashPassword
  <2> QED
    BY <1>a, <2>1, <2>2, <2>3
<1>16. CASE CacheMaster
  <2>1. /\ net.pc = "loadCache"
        /\ cachedPasswords' = cachedPasswords \cup {hashPassword(net.password)}
        /\ UNCHANGED <<keyInfo, keysFile, default, keysFileKey, password, session, lookup, ui>>
    BY <1>16 DEF CacheMaster, disk, history, netOnly
  <2>2. net'.pc = "reply" /\ net'.contents = net.contents
    BY <1>0, <1>16 DEF CacheMaster, NetStates
  <2>3. SessionInv'
    BY <1>i, <2>1, <2>2 DEF SessionInv, OnTheWay, Known, Coming, Settled
  <2> QED
    BY <1>a, <2>1, <2>2, <2>3
<1>6. CASE MakeKey
  <2>1. PICK a \in Accounts :
            /\ password[a] = None
            /\ password' = [password EXCEPT ![a] = net.password]
            /\ cachedPasswords' = cachedPasswords \cup {hashPassword(net.password)}
            /\ net' = [net EXCEPT !.pc = "save", !.account = a, !.left = keys \cup {a},
                                  !.hash = hashPassword(net.password)]
    BY <1>6 DEF MakeKey
  <2>2. /\ net.pc = "make" /\ net.op # "login" /\ net.password \in Passwords
        /\ UNCHANGED <<keyInfo, keysFile, default, keysFileKey, session, lookup, ui>>
    BY <1>6, <1>i DEF MakeKey, TypedInv, SessionInv, OnTheWay, disk, netOnly
  <2>3. /\ net'.pc = "save" /\ net'.account = a /\ net'.op = net.op
        /\ net'.hash = hashPassword(net.password) /\ net'.contents = net.contents
    BY <1>0, <2>1 DEF NetStates
  <2>4. /\ password'[a] = net.password
        /\ \A b \in Accounts : b # a => password'[b] = password[b]
    BY <2>1 DEF TypeOK
  <2>6. DefaultInv'
    <3>1. Salted(keyInfo, default)'
      BY <1>i, <2>1, <2>2, <2>4 DEF DefaultInv, Salted
    <3>2. Salted(keysFile.info, keysFile.default)'
      BY <1>i, <2>1, <2>2, <2>4 DEF DefaultInv, Salted
    <3>3. Salted(net.contents.info, net.contents.default)'
      BY <1>i, <2>1, <2>3, <2>4 DEF DefaultInv, Salted
    <3> QED
      BY <1>i, <2>2, <2>3, <3>1, <3>2, <3>3 DEF DefaultInv
  <2>7. session' \in Accounts /\ Settled' => Known(session)'
    BY <1>i, <2>1, <2>2 DEF SessionInv, Known, Coming, Settled
  <2>8. session' # a /\ (session' \in Accounts => password'[session'] \in Passwords)
    BY <1>i, <2>1, <2>2, <2>4 DEF SessionInv
  <2>9. hashPassword(password[a])' = hashPassword(net.password)
    BY <2>2, <2>4 DEF hashPassword
  <2>10. OnTheWay'
    BY <2>1, <2>2, <2>3, <2>4, <2>8, <2>9 DEF OnTheWay
  <2> QED
    BY <2>6, <2>7, <2>8, <2>10 DEF SessionInv
\* Writing the key files.
<1>7. ASSUME SaveOpen \/ SaveWrite
      PROVE  DefaultInv' /\ SessionInv'
  <2>1. /\ net.pc = "save" /\ net'.pc = "save" /\ net'.account = net.account /\ net'.op = net.op
        /\ net'.hash = net.hash /\ net'.contents = net.contents
    BY <1>0, <1>7 DEF SaveOpen, SaveWrite, NetStates
  <2>2. UNCHANGED <<keyInfo, keysFile, default, keysFileKey, password, session, lookup,
                    cachedPasswords, ui>>
    BY <1>7 DEF SaveOpen, SaveWrite, manager, disk, history, netOnly
  <2>3. SessionInv'
    BY <1>i, <2>1, <2>2 DEF SessionInv, OnTheWay, Known, Coming, Settled, hashPassword
  <2> QED
    BY <1>a, <2>1, <2>2, <2>3
<1>9. CASE ImportInfo
  <2> DEFINE a    == net.account
             info == [keyInfo EXCEPT ![a] = [hash |-> net.hash, name |-> "given"]]
  <2>1. /\ net.pc = "save" /\ a \in Accounts /\ net.op # "login"
        /\ password[a] \in Passwords /\ a # session
        /\ net.hash = <<password[a], default>> /\ net.hash \in cachedPasswords
    BY <1>0, <1>9, <1>i DEF ImportInfo, SessionInv, OnTheWay, AccountSteps, hashPassword
  <2>2. /\ info[a].hash = net.hash /\ info[a] # NoInfo
        /\ \A b \in Accounts : b # a => info[b] = keyInfo[b]
    <3>1. info[a] = [hash |-> net.hash, name |-> "given"]
      BY <2>1 DEF TypeOK
    <3> QED
      BY <3>1 DEF NoInfo, TypeOK
  <2> HIDE DEF info
  <2>3. Salted(info, default)
    BY <1>i, <2>1, <2>2 DEF DefaultInv, Salted
  <2>4. Write(info) /\ password' = password
    BY <1>9 DEF ImportInfo, info, history
  <2>5. /\ Salted(keysFile.info, keysFile.default)'
        /\ keysFile' = NoKeysFile => keysFile = NoKeysFile
    BY <1>i, <2>3, <2>4, SaltedWrite
  <2>6. CASE Restart
    BY <2>5, <2>6, PasswordRestart
  <2>7. CASE ~Restart
    <3>1. /\ keyInfo' = info /\ lookup' = lookup \cup {a}
          /\ UNCHANGED <<cachedPasswords, default, keysFileKey, session, ui>>
          /\ net' = [net EXCEPT !.pc = "session"]
      BY <1>9, <2>7 DEF ImportInfo, info, netOnly
    <3>2. /\ net'.pc = "session" /\ net'.account = a /\ net'.op = net.op
          /\ net'.contents = net.contents
      BY <1>0, <3>1 DEF NetStates
    <3>3. DefaultInv'
      BY <1>i, <2>1, <2>3, <2>4, <2>5, <3>1, <3>2 DEF DefaultInv, Salted
    <3>4. Known(a)'
      BY <2>1, <2>2, <3>1 DEF Known
    <3>5. session' \in Accounts /\ Settled' => Known(session)'
      BY <1>i, <2>1, <2>2, <3>1 DEF SessionInv, Known, Coming, Settled
    <3>6. OnTheWay'
      BY <2>1, <3>1, <3>2, <3>4 DEF OnTheWay
    <3> QED
      BY <1>i, <2>4, <3>1, <3>3, <3>5, <3>6 DEF SessionInv
  <2> QED
    BY <2>6, <2>7
<1>10. CASE CreateSalt
  <2>1. /\ net.pc = "create"
        /\ UNCHANGED <<keyInfo, session, lookup, keysFile, keysFileKey, password, ui>>
        /\ cachedPasswords \subseteq cachedPasswords'
        /\ net'.pc = IF exists THEN "reply" ELSE "createKeys"
        /\ net'.contents = net.contents
    BY <1>0, <1>10 DEF CreateSalt, NetStates, history, netOnly
  <2>2. SessionInv'
    BY <1>b, <2>1
  <2>3. CASE exists
    BY <1>10, <1>a, <2>1, <2>2, <2>3 DEF CreateSalt
  <2>4. CASE ~exists
    <3>1. keysFile = NoKeysFile /\ default = None
      BY <1>i, <2>1, <2>4 DEF exists, KeysFileInv, DefaultInv
    <3>2. DefaultInv'
      BY <1>i, <2>1, <2>4, <3>1 DEF DefaultInv, Salted
    <3> QED
      BY <2>2, <3>2
  <2> QED
    BY <2>3, <2>4
<1>11. CASE CreateKeysFile
  <2>1. /\ net.pc = "createKeys" /\ net'.pc = "reply"
        /\ UNCHANGED <<keyInfo, session, lookup, default, cachedPasswords, password, ui>>
        /\ net'.contents = net.contents
        /\ keysFileKey' = <<net.password, salt>>
        /\ keysFile'.key = <<net.password, salt>>
        /\ keysFile'.info = keyInfo /\ keysFile'.default = default
    BY <1>0, <1>11 DEF CreateKeysFile, NetStates, history, netOnly
  <2>2. <<net.password, salt>> # NoKey
    BY <2>1 DEF NoKey, TypedInv
  <2>3. keysFile' # NoKeysFile
    BY <2>1, <2>2 DEF NoKeysFile
  <2>4. DefaultInv'
    BY <1>i, <2>1, <2>2, <2>3 DEF DefaultInv, Salted
  <2> QED
    BY <1>b, <2>1, <2>4
<1>12. CASE Reply
  <2>1. /\ net'.pc = "idle" /\ net.pc = "reply" /\ net'.contents = NoKeysFile
        /\ UNCHANGED <<keyInfo, keysFile, default, keysFileKey, password, session, lookup,
                       cachedPasswords, ui>>
    BY <1>12 DEF Reply, NetIdle, manager, disk
  <2> QED
    BY <1>a, <1>b, <2>1
<1> QED
  BY <1>1, <1>2, <1>3, <1>4, <1>5, <1>6, <1>7, <1>9, <1>10, <1>11, <1>12, <1>13, <1>14, <1>15,
     <1>16

(* For the account that is logged in, getPassword finds the password its    *)
(* key is encrypted with when no task runs, unless a login found a key      *)
(* there decrypted: whatever was written, loaded, cleared and created       *)
(* before, its hash is in the cache under the salt that it has in memory.   *)
THEOREM PasswordIsAvailable == Spec => []PasswordAvailable
<1>1. TypeOK /\ TypedInv /\ KeysFileInv /\ PasswordInv /\ [Next]_vars => PasswordInv'
  <2>1. TypeOK /\ TypedInv /\ KeysFileInv /\ PasswordInv /\ Next => PasswordInv'
    BY PasswordUI, PasswordNet DEF Next, PasswordInv
  <2>2. PasswordInv /\ UNCHANGED vars => PasswordInv'
    <3>1. DefaultInv /\ UNCHANGED vars => DefaultInv'
      BY DEF vars, DefaultInv, Salted, hashPassword, store, manager, disk, history
    <3>2. SessionInv /\ UNCHANGED vars => SessionInv'
      BY DEF vars, SessionInv, Salted, OnTheWay, Known, Coming, Covered, Settled, hashPassword,
         store, manager, disk, history
    <3> QED
      BY <3>1, <3>2 DEF PasswordInv, vars, history
  <2> QED
    BY <2>1, <2>2
<1>2. PasswordInv => PasswordAvailable
  <2> SUFFICES ASSUME DefaultInv, SessionInv, session \in Accounts, net.pc = "idle", ui = "idle"
               PROVE  getPassword(session) = password[session]
    BY DEF PasswordInv, PasswordAvailable
  <2>1. Known(session)
    BY DEF SessionInv, Settled, Coming
  <2>2. keyInfo[session].hash[1] = password[session]
    BY <2>1 DEF Known, DefaultInv, Salted
  <2> QED
    BY <2>1, <2>2 DEF Known, getPassword
<1> QED
  BY <1>1, <1>2, PasswordInit, TypedAlways, KeysFileInvAlways, TypeCorrect, PTL DEF Spec
-----------------------------------------------------------------------------
(* What SignIn says of logging in and out.                                  *)

\* Numbers that are all one less than others are as many.
LEMMA ShiftCount ==
  ASSUME NEW S \in SUBSET Nat, IsFiniteSet(S), NEW T \in SUBSET Nat,
         \A i \in S : i - 1 \in T, \A j \in T : j + 1 \in S
  PROVE  IsFiniteSet(T) /\ Cardinality(T) = Cardinality(S)
<1> DEFINE f == [i \in S |-> i - 1]
<1>1. f \in [S -> T] /\ \A i \in S : f[i] = i - 1
  OBVIOUS
<1>2. \A a, b \in S : f[a] = f[b] => a = b
  OBVIOUS
<1>3. \A j \in T : \E i \in S : f[i] = j
  <2> SUFFICES ASSUME NEW j \in T PROVE \E i \in S : f[i] = j
    OBVIOUS
  <2>1. j + 1 \in S /\ f[j + 1] = j
    OBVIOUS
  <2> QED
    BY <2>1
<1> HIDE DEF f
<1>4. DOMAIN f = S
  BY <1>1
<1>5. f \in Bijection(S, T)
  BY <1>1, <1>2, <1>3, <1>4 DEF Bijection, Injection, Surjection, IsInjective
<1>6. ExistsBijection(S, T)
  BY <1>5 DEF ExistsBijection
<1> QED
  BY <1>6, FS_Bijection

\* The messages of a queue can be counted.
LEMMA PostedFinite ==
  ASSUME NEW q \in Seq(Messages), NEW c
  PROVE  /\ Posted(c, q) \in SUBSET Nat /\ IsFiniteSet(Posted(c, q))
         /\ Cardinality(Posted(c, q)) \in Nat
<1>1. DOMAIN q = 1 .. Len(q) /\ Len(q) \in Nat
  OBVIOUS
<1>2. IsFiniteSet(1 .. Len(q))
  BY <1>1, FS_Interval
<1>3. Posted(c, q) \in SUBSET (1 .. Len(q))
  BY <1>1 DEF Posted
<1>4. IsFiniteSet(Posted(c, q))
  BY <1>2, <1>3, FS_Subset
<1> QED
  BY <1>3, <1>4, FS_CardinalityType

\* Posting a message adds it.
LEMMA PostedAppend ==
  ASSUME NEW q \in Seq(Messages), NEW m \in Messages, NEW c
  PROVE  /\ Posted(c, Append(q, m)) = IF m.msg = c THEN Posted(c, q) \cup {Len(q) + 1}
                                      ELSE Posted(c, q)
         /\ Cardinality(Posted(c, Append(q, m))) =
               IF m.msg = c THEN Cardinality(Posted(c, q)) + 1 ELSE Cardinality(Posted(c, q))
<1> DEFINE r == Append(q, m)
           n == Len(q) + 1
<1>1. /\ DOMAIN r = 1 .. n /\ DOMAIN q = 1 .. Len(q)
      /\ r[n] = m /\ \A i \in 1 .. Len(q) : r[i] = q[i]
  OBVIOUS
<1>2. /\ n \in 1 .. n /\ n \notin 1 .. Len(q)
      /\ \A i \in 1 .. n : i = n \/ i \in 1 .. Len(q)
      /\ \A i \in 1 .. Len(q) : i \in 1 .. n
  OBVIOUS
<1> HIDE DEF r, n
<1>3. Posted(c, r) = IF m.msg = c THEN Posted(c, q) \cup {n} ELSE Posted(c, q)
  BY <1>1, <1>2 DEF Posted
<1>4. n \notin Posted(c, q)
  BY <1>1, <1>2 DEF Posted
<1>5. Cardinality(Posted(c, q) \cup {n}) = Cardinality(Posted(c, q)) + 1
  BY <1>4, PostedFinite, FS_AddElement
<1> QED
  BY <1>3, <1>5 DEF r, n

\* Serving the first one takes it away and moves the others.
LEMMA PostedTail ==
  ASSUME NEW q \in Seq(Messages), q # <<>>, NEW c
  PROVE  /\ \A i \in Posted(c, q) : i # 1 => i - 1 \in Posted(c, Tail(q)) /\ Tail(q)[i - 1] = q[i]
         /\ \A j \in Posted(c, Tail(q)) : j + 1 \in Posted(c, q) /\ j + 1 # 1
         /\ 1 \in Posted(c, q) <=> Head(q).msg = c
         /\ Cardinality(Posted(c, Tail(q))) =
               IF Head(q).msg = c THEN Cardinality(Posted(c, q)) - 1 ELSE Cardinality(Posted(c, q))
<1> DEFINE r == Tail(q)
<1>1. /\ r \in Seq(Messages)
      /\ DOMAIN r = 1 .. Len(q) - 1 /\ DOMAIN q = 1 .. Len(q) /\ 1 \in 1 .. Len(q)
      /\ Head(q) = q[1]
      /\ \A i \in 1 .. Len(q) - 1 : r[i] = q[i + 1]
  OBVIOUS
<1>2. \A i \in 1 .. Len(q) : i # 1 => i - 1 \in 1 .. Len(q) - 1 /\ (i - 1) + 1 = i
  OBVIOUS
<1>3. \A i \in 1 .. Len(q) - 1 : i + 1 \in 1 .. Len(q) /\ (i + 1) - 1 = i /\ i + 1 # 1
  OBVIOUS
<1> HIDE DEF r
<1>4. ASSUME NEW i \in Posted(c, q), i # 1 PROVE i - 1 \in Posted(c, r) /\ r[i - 1] = q[i]
  <2>1. i \in 1 .. Len(q) /\ q[i].msg = c
    BY <1>1 DEF Posted
  <2>2. i - 1 \in 1 .. Len(q) - 1 /\ r[i - 1] = q[i]
    BY <1>1, <1>2, <1>4, <2>1
  <2> QED
    BY <1>1, <2>1, <2>2 DEF Posted
<1>5. ASSUME NEW j \in Posted(c, r) PROVE j + 1 \in Posted(c, q) /\ j + 1 # 1
  <2>1. j \in 1 .. Len(q) - 1 /\ r[j].msg = c
    BY <1>1 DEF Posted
  <2>2. j + 1 \in 1 .. Len(q) /\ q[j + 1].msg = c /\ j + 1 # 1
    BY <1>1, <1>3, <2>1
  <2> QED
    BY <1>1, <2>2 DEF Posted
<1>6. 1 \in Posted(c, q) <=> Head(q).msg = c
  BY <1>1 DEF Posted
<1> DEFINE S == Posted(c, q) \ {1}
<1>7. /\ Posted(c, q) \in SUBSET Nat /\ IsFiniteSet(Posted(c, q))
      /\ Posted(c, r) \in SUBSET Nat
  BY <1>1, PostedFinite
<1>8. /\ IsFiniteSet(S)
      /\ Cardinality(S) = IF 1 \in Posted(c, q) THEN Cardinality(Posted(c, q)) - 1
                          ELSE Cardinality(Posted(c, q))
  BY <1>7, FS_RemoveElement
<1>9. /\ S \in SUBSET Nat
      /\ \A i \in S : i - 1 \in Posted(c, r)
      /\ \A j \in Posted(c, r) : j + 1 \in S
  BY <1>4, <1>5, <1>7
<1>10. Cardinality(Posted(c, r)) = Cardinality(S)
  <2> HIDE DEF S
  <2> QED
    BY <1>7, <1>8, <1>9, ShiftCount
<1> HIDE DEF S
<1> QED
  BY <1>4, <1>5, <1>6, <1>8, <1>10 DEF r

\* The button is shown or not.
LEMMA ButtonType ==
  ASSUME NEW q, NEW shown \in BOOLEAN
  PROVE  ButtonAfter(q, shown) \in BOOLEAN
  BY DEF ButtonAfter

\* The button after a message is posted: what the message says, or as before.
LEMMA ButtonAppend ==
  ASSUME NEW q \in Seq(Messages), NEW m \in Messages, NEW shown \in BOOLEAN
  PROVE  ButtonAfter(Append(q, m), shown) = IF m.msg = "bar" THEN m.form = "none"
                                            ELSE ButtonAfter(q, shown)
<1> DEFINE r == Append(q, m)
           n == Len(q) + 1
           bars(s) == Posted("bar", s)
<1>1. bars(r) = IF m.msg = "bar" THEN bars(q) \cup {n} ELSE bars(q)
  BY PostedAppend
<1>2. /\ n \in Nat /\ \A i \in bars(q) : i \in Nat /\ i < n /\ r[i] = q[i]
      /\ r[n] = m
  BY DEF Posted
<1>3. ButtonAfter(r, shown) \in BOOLEAN /\ ButtonAfter(q, shown) \in BOOLEAN
  BY ButtonType
<1> HIDE DEF r, n
<1>4. CASE m.msg = "bar"
  <2>1. bars(r) # {} /\ n \in bars(r) /\ \A j \in bars(r) : j <= n
    BY <1>1, <1>2, <1>4
  <2>2. \A i \in bars(r) : (\A j \in bars(r) : j <= i) => i = n
    BY <1>1, <1>2, <1>4, <2>1
  <2> HIDE DEF bars
  <2>3. ButtonAfter(r, shown) <=> \E i \in bars(r) : (\A j \in bars(r) : j <= i) /\ r[i].form = "none"
    BY <2>1 DEF ButtonAfter, bars
  <2>4. ButtonAfter(r, shown) <=> r[n].form = "none"
    BY <2>1, <2>2, <2>3
  <2> QED
    BY <1>2, <1>3, <1>4, <2>4 DEF r
<1>5. CASE m.msg # "bar"
  <2>1. bars(r) = bars(q)
    BY <1>1, <1>5
  <2>2. \A i \in bars(q) : r[i] = q[i]
    BY <1>2
  <2>3. ButtonAfter(r, shown) <=> ButtonAfter(q, shown)
    BY <2>1, <2>2 DEF ButtonAfter
  <2> QED
    BY <1>3, <1>5, <2>3 DEF r
<1> QED
  BY <1>4, <1>5

\* The button after a message is served, if the account bar did what it said.
LEMMA ButtonTail ==
  ASSUME NEW q \in Seq(Messages), q # <<>>, NEW shown \in BOOLEAN, NEW new \in BOOLEAN,
         new = IF Head(q).msg = "bar" THEN Head(q).form = "none" ELSE shown
  PROVE  ButtonAfter(Tail(q), new) = ButtonAfter(q, shown)
<1> DEFINE r == Tail(q)
           bars(s) == Posted("bar", s)
<1>1. /\ \A i \in bars(q) : i # 1 => i - 1 \in bars(r) /\ r[i - 1] = q[i]
      /\ \A j \in bars(r) : j + 1 \in bars(q) /\ j + 1 # 1
      /\ 1 \in bars(q) <=> Head(q).msg = "bar"
  <2>1. /\ \A i \in Posted("bar", q) :
              i # 1 => i - 1 \in Posted("bar", Tail(q)) /\ Tail(q)[i - 1] = q[i]
        /\ \A j \in Posted("bar", Tail(q)) : j + 1 \in Posted("bar", q) /\ j + 1 # 1
        /\ 1 \in Posted("bar", q) <=> Head(q).msg = "bar"
    BY PostedTail, Zenon
  <2> QED
    BY <2>1, Zenon
<1>2. /\ bars(q) \in SUBSET Nat /\ Head(q) = q[1] /\ r \in Seq(Messages)
  BY PostedFinite
<1>3. /\ bars(r) \in SUBSET Nat
      /\ ButtonAfter(r, new) \in BOOLEAN /\ ButtonAfter(q, shown) \in BOOLEAN
  BY <1>2, PostedFinite, ButtonType
<1> HIDE DEF r
<1>4. \A i \in bars(q) : i >= 1
  BY DEF Posted
<1>5. CASE bars(r) = {}
  <2>1. \A i \in bars(q) : i = 1
    BY <1>1, <1>5
  <2>2. CASE Head(q).msg = "bar"
    <3>1. bars(q) = {1}
      BY <1>1, <2>1, <2>2
    <3>2. ButtonAfter(q, shown) <=> q[1].form = "none"
      BY <3>1 DEF ButtonAfter
    <3>3. ButtonAfter(r, new) <=> new
      BY <1>5 DEF ButtonAfter
    <3> QED
      BY <1>2, <1>3, <2>2, <3>2, <3>3 DEF r
  <2>3. CASE Head(q).msg # "bar"
    <3>1. bars(q) = {}
      BY <1>1, <2>1, <2>3
    <3>2. ButtonAfter(q, shown) = shown /\ ButtonAfter(r, new) = new
      BY <1>5, <3>1 DEF ButtonAfter
    <3> QED
      BY <2>3, <3>2 DEF r
  <2> QED
    BY <2>2, <2>3
<1>6. CASE bars(r) # {}
  <2>1. bars(q) # {}
    BY <1>1, <1>6
  <2>2. ButtonAfter(q, shown) <=> \E i \in bars(q) : (\A j \in bars(q) : j <= i) /\ q[i].form = "none"
    BY <2>1 DEF ButtonAfter
  <2>3. ButtonAfter(r, new) <=> \E i \in bars(r) : (\A j \in bars(r) : j <= i) /\ r[i].form = "none"
    BY <1>6 DEF ButtonAfter
  <2> HIDE DEF bars
  <2>4. ASSUME NEW i \in bars(q), \A j \in bars(q) : j <= i, q[i].form = "none"
        PROVE  ButtonAfter(r, new)
    <3>1. PICK k \in bars(r) : TRUE
      BY <1>6
    <3>2. i \in Nat /\ k \in Nat /\ k + 1 <= i /\ k + 1 # 1 /\ k + 1 \in bars(q)
      BY <1>1, <1>2, <1>3, <2>4
    <3>3. k + 1 >= 1
      BY <1>4, <3>2 DEF bars
    <3>4. i # 1
      BY <3>2, <3>3
    <3>5. i - 1 \in bars(r) /\ r[i - 1].form = "none"
      BY <1>1, <2>4, <3>4
    <3>6. \A j \in bars(r) : j \in Nat /\ j + 1 <= i
      BY <1>1, <1>3, <2>4
    <3>7. \A j \in bars(r) : j <= i - 1
      BY <3>2, <3>6
    <3> QED
      BY <2>3, <3>5, <3>7
  <2>5. ASSUME NEW i \in bars(r), \A j \in bars(r) : j <= i, r[i].form = "none"
        PROVE  ButtonAfter(q, shown)
    <3>1. i \in Nat /\ i + 1 \in bars(q) /\ i + 1 # 1
      BY <1>1, <1>3
    <3>2. q[i + 1].form = "none"
      <4>1. r[(i + 1) - 1] = q[i + 1] /\ (i + 1) - 1 = i
        BY <1>1, <3>1
      <4> QED
        BY <2>5, <4>1
    <3>3. ASSUME NEW j \in bars(q) PROVE j <= i + 1
      <4>1. j \in Nat
        BY <1>2
      <4>2. CASE j = 1
        BY <3>1, <4>2
      <4>3. CASE j # 1
        <5>1. j - 1 \in bars(r) /\ j - 1 <= i
          BY <1>1, <2>5, <4>3
        <5> QED
          BY <3>1, <4>1, <5>1
      <4> QED
        BY <4>2, <4>3
    <3> QED
      BY <2>2, <3>1, <3>2, <3>3
  <2>6. ButtonAfter(q, shown) <=> ButtonAfter(r, new)
    BY <2>2, <2>3, <2>4, <2>5
  <2> QED
    BY <1>3, <2>6 DEF r
<1> QED
  BY <1>5, <1>6

\* A task that is looking for an account has none.
SearchInv == net.pc = "find" => net.account = None

LEMMA SearchInvAlways == Spec => []SearchInv
<1>1. Init => SearchInv
  BY DEF Init, NetIdle, SearchInv
<1>2. ASSUME TypeOK, SearchInv, [Next]_vars PROVE SearchInv'
  <2>0. net \in NetStates
    BY <1>2 DEF TypeOK
  <2>a. ASSUME UNCHANGED net PROVE SearchInv'
    BY <1>2, <2>a DEF SearchInv
  <2>b. ASSUME net'.pc # "find" PROVE SearchInv'
    BY <2>b DEF SearchInv
  <2>c. ASSUME Restart PROVE SearchInv'
    BY <2>c DEF Restart, NetIdle, SearchInv
  <2>d. ASSUME NEW pc \in {"reply", "session", "create", "createKeys", "loadInfo", "loadCache"},
               net' = [net EXCEPT !.pc = pc]
        PROVE  SearchInv'
    BY <2>0, <2>b, <2>d DEF NetStates
  <2>1. CASE \/ ShowForm \/ SwitchForm \/ LeaveForm \/ OnShow \/ OnAccountBarLogin \/ OnCallback
             \/ \E p \in Passwords : Submit(p)
    BY <2>1, <2>a DEF ShowForm, SwitchForm, LeaveForm, OnShow, OnAccountBarLogin, OnCallback,
       Submit, uiOnly
  <2>2. CASE SignOut \/ ClearCache \/ WriteCleared \/ ClearSession \/ PostSignedOut
    BY <2>2, <2>a, <2>c DEF SignOut, ClearCache, WriteCleared, ClearSession, PostSignedOut
  <2>3. CASE Exit
    BY <2>3, <2>c DEF Exit
  <2>4. CASE TakeTask
    BY <2>4 DEF TakeTask, NetIdle, SearchInv
  <2>5. CASE FindAccount
    <3>1. \/ net' = [net EXCEPT !.pc = "reply"]
          \/ \E a \in keys : net' = [net EXCEPT !.pc = "import", !.account = a]
      BY <2>5, Zenon DEF FindAccount
    <3>2. net'.pc \in {"reply", "import"}
      BY <2>0, <3>1 DEF NetStates
    <3> QED
      BY <3>2, <2>b
  <2>6. CASE ImportExisting
    <3>1. Restart \/ net' = [net EXCEPT !.pc = "session"]
      BY <2>6 DEF ImportExisting
    <3> QED
      BY <3>1, <2>c, <2>d
  <2>7. CASE SetSession
    <3>1. net'.pc \in {"load", "create"}
      BY <2>0, <2>7 DEF SetSession, NetStates
    <3> QED
      BY <3>1, <2>b
  <2>8. CASE ReadKeysFile \/ ReadInfos
    <3>1. net'.pc \in {"reply", "loadKey", "loadMaster"}
      BY <2>0, <2>8 DEF ReadKeysFile, ReadInfos, NetStates
    <3> QED
      BY <3>1, <2>b
  <2>15. CASE StoreKey \/ SetMaster \/ CacheMaster
    BY <2>15, <2>d DEF StoreKey, SetMaster, CacheMaster
  <2>9. CASE MakeKey \/ SaveOpen \/ SaveWrite
    <3>1. net'.pc = "save"
      BY <2>0, <2>9 DEF MakeKey, SaveOpen, SaveWrite, NetStates
    <3> QED
      BY <3>1, <2>b
  <2>10. CASE ImportInfo
    <3>1. Restart \/ net' = [net EXCEPT !.pc = "session"]
      BY <2>10 DEF ImportInfo
    <3> QED
      BY <3>1, <2>c, <2>d
  <2>11. CASE CreateSalt
    BY <2>11, <2>d DEF CreateSalt
  <2>12. CASE CreateKeysFile
    BY <2>12, <2>d DEF CreateKeysFile
  <2>13. CASE Reply
    BY <2>13 DEF Reply, NetIdle, SearchInv
  <2>14. CASE UNCHANGED vars
    BY <2>14, <2>a DEF vars
  <2> QED
    BY <1>2, <2>1, <2>2, <2>3, <2>4, <2>5, <2>6, <2>7, <2>8, <2>9, <2>10, <2>11, <2>12, <2>13,
       <2>14, <2>15 DEF Next
<1> QED
  BY <1>1, <1>2, TypeCorrect, PTL DEF Spec

\* While the user signs out the account bar shows the button and is told nothing.
OutInv ==
    ui # "idle" =>
        signedIn /\ \A i \in DOMAIN messages : messages[i].msg \in {"success", "failure"}

LEMMA OutInvAlways == Spec => []OutInv
<1>1. Init => OutInv
  BY DEF Init, OutInv
<1>2. ASSUME TypeOK, OutInv, [Next]_vars PROVE OutInv'
  <2>a. ASSUME UNCHANGED <<messages, signedIn, ui>> PROVE OutInv'
    BY <1>2, <2>a DEF OutInv
  <2>b. ASSUME ui' = "idle" PROVE OutInv'
    BY <2>b DEF OutInv
  <2>c. ASSUME Restart PROVE OutInv'
    BY <2>b, <2>c DEF Restart
  <2>1. CASE \/ ShowForm \/ SwitchForm \/ LeaveForm \/ OnShow \/ OnAccountBarLogin \/ OnCallback
             \/ \E p \in Passwords : Submit(p)
    BY <2>1, <2>b DEF ShowForm, SwitchForm, LeaveForm, OnShow, OnAccountBarLogin, OnCallback,
       Submit, InputTurn, uiOnly
  <2>2. CASE SignOut
    BY <2>2 DEF SignOut, InputTurn, OutInv, screen
  <2>3. CASE ClearCache \/ ClearSession
    BY <1>2, <2>3 DEF ClearCache, ClearSession, OutInv, screen
  <2>4. CASE WriteCleared
    <3>1. CASE Restart
      BY <2>c, <3>1
    <3>2. CASE ~Restart
      BY <1>2, <2>4, <3>2 DEF WriteCleared, OutInv, screen
    <3> QED
      BY <3>1, <3>2
  <2>5. CASE PostSignedOut \/ Exit
    BY <2>5, <2>b, <2>c DEF PostSignedOut, Exit
  <2>6. CASE \/ TakeTask \/ FindAccount \/ SetSession
             \/ ReadKeysFile \/ StoreKey \/ ReadInfos \/ SetMaster \/ CacheMaster
             \/ MakeKey \/ SaveOpen \/ SaveWrite \/ CreateSalt \/ CreateKeysFile
    BY <2>6, <2>a DEF TakeTask, FindAccount, SetSession, ReadKeysFile, StoreKey, ReadInfos,
       SetMaster, CacheMaster, MakeKey, SaveOpen, SaveWrite, CreateSalt, CreateKeysFile,
       netOnly, screen
  <2>7. CASE ImportExisting
    BY <2>7, <2>a, <2>c DEF ImportExisting, netOnly, screen
  <2>8. CASE ImportInfo
    BY <2>8, <2>a, <2>c DEF ImportInfo, netOnly, screen
  <2>9. CASE Reply
    <3> DEFINE m == [msg |-> IF net.account = None THEN "failure" ELSE "success", form |-> net.op]
    <3>1. m.msg \in {"success", "failure"}
      OBVIOUS
    <3>2. messages' = Append(messages, m) /\ UNCHANGED <<signedIn, ui>>
      BY <2>9 DEF Reply, screen
    <3> HIDE DEF m
    <3>3. messages \in Seq(Messages)
      BY <1>2 DEF TypeOK
    <3> QED
      BY <1>2, <3>1, <3>2, <3>3 DEF OutInv
  <2>10. CASE UNCHANGED vars
    BY <2>10, <2>a DEF vars, screen
  <2> QED
    BY <1>2, <2>1, <2>2, <2>3, <2>4, <2>5, <2>6, <2>7, <2>8, <2>9, <2>10 DEF Next
<1> QED
  BY <1>1, <1>2, TypeCorrect, PTL DEF Spec

News(q) == Cardinality(Posted("success", q))
Button(q) == ui # "post" /\ ButtonAfter(q, signedIn)

\* A process that starts has nobody logged in and nothing under way.
LEMMA SignInRestart == Restart => SI!End
<1> SUFFICES ASSUME Restart PROVE SI!End
  OBVIOUS
<1>1. Posted("success", messages') = {} /\ Posted("bar", messages') = {}
  BY DEF Restart, Posted
<1>2. Cardinality(Posted("success", messages')) = 0
  BY <1>1, FS_EmptySet
<1>3. ButtonAfter(messages', signedIn') = FALSE
  BY <1>1 DEF Restart, ButtonAfter
<1>4. SignInTask' = "none"
  BY DEF Restart, NetIdle, SignInTask, LoadSteps, KeyStored
<1>5. session' = None
  BY DEF Restart
<1> QED
  BY <1>2, <1>3, <1>4, <1>5 DEF SI!End, Restart

\* The handlers of the UI thread: a sign-out, telling the account bar of a login, or
\* nothing that concerns either.
LEMMA SignInUI ==
  ASSUME TypeOK, OutInv,
         \/ ShowForm \/ SwitchForm \/ LeaveForm
         \/ \E p \in Passwords : Submit(p)
         \/ SignOut \/ ClearCache \/ WriteCleared \/ ClearSession \/ PostSignedOut
         \/ OnShow \/ OnAccountBarLogin \/ OnCallback \/ Exit
  PROVE  [SI!SignInNext]_(SI!signInVars)
<1> USE AccountsAssumption
<1>0. messages \in Seq(Messages) /\ signedIn \in BOOLEAN
  BY DEF TypeOK
\* Handlers after which there is as much to tell and the button as before.
<1>a. ASSUME UNCHANGED <<session, net>>, ui # "post", ui' # "post",
             News(messages') = News(messages),
             ButtonAfter(messages', signedIn') = ButtonAfter(messages, signedIn)
      PROVE  [SI!SignInNext]_(SI!signInVars)
  BY <1>a DEF SI!signInVars, SignInTask, News
<1>b. ASSUME NEW f \in {"none", "login", "register"},
             messages' = Append(messages, [msg |-> "show", form |-> f]),
             UNCHANGED <<session, net, signedIn>>, ui = "idle", ui' = "idle"
      PROVE  [SI!SignInNext]_(SI!signInVars)
  <2> DEFINE m == [msg |-> "show", form |-> f]
  <2>1. m \in Messages /\ m.msg = "show"
    BY DEF Messages
  <2> HIDE DEF m
  <2>2. News(Append(messages, m)) = News(messages)
    BY <1>0, <2>1, PostedAppend DEF News
  <2>3. ButtonAfter(Append(messages, m), signedIn) = ButtonAfter(messages, signedIn)
    BY <1>0, <2>1, ButtonAppend
  <2> QED
    BY <1>a, <1>b, <2>2, <2>3 DEF m
\* The first message is served, and it is not a success.
<1>c. ASSUME messages # <<>>, Head(messages).msg # "success", messages' = Tail(messages),
             UNCHANGED <<session, net>>, signedIn' \in BOOLEAN, ui = "idle", ui' = "idle",
             signedIn' = IF Head(messages).msg = "bar" THEN Head(messages).form = "none" ELSE signedIn
      PROVE  [SI!SignInNext]_(SI!signInVars)
  <2>1. News(Tail(messages)) = News(messages)
    BY <1>0, <1>c, PostedTail DEF News
  <2>2. ButtonAfter(Tail(messages), signedIn') = ButtonAfter(messages, signedIn)
    BY <1>0, <1>c, ButtonTail
  <2> QED
    BY <1>a, <1>c, <2>1, <2>2
<1>1. CASE ShowForm
  BY <1>1, <1>b DEF ShowForm, InputTurn, FirstForm, uiOnly, screen
<1>2. CASE SwitchForm
  BY <1>2, <1>b DEF SwitchForm, InputTurn, uiOnly, screen
<1>3. CASE LeaveForm
  BY <1>3, <1>a DEF LeaveForm, InputTurn, uiOnly
<1>4. CASE \E p \in Passwords : Submit(p)
  BY <1>4, <1>a DEF Submit, InputTurn, uiOnly, screen
<1>5. CASE SignOut
  BY <1>5, <1>a DEF SignOut, InputTurn, screen
<1>10. CASE ClearCache
  BY <1>10, <1>a DEF ClearCache, screen
<1>11. CASE WriteCleared
  <2>1. CASE Restart
    BY <2>1, SignInRestart DEF SI!SignInNext
  <2>2. CASE ~Restart
    BY <1>11, <1>a, <2>2 DEF WriteCleared, screen
  <2> QED
    BY <2>1, <2>2
<1>12. CASE ClearSession
  <2>1. /\ ui = "session" /\ ui' = "post" /\ session' = None
        /\ UNCHANGED <<net, messages, signedIn>>
    BY <1>12 DEF ClearSession, screen
  <2>2. signedIn /\ Posted("bar", messages) = {}
    BY <2>1 DEF OutInv, Posted
  <2>3. ButtonAfter(messages, signedIn)
    BY <2>2 DEF ButtonAfter
  <2>4. SI!Leave
    BY <2>1, <2>3 DEF SI!Leave, SignInTask
  <2> QED
    BY <2>4 DEF SI!SignInNext
<1>13. CASE PostSignedOut
  <2> DEFINE m == [msg |-> "bar", form |-> FirstForm]
  <2>1. /\ ui = "post" /\ ui' = "idle" /\ messages' = Append(messages, m)
        /\ UNCHANGED <<session, net, signedIn>>
    BY <1>13 DEF PostSignedOut, screen
  <2>2. m \in Messages /\ m.msg = "bar" /\ m.form # "none"
    BY DEF Messages, FirstForm
  <2> HIDE DEF m
  <2>3. ButtonAfter(Append(messages, m), signedIn) = FALSE
    BY <1>0, <2>2, ButtonAppend
  <2>4. News(Append(messages, m)) = News(messages)
    BY <1>0, <2>2, PostedAppend DEF News
  <2> QED
    BY <2>1, <2>3, <2>4 DEF SI!signInVars, SignInTask, News
<1>6. CASE Exit
  BY <1>6, SignInRestart DEF Exit, SI!SignInNext
<1>7. CASE OnShow
  BY <1>0, <1>7, <1>c DEF OnShow, uiOnly
<1>8. CASE OnAccountBarLogin
  <2>1. /\ messages # <<>> /\ Head(messages).msg = "bar" /\ messages' = Tail(messages)
        /\ UNCHANGED <<session, net>> /\ ui = "idle" /\ ui' = "idle"
        /\ signedIn' = (Head(messages).form = "none")
    BY <1>8 DEF OnAccountBarLogin, uiOnly
  <2> QED
    BY <1>c, <2>1
<1>9. CASE OnCallback
  <2>1. messages # <<>> /\ UNCHANGED <<session, net, signedIn>> /\ ui = "idle" /\ ui' = "idle"
    BY <1>9 DEF OnCallback, uiOnly
  <2>2. CASE /\ Head(messages).msg = "success"
             /\ messages' = Append(Tail(messages), [msg |-> "bar", form |-> "none"])
    <3> DEFINE m == [msg |-> "bar", form |-> "none"]
               rest == Tail(messages)
    <3>1. m \in Messages /\ m.msg = "bar" /\ m.form = "none" /\ rest \in Seq(Messages)
      BY <1>0, <2>1, MessageTypes DEF Messages
    <3>a. News(rest) = News(messages) - 1
      BY <1>0, <2>1, <2>2, PostedTail DEF News
    <3> HIDE DEF m, rest
    <3>2. News(Append(rest, m)) = News(messages) - 1
      BY <3>1, <3>a, PostedAppend DEF News
    <3>3. ButtonAfter(Append(rest, m), signedIn) = TRUE
      <4>1. ButtonAfter(Append(rest, m), signedIn) = IF m.msg = "bar" THEN m.form = "none"
                                                     ELSE ButtonAfter(rest, signedIn)
        BY <1>0, <3>1, ButtonAppend
      <4> QED
        BY <3>1, <4>1
    <3>4. News(messages) \in Nat /\ News(messages) # 0
      <4>1. 1 \in Posted("success", messages)
        BY <1>0, <2>1, <2>2, PostedTail
      <4> QED
        BY <1>0, <4>1, PostedFinite, FS_EmptySet DEF News
    <3>5. SI!Tell
      BY <2>1, <2>2, <3>2, <3>3, <3>4 DEF SI!Tell, SignInTask, News, m, rest
    <3> QED
      BY <3>5 DEF SI!SignInNext
  <2>3. CASE messages' = Tail(messages) /\ Head(messages).msg = "failure"
    BY <1>0, <1>c, <2>1, <2>3
  <2> QED
    BY <1>9, <2>2, <2>3 DEF OnCallback
<1> QED
  BY <1>1, <1>2, <1>3, <1>4, <1>5, <1>6, <1>7, <1>8, <1>9, <1>10, <1>11, <1>12, <1>13

\* The steps of a task: it begins, sets the session, ends with or without a login, or
\* goes on without anything that concerns the rest of the program.
LEMMA SignInNet ==
  ASSUME TypeOK, SearchInv,
         \/ TakeTask
         \/ FindAccount \/ ImportExisting \/ SetSession
         \/ ReadKeysFile \/ StoreKey \/ ReadInfos \/ SetMaster \/ CacheMaster
         \/ MakeKey \/ SaveOpen \/ SaveWrite \/ ImportInfo \/ CreateSalt \/ CreateKeysFile
         \/ Reply
  PROVE  [SI!SignInNext]_(SI!signInVars)
<1> USE AccountsAssumption
<1>0. net \in NetStates /\ messages \in Seq(Messages) /\ signedIn \in BOOLEAN
  BY DEF TypeOK
\* Steps in which a task goes on.
<1>a. ASSUME UNCHANGED <<session, messages, signedIn, ui>>, SignInTask' = SignInTask
      PROVE  [SI!SignInNext]_(SI!signInVars)
  BY <1>a DEF SI!signInVars
<1>b. ASSUME UNCHANGED <<session, messages, signedIn, ui>>,
             net.pc \in {"find", "make", "import", "session", "save"},
             \/ net'.pc \in {"import", "session", "save"}
             \/ net'.pc = "reply" /\ net'.account = None
      PROVE  [SI!SignInNext]_(SI!signInVars)
  BY <1>a, <1>b DEF SignInTask, LoadSteps, KeyStored
<1>c. ASSUME UNCHANGED <<session, messages, signedIn, ui>>,
             net.pc \in {"create", "createKeys"} \cup LoadSteps,
             net'.pc \in {"createKeys", "reply"} \cup LoadSteps, net'.account = net.account
      PROVE  [SI!SignInNext]_(SI!signInVars)
  <2>1. net.account # None
    BY <1>c DEF TypeOK, HasItsAccount, AccountSteps
  <2>2. SignInTask = "found"
    BY <1>c DEF SignInTask, LoadSteps, KeyStored
  <2>3. SignInTask' = "found"
    BY <1>c, <2>1 DEF SignInTask, LoadSteps, KeyStored
  <2> QED
    BY <1>a, <1>c, <2>2, <2>3
\* Steps that import, which a write() that throws ends.
<1>d. ASSUME net.pc \in {"import", "save"},
             \/ Restart
             \/ UNCHANGED <<session, messages, signedIn, ui>> /\ net' = [net EXCEPT !.pc = "session"]
      PROVE  [SI!SignInNext]_(SI!signInVars)
  <2>1. CASE Restart
    BY <2>1, SignInRestart DEF SI!SignInNext
  <2>2. CASE UNCHANGED <<session, messages, signedIn, ui>> /\ net' = [net EXCEPT !.pc = "session"]
    <3>1. net'.pc = "session"
      BY <1>0, <2>2 DEF NetStates
    <3> QED
      BY <1>b, <1>d, <2>2, <3>1
  <2> QED
    BY <1>d, <2>1, <2>2
<1>1. CASE TakeTask
  <2>1. net.pc = "idle" /\ net'.pc \in {"find", "make"} /\ UNCHANGED <<session, messages, signedIn, ui>>
    BY <1>1 DEF TakeTask, NetIdle, screen
  <2>2. SI!Begin
    BY <2>1 DEF SI!Begin, SignInTask, LoadSteps, KeyStored
  <2> QED
    BY <2>2 DEF SI!SignInNext
<1>2. CASE FindAccount
  <2>1. net.pc = "find" /\ UNCHANGED <<session, messages, signedIn, ui>>
    BY <1>2 DEF FindAccount, netOnly, screen
  <2>2. net.account = None
    BY <2>1 DEF SearchInv
  <2>3. \/ net' = [net EXCEPT !.pc = "reply"]
        \/ \E a \in keys : net' = [net EXCEPT !.pc = "import", !.account = a]
    BY <1>2, Zenon DEF FindAccount
  <2>4. net'.pc = "import" \/ (net'.pc = "reply" /\ net'.account = None)
    BY <1>0, <2>2, <2>3 DEF NetStates
  <2> QED
    BY <1>b, <2>1, <2>4
<1>3. CASE ImportExisting
  BY <1>3, <1>d DEF ImportExisting, netOnly, screen
<1>4. CASE SetSession
  <2>1. /\ net.pc = "session" /\ net'.pc \in {"load", "create"}
        /\ UNCHANGED <<messages, signedIn, ui>>
    BY <1>0, <1>4 DEF SetSession, NetStates, netOnly, screen
  <2>2. session' \in Accounts \cup {ZeroAddress}
    BY <1>4 DEF SetSession, TypeOK, HasItsAccount, AccountSteps
  <2>3. SI!Found
    BY <2>1, <2>2 DEF SI!Found, SignInTask, LoadSteps, KeyStored
  <2> QED
    BY <2>3 DEF SI!SignInNext
<1>5. CASE ReadKeysFile
  <2>1. /\ net.pc \in LoadSteps /\ net'.pc \in {"reply"} \cup LoadSteps
        /\ net'.account = net.account
    BY <1>0, <1>5 DEF ReadKeysFile, NetStates, LoadSteps, KeyStored
  <2> QED
    BY <1>5, <1>c, <2>1 DEF ReadKeysFile, netOnly, screen
<1>13. CASE StoreKey
  <2>1. /\ net.pc \in LoadSteps /\ net'.pc \in {"reply"} \cup LoadSteps
        /\ net'.account = net.account
    BY <1>0, <1>13 DEF StoreKey, NetStates, LoadSteps, KeyStored
  <2> QED
    BY <1>13, <1>c, <2>1 DEF StoreKey, netOnly, screen
<1>14. CASE ReadInfos
  <2>1. /\ net.pc \in LoadSteps /\ net'.pc \in {"reply"} \cup LoadSteps
        /\ net'.account = net.account
    BY <1>0, <1>14 DEF ReadInfos, NetStates, LoadSteps, KeyStored
  <2> QED
    BY <1>14, <1>c, <2>1 DEF ReadInfos, netOnly, screen
<1>15. CASE SetMaster
  <2>1. /\ net.pc \in LoadSteps /\ net'.pc \in {"reply"} \cup LoadSteps
        /\ net'.account = net.account
    BY <1>0, <1>15 DEF SetMaster, NetStates, LoadSteps, KeyStored
  <2> QED
    BY <1>15, <1>c, <2>1 DEF SetMaster, netOnly, screen
<1>16. CASE CacheMaster
  <2>1. /\ net.pc \in LoadSteps /\ net'.pc \in {"reply"} \cup LoadSteps
        /\ net'.account = net.account
    BY <1>0, <1>16 DEF CacheMaster, NetStates, LoadSteps, KeyStored
  <2> QED
    BY <1>16, <1>c, <2>1 DEF CacheMaster, netOnly, screen
<1>6. CASE MakeKey
  <2>1. net.pc = "make" /\ UNCHANGED <<session, messages, signedIn, ui>>
    BY <1>6 DEF MakeKey, netOnly, screen
  <2>2. net'.pc = "save"
    BY <1>0, <1>6 DEF MakeKey, NetStates
  <2> QED
    BY <1>b, <2>1, <2>2
<1>7. CASE SaveOpen \/ SaveWrite
  <2>1. net.pc = "save" /\ UNCHANGED <<session, messages, signedIn, ui>>
    BY <1>7 DEF SaveOpen, SaveWrite, netOnly, screen
  <2>2. net'.pc = "save"
    BY <1>0, <1>7 DEF SaveOpen, SaveWrite, NetStates
  <2> QED
    BY <1>b, <2>1, <2>2
<1>8. CASE ImportInfo
  BY <1>8, <1>d DEF ImportInfo, netOnly, screen
<1>9. CASE CreateSalt
  <2>1. /\ net.pc = "create" /\ net'.pc \in {"createKeys", "reply"}
        /\ net'.account = net.account
    BY <1>0, <1>9 DEF CreateSalt, NetStates
  <2> QED
    BY <1>9, <1>c, <2>1 DEF CreateSalt, netOnly, screen
<1>10. CASE CreateKeysFile
  <2>1. net.pc = "createKeys" /\ net'.pc = "reply" /\ net'.account = net.account
    BY <1>0, <1>10 DEF CreateKeysFile, NetStates
  <2> QED
    BY <1>10, <1>c, <2>1 DEF CreateKeysFile, netOnly, screen
<1>11. CASE Reply
  <2> DEFINE m == [msg |-> IF net.account = None THEN "failure" ELSE "success", form |-> net.op]
  <2>1. /\ messages' = Append(messages, m) /\ net.pc = "reply" /\ net'.pc = "idle"
        /\ UNCHANGED <<session, signedIn, ui>>
    BY <1>11 DEF Reply, NetIdle, screen
  <2>2. m \in Messages /\ m.msg # "bar" /\ (m.msg = "success" <=> net.account # None)
    BY <1>0 DEF Messages, NetStates
  <2> HIDE DEF m
  <2>3. ButtonAfter(Append(messages, m), signedIn) = ButtonAfter(messages, signedIn)
    BY <1>0, <2>2, ButtonAppend
  <2>4. CASE net.account = None
    <3>1. News(Append(messages, m)) = News(messages)
      BY <1>0, <2>2, <2>4, PostedAppend DEF News
    <3>2. SI!Fail
      BY <2>1, <2>3, <2>4, <3>1 DEF SI!Fail, SignInTask, LoadSteps, KeyStored, News
    <3> QED
      BY <3>2 DEF SI!SignInNext
  <2>5. CASE net.account # None
    <3>1. News(Append(messages, m)) = News(messages) + 1
      BY <1>0, <2>2, <2>5, PostedAppend DEF News
    <3>2. SI!Succeed
      BY <2>1, <2>3, <2>5, <3>1 DEF SI!Succeed, SignInTask, LoadSteps, KeyStored, News
    <3> QED
      BY <3>2 DEF SI!SignInNext
  <2> QED
    BY <2>4, <2>5
<1> QED
  BY <1>1, <1>2, <1>3, <1>4, <1>5, <1>6, <1>7, <1>8, <1>9, <1>10, <1>11, <1>13, <1>14, <1>15,
     <1>16

\* Initially nobody is logged in and nothing is under way.
LEMMA SignInStart == Init => SI!SignInInit
<1> SUFFICES ASSUME Init PROVE SI!SignInInit
  OBVIOUS
<1>1. Posted("success", messages) = {} /\ Posted("bar", messages) = {}
  BY DEF Init, Posted
<1>2. Cardinality(Posted("success", messages)) = 0
  BY <1>1, FS_EmptySet
<1>3. ButtonAfter(messages, signedIn) = FALSE
  BY <1>1 DEF Init, ButtonAfter
<1>4. SignInTask = "none"
  BY DEF Init, NetIdle, SignInTask, LoadSteps, KeyStored
<1> QED
  BY <1>2, <1>3, <1>4 DEF Init, SI!SignInInit

(* Logging in and out, with all that the account manager, the key manager   *)
(* and the forms do for it, is what SignIn says: a task sets the session    *)
(* once, before its success is posted, one that fails leaves it alone, and  *)
(* the account bar is told of every login exactly once.                     *)
THEOREM AccountsSignIn == Spec => SignsIn
<1>1. TypeOK /\ SearchInv /\ OutInv /\ [Next]_vars => [SI!SignInNext]_(SI!signInVars)
  <2>1. TypeOK /\ SearchInv /\ OutInv /\ Next => [SI!SignInNext]_(SI!signInVars)
    BY SignInUI, SignInNet DEF Next
  <2>2. UNCHANGED vars => UNCHANGED SI!signInVars
    BY DEF vars, screen, SI!signInVars, SignInTask
  <2> QED
    BY <2>1, <2>2
<1> QED
  BY <1>1, SignInStart, SearchInvAlways, OutInvAlways, TypeCorrect, PTL DEF Spec, SignsIn, SI!SignInSpec

\* What SignIn promises of the button: it is there, or a login is still to be told of.
ButtonInv ==
    session = None \/ SignInTask = "found" \/ News(messages) > 0 \/ Button(messages)

\* No step of SignIn leaves somebody logged in without it.
LEMMA ButtonStep ==
  ASSUME TypeOK, TypeOK', ButtonInv, [SI!SignInNext]_(SI!signInVars)
  PROVE  ButtonInv'
<1>0. News(messages) \in Nat /\ News(messages') \in Nat
  BY PostedFinite DEF TypeOK, News
<1> USE DEF ButtonInv, News, Button
<1>1. CASE SI!Begin
  BY <1>1 DEF SI!Begin
<1>2. CASE SI!Found
  BY <1>2 DEF SI!Found
<1>3. CASE SI!Succeed
  BY <1>0, <1>3 DEF SI!Succeed
<1>4. CASE SI!Fail
  BY <1>4 DEF SI!Fail
<1>5. CASE SI!Tell
  BY <1>5 DEF SI!Tell
<1>6. CASE SI!Leave
  BY <1>6 DEF SI!Leave
<1>7. CASE SI!End
  BY <1>7 DEF SI!End
<1>8. CASE UNCHANGED SI!signInVars
  BY <1>8 DEF SI!signInVars
<1> QED
  BY <1>1, <1>2, <1>3, <1>4, <1>5, <1>6, <1>7, <1>8 DEF SI!SignInNext

(* Whoever is logged in is shown the sign-out button once no task runs and  *)
(* no message is under way: for any number of accounts, tasks and messages, *)
(* and however logins and sign-outs overlap.                                *)
THEOREM CanAlwaysSignOut == Spec => []CanSignOut
<1>1. SI!SignInInit => ButtonInv
  BY DEF SI!SignInInit, ButtonInv, Button
<1>2. TypeOK /\ TypeOK' /\ ButtonInv /\ [SI!SignInNext]_(SI!signInVars) => ButtonInv'
  BY ButtonStep
<1>3. ButtonInv => CanSignOut
  <2> SUFFICES ASSUME ButtonInv, net.pc = "idle", messages = <<>>, session # None
               PROVE  signedIn
    BY DEF CanSignOut
  <2>1. Posted("success", messages) = {} /\ Posted("bar", messages) = {}
    BY DEF Posted
  <2>2. News(messages) = 0
    BY <2>1, FS_EmptySet DEF News
  <2>3. SignInTask = "none"
    BY DEF SignInTask, LoadSteps, KeyStored
  <2>4. Button(messages) => signedIn
    BY <2>1 DEF Button, ButtonAfter
  <2> QED
    BY <2>2, <2>3, <2>4 DEF ButtonInv
<1> QED
  BY <1>1, <1>2, <1>3, AccountsSignIn, TypeCorrect, PTL DEF SignsIn, SI!SignInSpec
=============================================================================
