# TronWallet: a verification project

TronWallet is a Windows wallet for the TRON network: one C++ process with a UI
thread and a network thread, a hot wallet window and a cold (offline) one.  This
directory holds TLA+ models of its core, the TLC runs that check them and the
TLAPS proofs about them.  Paths below are relative to `src/`.

## 1. The system

### Parts, state and operations

| Part | Code | State | Operations |
|---|---|---|---|
| Network thread | `wallet/core/network_thread.{h,cpp}`, `wallet/main.cpp` | `io_service` queue of handlers, `requestContextPool_`, `lastCallType_`, the two node addresses and their stubs | 29 remote calls made by `RPC_PROC`, `ReSetSub`, `Login`, `CreateAccountWrapper` |
| Account manager | `wallet/core/account_manager.{h,cpp}` | who is logged in (`address_pair_`), the cold wallet's address book | `Login`, `Logout`, `CreateAccount`, `HasAccount`, `GenerateAddress`, `LoadAddresses`, `LookupPrivate` |
| Key manager | `wallet/core/key_manager.{h,cpp}` | key infos and lookups, cached passwords, the keys file and its salt | `create`, `load`, `write`, `import`, `importExisting`, `clear`, `getPassword` |
| Secret store | `libdevcrypto/SecretStore.{h,cpp}` | encrypted keys, decrypted keys, one file per key | `importSecret`, `secret`, `save`, `load`, `clearCache` |
| Sign-in forms | `wallet/gui/{register_form,login_form,account_manager_bar,show_panel}.cpp` | the form that is shown, the sign-out button | register, log in, sign out, switch forms |
| Transaction and vote files | `wallet/core/{transaction_manager,core_util}.cpp`, the `*_info_form.cpp` | JSON files carried between hot and cold wallet | save, load, sign, broadcast |
| Transaction forms | `wallet/gui/{send,freeze,vote,participate,token_*}_form.cpp` | what the user typed, the account's balance as last fetched | create, sign and broadcast a transaction |
| Main and cold window | `wallet/gui/{main_window,cold_main_window,balance_form,...}.cpp` | the content shown, imported addresses | menu commands, event handlers |
| Status layer | `wallet/gui/status_layer.cpp` | spinner or text, its timer | `Update`, `Show`, `OnUITimer` |

### How they interact

- A form calls `CNetworkThread` on the UI thread.  `RPC_PROC` drops the call or
  posts a handler to the `io_service`; the network thread runs handlers one after
  the other, blocks in the stub call, and posts the callback to the main window
  (`Event_Network_Response`), whose `OnNetCallback` runs it on the UI thread.
- `Login` and `CreateAccount` are handlers of the network thread, because they
  derive keys.  `Logout` and `HasAccount` run on the UI thread.  There is no lock
  around the account manager, the key manager or the secret store.
- Forms and windows tell each other of changes by posted window messages
  (`Event_Show_Login`, `Event_AccountBar_Login`, `Event_Hide_Status`, ...).
- `main` detaches the network thread: it dies with the process, in the middle of
  whatever it writes.

### What is hard

Two threads share `lastCallType_`, the context pool and the whole account state.
A handler erases its own mark and may set it again for a retry.  The nodes are
replaced by a task behind the requests that were made for the old ones.  Files
are rewritten in several steps, by a thread that can be killed at each of them.
Password hashes are salted with a value that changes with the keys file.
Forms keep addresses and data that answers bring later, while accounts change.
Amounts go through doubles and 32- and 64-bit integers.  `PROJECT.json` lists these
hazards, each at its line, with the properties that would catch them, or a note why
none does.

### What makes each part correct

- Network thread: an accepted request is answered once and in order; a request is
  refused only while one of its type is under way; nothing blocks a type for ever;
  a request goes to the node configured when it was made.
- Accounts: no key is lost or left undecryptable wherever the process ends; the
  account that is logged in can sign and can sign out; signing out leaves no decrypted key
  (but for a login that comes while it is at it); a keys file is replaced only by one the same password opens.
- Main window and transactions: what a form shows belongs together and to whoever is
  logged in; the key that signs is the owner's; the overlay goes away.
- Cold wallet: no address that was shown is lost; each account has its own.
- Files: what was signed is what is executed, and no more often than was asked for; a
  saved transaction stays where it was saved.
- Amounts: what is sent, frozen or voted is what was typed, and the account has it.
- Connection settings: the nodes in use are those that the next start will use.

## 2. The models

### `NetworkThread` (and its abstract specification `RequestService`)

| Model | Code |
|---|---|
| `CallRpc` ... `PostRpc`, one step per access to shared state | `RPC_PROC` on the UI thread, `network_thread.cpp` 147-167 and 186-188 |
| `TakeTask`, `RpcReturns`, `Unregister`, `RegisterAgain`, `RpcCallback`, `ResetLast` | the handler that `RPC_PROC` posts, 168-185 |
| `PostLocal`, `LocalCallback` | `Login`, `CreateAccountWrapper`, 336-350 |
| `ReSetSub`, `CancelFull` ... `SwitchSolidity` | `ReSetSub`, 75-102 |
| `OnNetCallback` | `CWalletBaseWindow::OnNetCallback` |
| `requestContextPool`, `lastCallType`, `full`, `solidity`, `tasks`, `messages` | the members of the same names, the `io_service` queue, the window's message queue |

A `grpc::ClientContext` is named after the request and the attempt it is made for.
`issued`, `answered`, `configured` and the node fields of a queued request are
history: they record what the user asked for.  A stub call returns any of three
statuses, and can only fail if its context was cancelled before it began; a cancel
during the call may come too late.

`RequestService` is what the forms rely on: numbered requests are accepted, wait,
and are answered oldest first and only once.  `Service == INSTANCE RequestService
WITH waiting <- Waiting` maps the queues onto it.

Abstractions: `Clear` in `ReSetSub` walks the map without the lock; the model
cancels all and then erases all, with steps of the UI thread in between, and leaves
out the corruption of the `std::map` that the race could also cause.  `GetLast` reads
`lastCallType_` for the context to cancel and looks that up in one step; it is read once
more for a debug message, which is left out.  The limit of 10,000 posted messages per thread is left out.

### `Accounts`

One account stands for its key, its uuid and its address.  `AccountManager`,
`KeyManager` and `SecretStore` are one module, because every operation of one is a
sequence of changes to all three.

| Model | Code |
|---|---|
| `FindAccount`, `ImportExisting`, `SetSession`, `Reply` | `AccountManager::Login` with `SecretStore::secret` and `KeyManager::importExisting`, and the callback |
| `ReadKeysFile`, `StoreKey`, `ReadInfos`, `SetMaster`, `CacheMaster` | `KeyManager::load`: the file is read, `m_keysFileKey` stored, the entries and the default password taken over, `m_master` set, the password cached |
| `MakeKey`, `SaveOpen`, `SaveWrite`, `ImportInfo`, `SetSession`, `CreateSalt`, `CreateKeysFile`, `Reply` | `AccountManager::CreateAccount` with `KeyManager::import` and `create`, `SecretStore::importSecret` and `save` |
| `SignOut`, `ClearCache`, `WriteCleared`, `ClearSession`, `PostSignedOut` | the account bar's button: `AccountManager::Logout` with `KeyManager::clear`, which erases the entry, empties the key cache and writes the keys file, before the session is cleared and the event posted |
| `Write`, `WriteThrows` | `KeyManager::write`, which writes the file and then may throw `PasswordUnknown` |
| `ShowForm`, `SwitchForm`, `LeaveForm`, `Submit`, `OnShow`, `OnAccountBarLogin`, `OnCallback` | the account bar, the two forms and the events they post |
| `Exit`, `Restart` | the process ends at any point and is started again: the constructors of `KeyManager` and `SecretStore` |

The steps of either thread are the changes it makes to what both use: loading the keys
file takes five, signing out takes five, and those of the two threads interleave.
`write()` stays one step: it replaces the file and throws, if it does, at once.  A key file is written in two steps (`trunc`, then
the contents), as `writeFile` does; the keys file and the salt are written to the
side and renamed, and so change in one step.

Abstractions: encryption and hashing are symbolic.  A password hash is the pair of
the password and the string it was salted with, so that the same password hashed
under another default password is another hash; the keys file opens with its own key
only.  Wrong-key garbage either is RLP of another version (`load` goes on without
reading entries) or is no RLP (`load` fails half-way), never version 1.  An uncaught
exception ends the process.  Posted messages are served before input (`InputTurn`),
as `GetMessage` does.  Data races inside the standard containers are not modelled:
steps on them are atomic.  `mishaps` records the three situations that the code is not
prepared for: logging in while a key is still there decrypted, signing out while a task
runs, and a task that sets the session when signing out has emptied the cache and not
yet cleared the session, so that the login is forgotten and its key stays decrypted.
The properties that exclude one of them say so.

`SignIn` is what logging in and out is for the rest of the program: a task looks for an
account, makes it the session's, and reports that, or reports that it found none; the
account bar is told of every reported login and then shows the button to sign out.
`SI == INSTANCE SignIn WITH ...` maps the session, how far the task is (`SignInTask`), the
successes among the posted messages, and the button as the posted messages will leave it.
`MainWindow`, which has logins as two steps of its network thread, is mapped to the same
`SignIn`: that both implement it says that the window's model of a login, and what it
makes of the answer, agree with those of `Accounts`.  The whole sign-out is one step of
`SignIn`, the one that clears the session.

### `MainWindow` (with `StatusLayer`)

The hot wallet's window on top of what `NetworkThread` shows of the network thread: a
queue of tasks, RPCs refused only while one of their type is outstanding (and perhaps
not even then), answers in order, failed calls answered by an empty response.

| Model | Code |
|---|---|
| `Rpc`, `LogIn`, `PostCallback`, `EndTask` | `RPC_PROC` and its handlers, `Login` as a task, abstracted |
| `Take`, `Post`, `owed` | the message loop; the messages a handler has yet to post, between which the other thread may post its own |
| `SetAddress`, `OnView`, `ClickView`, `ShowBalanceList`, `OnAccountBarLogin` | `CBalanceForm::SetAddress`, `CSendForm::UpdteAddress`, their callbacks, and who calls them |
| `OnNet` | `UpdateBandwidth`, with the answer to the request that the balance form's callback makes |
| `ClickPage`, `OnPage`, `ShowTransactions`, `OnFrom`, `OnTo` | the lists of witnesses, tokens and transactions |
| `ClickTransaction`, `OnCheckPasses`, `OnCheckFails`, `OnCreateSigns`, `OnCreateFails`, `OnBroadcast` | the seven kinds of transactions: look at the account, create, sign, broadcast |
| `Update`, `Show`, `OnUITimer` (`StatusLayer`) | `CStatusLayer` |

Assumptions: posted messages are handled before input, and timers last (`GetMessage`).
The event that a click posts is handled with the click.  The overlay is taken not to
hold back input, which gives the user more to do, not less.  A message box runs a
message loop of its own, but is the last thing its handler does (in
`CTokenModifyForm`, nothing read before it is used after it).  What the user typed
has passed the form's checks.

A form has the address that it asked with, the one that it shows, and whose balance,
tokens and bandwidth.  The balance form's tokens are replaced with the balance; those of
the send form (`assert_`) are added to what it has, and never taken out, and the bandwidth
stays until a second answer brings another.

### `ColdWallet`

`GenerateAddress` and `LoadAddresses` run on the UI thread, step by step; logins run on
the network thread between any two steps, and the process may end at each.  A login is
two steps, `SetSession` and `PostLogin`: between them it loads the keys file, which takes
a key derivation, and the UI thread goes on.  An address stands for its key, an
encrypted file for what it holds and whose key opens it.  `mishaps` records four
situations the code is not prepared for: another account logs in over a book that is not
empty (`Logout` does not empty it), a login comes while a handler runs, an address is
added or the user signs out while a login is between its two steps (the list is then not
that of who is logged in), the process ends while it writes.  The properties name the
ones they exclude.

### `OfflineTransaction`

Two wallets and the files the user carries between them: `Create`, `ClickSave`,
`LoadDatas`, `OnItemClick`, `ClickSign`, `ClickBroadcast` are the buttons, `Restart` the
end of either wallet, by itself or by one of the unchecked pointers and exceptions on
the way.  A copy of a transaction is its timestamp and its signatures, each of the
timestamp it covers and by whom.  External, and modelled from how the wallet uses
them: the node, which executes what has exactly the one valid signature, and nothing
twice that has the same timestamp; the file dialogs; the user.  The name of a file
depends on the length of `raw_data` alone, and that length is taken not to change when
a transaction is stamped again (the node has stamped it before).

### `Amounts`

The checks and conversions of the forms, one click and one answer each: `ToTrx`,
`ToDrop`, `CalcTronPower`, `ValidateContract` and the arithmetic around them.  Integers
have their widths (`Half32`, `Half64`), and what does not fit wraps around; the price of a
token is narrowed to the `int32` that `set_trx_num` and `set_num` take.  A double has
`Exact` (2^53) as the largest number up to which it has every integer: what is typed, each
quotient and each product becomes the nearest double, of two the one with an even last
digit (`Unit`, `Nearest`, `Double`), which may be below or above.  One too large for
`int64_t` becomes its least value.  Amounts of tokens are not modelled.  The forms share
no amounts, so that one is followed at a time, until it is left (`LeaveForm`).

### `ConnectionForm`

`config.json`, the nodes in use and the queued tasks of `ReSetSub`, over saves that
succeed or fail, and restarts.  `ReSetSub`'s task is one step here; `NetworkThread` has
it in its parts.

## 3. The runs

| Run | Bounds | Shows |
|---|---|---|
| `network_thread` | 2 types, 2 nodes, 2 requests, 1 reset | types; `RefusedOnlyWhileOutstanding`, `PoolHoldsLiveContexts`, `CallsConfiguredNode`, `ClearHitsOnlyNewerRequests`; `AnswersInOrder` and `ImplementsService` (refinement, without and with liveness), `RefusalEnds` |
| `network_thread_duplicate` | 3 requests, 1 node | violated: `NoDuplicateOutstanding` |
| `accounts` | 2 accounts, 2 passwords, 1 unanswered task or message | types; `StoreSynced`, `KeysFileReadable`, `KeyFileFirst`, `SignOutForgets`, `SessionUsable`, `PasswordAvailable`, `ThrowsOnlyAfterBadLoad`, `CanSignOut`; `SignsIn` (refinement) |
| `accounts_keys_file` | the same, 2 unanswered | violated: `WriteOnlyAfterLoadedOk` |
| `accounts_key_file` | 1 unanswered | violated: `ReportedKeyKept` |
| `accounts_name` | 1 unanswered | violated: `NameKept` |
| `main_window` | starts after the first login; 2 accounts, 4 clicks, 2 tasks outstanding at a click; all lists and kinds of transactions | types; `ViewShowsItsAddress`, `BandwidthOfItsAddress`, `TransactionsOfOneAccount`, `OverlayEnds`, `FormOfSession`, `SignedByOwner`; `SignsIn` (refinement) |
| `main_window_live` | 1 account, 4 clicks, four lists, three views and five kinds | `OverlayGoes` |
| `cold_wallet` | 2 accounts, 3 addresses, 2 logins queued | types; `AddressesKept`, `BookOfSession` |
| `offline_transaction` | a freeze and a vote, 1 directory, 2 accounts of the cold wallet, 2 signings, 2 loads | types; `SignedOnceIsValid`, `SavedKept`, `PaidOncePerLoad` |
| `amounts` | 14 drops a TRX, 5-bit `int`, 11-bit `int64_t`, doubles of 8 binary digits, every balance | `SendWithinBalance`, `FreezeWithinBalance`, `VotesWithinPower`, `ParticipatePrice` |
| `connection_form` | 2 nodes besides the compiled-in ones, 3 tasks queued | types; `LiveIsSaved` |

Bounds.  `MaxRequests`: two requests are one before and one behind the reset, or one
that is made while the other is retried; it takes a third one, of another type, to
reset `lastCallType_` in time for the violation, and the safety properties are proved
for any number.  `MaxResets`: one reset meets requests before, during and after it.
`MaxPending`: one task, or the message that it posted, is enough for it to meet the five
steps of a sign-out, which it does not bound; a second one would meet the first only
through the files and caches, in which the tasks take turns.  `accounts_keys_file` has
two.  The proofs are for any number.  Two accounts are needed to have one whose password
is not that
of the keys file.  `MaxClicks` of `MainWindow`: `main_window` starts where two
clicks have led to a session (`LoggedInInit`); one click is to use it, one to sign out,
one to log in with the other account, one to use that.  `main_window_live` starts with
`Init`: two clicks to log in, two to use the session.  The invariants are proved from
`Init` on and for any number of clicks.
`MaxBusy`: two tasks outstanding when the user clicks; callbacks may add to them.  With
two, one request for transactions overlaps a login but not two of them, so the mixing
that `TransactionsOfOneAccount` excepts (a request accepted twice) does not happen in
the run.  `MaxLogins`: one login that comes while the session of the other is used.
`MaxSignings`, `MaxLoads`: a transaction that is signed, saved, loaded and signed again.
With one directory the signed file replaces the unsigned one, so that no transaction is
executed twice in the run; that takes a second directory, and is covered by the proof
only.  Nothing else bounds how often the user logs in, signs out, saves or ends the
process.  The network model stops when its requests are used up, so its runs do not
check for deadlock; the others never stop, but for `MainWindow`, which has a step
`Rest` for when the clicks are used up and nothing is under way.

Fairness.  `FairSpec` of `NetworkThread`: the network thread always goes on; that a
stub call returns is an assumption about the node, since the wallet sets no deadline.
The UI thread finishes a handler it began.  Callbacks get strong fairness: `GetMessage`
hands out posted messages before input, so a user who keeps clicking does not starve
them.  `LiveSpec` of `MainWindow`: the network thread, the message loop and the timer go
on; the user need not click.

Exceptions in properties are part of what they show: each is a situation that the code
does let happen and that the model reaches.  `OverlayEnds` and `OverlayGoes` except a
spinner shown for a refused RPC (`lost`), `SignedByOwner` a user who changes accounts
while something is under way, `VotesWithinPower` and `FreezeWithinBalance` amounts that
do not fit their width, `SendWithinBalance` and `ParticipatePrice` the amounts for which
doubles are coarser than drops (a balance above `Exact * RateTwos` drops, an amount typed
above a quarter and a price above an eighth of `Exact`) and `ParticipatePrice` the prices
that do not fit `int32`, `AddressesKept` and `BookOfSession` the mishaps,
`SignOutForgets` a login that sets the session while a sign-out is between emptying the
cache and clearing the session, `SessionUsable` and `PasswordAvailable` the other two
mishaps of `Accounts`, `ThrowsOnlyAfterBadLoad` the steps of `load` between storing the
key and caching the password (a sign-out that writes there throws, with the right key
too), `SavedKept` files of one size, `SignedOnceIsValid` votes without a key,
`LiveIsSaved` empty fields.  No doc, comment or test of the repository says otherwise,
so they are no violations but the limits of what holds, and a property does not catch
the hazard that it excepts; `PROJECT.json` says so at each.  `VotesWithinPower` has it that a
vote of 0 passes, as in the code, although the message at `vote_form.cpp` 287 says that
votes must be greater than 0.

### What the violations show

- `NoDuplicateOutstanding`: `RPC_PROC` says "duplicated, abort this one", but between
  the two attempts of a call neither mark is set, and a second request of the type is
  accepted.  It is answered in order like any other, so the effect is an extra call.
- `WriteOnlyAfterLoadedOk`: `key_manager.h` says of `write` "Only use if previously
  loaded ok"; `load` stores the key before it knows that it is right, and the next
  `write` replaces the keys file by one under the other account's password.
- `ReportedKeyKept`: `save` truncates and rewrites the file of every key when one is
  added; a process that ends in between has lost the key of an older account.
- `NameKept`: `clear` erases the account's entry from the keys file and the next
  login writes an empty name in its place.

One thing the models have and no property is about: after a change of account the send
form offers the tokens of the account before as well (`send_form.cpp` 77-79), in amounts
that the new one does not have.  `OnView` keeps them in the form's `tokens`;
`form[f].tokens \subseteq {form[f].label}` does not hold of it.

## 4. The proofs

All theorems hold for every value of the constants, under the `ASSUME`s of the
modules (the constants are distinct from their markers, bounds are natural numbers, the
transactions and directories of `OfflineTransaction` are finitely many).

`NetworkThreadProofs`:
- `TypeCorrect` (`TypeOK`), with `HandlersWellFormed` (together `TypeInv`), which ties
  the place a thread is at to the kind of handler it works on.  The types alone are not
  inductive: the step that switches a node needs to know that the task is a reset with an
  address.
- `PoolIsLive` (`PoolHoldsLiveContexts`): inductive relative to the types.  The
  delicate steps are `Unregister`, which erases whatever is filed under the type, and
  `RegisterAgain`, where `emplace` may keep the context of a newer request.
- `RefusalIsJustified` (`RefusedOnlyWhileOutstanding`): its part about
  `lastCallType_` is inductive by itself, since a handler resets the mark before it is
  over; the part about the pool follows from `PoolIsLive`.
- `CallsConfiguredNodeAlways` (`CallsConfiguredNode`), with `NodesInv`: every queued
  handler finds the nodes it was posted for when it is its turn.  `NodeAt` says what the
  running handler and the resets before a place in the queue make of a node, the last one
  that names it; the resets that leave a node alone are why it is not just the last one.

`NetworkThreadOrder`:
- `OrderIsKept`: the inductive invariant `InOrder`.  The last answer is older than
  every posted callback, these are older than the handler that runs, which is older
  than the queued ones, which are older than the request being posted; a reset counts
  as old as the last request before it.
- `ClearHitsOnlyNewer` (`ClearHitsOnlyNewerRequests`): from `InOrder` and `PoolIsLive`.
- `ImplementsOrder` (`AnswersInOrder`): `NetworkThread` implements `ServiceSafety` of
  `RequestService`.  `Register` and `PostLocal` map to `Accept`, `OnNetCallback` to
  `Answer` (`InOrder` shows that it takes the oldest), every other step stutters.

`AccountsProofs`:
- `TypeCorrect` (`TypeOK`).
- `StoreIsSynced` (`StoreSynced`): the invariant adds what `save` still has to write
  (`SaveProgress`): a key that is neither left nor being written is whole on disk.
- `KeysFileIsReadable` (`KeysFileReadable`): the invariant adds that the key in memory
  belongs to the salt on disk too, and that a salt is only replaced while there is no
  keys file.
- `SignOutDoesForget` (`SignOutForgets`), with `CacheInv`: with nobody logged in, and
  also once signing out has emptied the cache, a key is there decrypted only between the
  step of a task that decrypts it and the one that logs its account in, unless that one
  fell into a sign-out.
- `KeyFileIsFirst` (`KeyFileFirst`): every entry of `m_keyInfo`, in memory and in the
  keys file, describes an account whose key file was opened for writing before.
- `ThrowsOnlyAfterBadLoadAlways` (`ThrowsOnlyAfterBadLoad`), with `MasterInv`: the master
  password is in the cache before `create` makes the key, and while
  `load` has the contents of a file that is no longer there, a `write` that did not end the
  process has found the master password.
- `SessionIsUsable` (`SessionUsable`), with `UsableInv`: a task has made its account able
  to sign, step by step, before it logs it in.
- `PasswordIsAvailable` (`PasswordAvailable`), with `TypedInv` (only typed passwords are
  hashed), `DefaultInv` (a hash in memory or in the file is salted with nothing or with
  the one default password of the file) and `SessionInv` (the hash that the account has
  in memory is in the cache, `Known`, or `load` is about to cache it, `Coming`; so is the one
  that `load` may replace it with, in the file or in what it has read of it, `Covered`).  It
  needs `KeysFileInv`: a file that opens does so with the salt next to it.
- `AccountsSignIn` (`SignsIn`): `TakeTask` maps to `Begin`, `SetSession` to `Found`,
  `Reply` to `Succeed` or `Fail`, a callback of success to `Tell`, `ClearSession` to
  `Leave`, the end of the process to `End`, all other steps stutter, `PostSignedOut` among
  them: the button counts as gone once the session is cleared.  It needs `SearchInv`: a
  task that has not found an account yet has none, so that it is a failure that it
  reports; and `OutInv`: while the user signs out the account bar shows the button and is
  told nothing.
  The counts of posted messages go through `PostedAppend` and `PostedTail`.
- `CanAlwaysSignOut` (`CanSignOut`): proved of `SignIn`'s steps (`ButtonInv`: whoever is
  logged in has the button, or a task is about to report the login, or the account bar
  is still to be told) and carried over by `AccountsSignIn`.

`MainWindowProofs`.  `Line` is what was asked for and not yet answered: the tasks of the
posted callbacks and then the queued ones.  A callback that is posted puts a place
without a task into it, a message that is handled takes the first place away, an RPC
adds a last one (`Inserted`, `Popped`, `Pushed`); the lemmas on them say what that leaves
of facts such as "the last task of these is one of those", once for all handlers.
- `TypeCorrect` (`TypeOK`).
- `ViewShowsItsAddressAlways` (`ViewShowsItsAddress`), with `ViewInv`: the last accepted
  request of a view is for the address that the view has, so that earlier answers are
  replaced.
- `BandwidthOfItsAddressAlways` (`BandwidthOfItsAddress`), with `BandwidthInv`: once no
  request for the account is under way (`Loaded`), the last one for a bandwidth is for the
  address that the form shows.
- `TransactionsOfOneAccountAlways` (`TransactionsOfOneAccount`), with `TakeTurns`: there is
  one request of each direction, the second is asked for when no other is outstanding,
  and the buffer is empty but between the two answers.
- `OverlayEndsAlways` (`OverlayEnds`), with `ShowPosted` and `ShowOwed`: the message that
  shows the spinner, posted or about to be, is followed by what hides it.  Without these
  the spinner could come after its end.
- `FormOfSessionAlways` (`FormOfSession`), with `SessionInv`: either the login is still to
  be announced (`Announcing`), or the balance list of the session was asked for behind the
  forms of earlier sessions (`Settled`).
- `SignedByOwnerAlways` (`SignedByOwner`), with `Sound`: every task under way and every
  form on the screen is of whoever is logged in (`OfSession`, `ContentInv`), a login is
  alone (`LoginAlone`), and there is no way to the login form before the sign-out button
  is there (`BarInv`).
- `WindowSignsIn` (`SignsIn`): `LogIn` maps to `Found`, `PostCallback` of a login to
  `Succeed` or `Fail`, `OnLogin` of a success to `Tell`, `SignOut` to `Leave`; `Begin` is
  the step that brings a login to the head of the queue, `ClickLogin` or `EndTask`.  All
  other handlers stutter, by one lemma (`SignInPlain`) on what they take and ask for.

`ColdWalletProofs`:
- `TypeCorrect` (`TypeOK`), with `Handlers`: where the handler is determines what it
  holds.
- `BookOfSessionAlways` (`BookOfSession`), with `Ownership`: unless accounts were
  switched, the book belongs to the account that was logged in last, and holds nothing
  that was not shown to it but the address being made.
- `AddressesKeptAlways` (`AddressesKept`), with `Retention`: a book that is not empty
  holds all addresses of the account, so that rewriting the file from it loses none.  A
  click while a login loads its keys is the exception `early`; a login that comes between
  the steps of a handler is not one.

`OfflineTransactionProofs`:
- `TypeCorrect` (`TypeOK`).
- `SignedOnceIsValidAlways` (`SignedOnceIsValid`), with `AllSignedRight`: every copy,
  also the one offered for saving, has no signature, a right one, or more than one.
  The lemma `CopiesStep` says that a step makes no copy but a new one or a signed one.
- `SavedKeptAlways` (`SavedKept`), with `SavedThere`: the file is at the path that its
  size names.
- `PaidOncePerLoadAlways` (`PaidOncePerLoad`), with `Accounted`: the versions of a
  transaction with one signature that there are, or were executed, and the unsigned
  copies in the cold wallet's list are together no more than its loads.  A signing turns
  one of the latter into one of the former, a second one into neither.

`ConnectionFormProofs`:
- `TypeCorrect` (`TypeOK`).
- `LiveIsSavedAlways` (`LiveIsSaved`), with `FinalIsSaved`: the last queued change, or the
  nodes in use if there is none, agrees with the file.

`AmountsProofs`, for every rate and every width under `AmountsAssumption` and
`DoublesAssumption` (which the real ones meet: the last places of doubles are powers of
two, `int64_t` holds more than `Exact`, and counts of votes in drops less).  `DivFacts` and
`MulFacts` keep the arithmetic that is not linear out of the other steps.  What a double is
wrong by is `NearestError` (half a last place), and `NearestDouble` (nothing, for what is a
double already); `RoundingError`, `ProductError` and `CutOff` add it up over the steps of a
conversion:
- `SendWithinBalanceAlways` (`SendWithinBalance`), with `SendInv`: the TRX that the form
  shows are those of the balance it was told.  What passes the check is at most a whole
  number of TRX that the balance covers (`ToTrxFacts`), and rounding does not go past a
  whole number (`ToDropCovered`).  What is sent is less than a drop more and less than two
  less than what was typed (`ToDropTyped`).
- `FreezeWithinBalanceAlways` (`FreezeWithinBalance`), with `FreezeInv`: what is frozen is
  the product that was made of the typed amount, in 64 bits.
- `VotesWithinPowerAlways` (`VotesWithinPower`), with `VotesInv`: the votes that wait for
  the answer are a sequence of integers.  The sums are recursive functions.  Facts about
  them for sequences of any length are proved with `LeastNumber` (a set of naturals that is
  not empty has a least element, from the well-foundedness of the naturals), applied to
  the set of the lengths at which the fact fails: `TotalsExist` (the exact sums satisfy
  their recursion), `TotalsGrow` (they do not decrease) and `SumsExact` (if the last exact
  sum fits, no round of the code's loop wraps).
- `ParticipatePriceAlways` (`ParticipatePrice`), with `PriceInv`: a token of this wallet
  has the price that was typed, if its drops fit 32 bits.  The bounds on what is paid are
  `ToDropPrice`, through a quotient and two products.

Only model-checked: liveness (`ImplementsService`, `RefusalEnds`, `OverlayGoes`; fairness
is out of the prover's reach) and the violations.

## 5. Plan

What is left, in this order:

1. `MainWindow`: the addresses the user imports to watch, and the offline forms to freeze
   and to vote.
2. `Amounts`: amounts of tokens, once it is known what their unit is meant to be.

## 6. Not modelled

Layout, painting, menus and QR codes keep no state a property is about.  The crypto
and encoding primitives (scrypt, AES, secp256k1, SHA-3, RLP, Base58) compute on
values out of TLC's reach and are symbolic here.  Generated protobuf code and the
vendored libraries appear only as what the wallet's calls of them do.  They are nearly
all of the repository: the wallet's own code (`wallet/core`, `wallet/gui` and the parts
of `libdevcrypto` it uses) is some 8,000 of 436,000 lines, so that the share of all
lines that the models map stays small however much of the wallet they cover.
`recode`, `kill`, `presaleSecret` and the threads of `newKeyPair` in the key manager are
not called by the wallet.

Memory errors are left out: the lambda that `ShowTransactions` captures by reference and
that outlives it, an info form that is destroyed while its broadcast is outstanding,
the standard containers that two threads change.  So are three smaller things the code
does: `CTokenModifyForm` goes on after a failed check (111), `SaveTransaction` throws if the chosen name is that
of a file (`transaction_manager.cpp` 28), and a broadcast that waits is cancelled by the
next request of another type (`network_thread.cpp` 152) and reported as failed.
