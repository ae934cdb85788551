--------------------------- MODULE ConnectionForm ---------------------------
(***************************************************************************)
(* The nodes the wallet talks to: CConnectionForm saves them to            *)
(* config.json and has the network thread change over to them (ReSetSub),  *)
(* and CNetworkThread::Load reads them when the process starts.            *)
(*                                                                         *)
(* An address stands for its IP and its port.  A field that is left empty  *)
(* is passed on, as the address ":".                                       *)
(***************************************************************************)
EXTENDS Sequences, Naturals

CONSTANTS
    Nodes,          \* Addresses that can be typed.
    Default,        \* The compiled-in addresses, full_address_port_ and solidity_address_port_.
    Blank,          \* Neither an IP nor a port is typed.
    Wrong,          \* Only one of them is, or what is no IP.
    Colon,          \* The address ":"
    NoFile,         \* There is no config.json, or it does not parse.
    MaxTasks        \* Bound on the ReSetSub tasks queued.

Roles == {"full", "solidity"}

ASSUME ConnectionAssumption ==
    /\ {Blank, Wrong, Colon, Default} \cap Nodes = {}
    /\ Blank # Wrong /\ Colon # Default
    /\ NoFile \notin [Roles -> Nodes \cup {Blank}]
    /\ MaxTasks \in Nat

VARIABLES
    config,     \* config.json
    live,       \* full_address_port_ and solidity_address_port_, and the stubs made of them
    tasks,      \* the tasks ReSetSub posted
    failed      \* history: a save has failed

vars == <<config, live, tasks, failed>>

\* CNetworkThread::Load: what config.json names, the compiled-in node otherwise.
Loaded(file) ==
    [r \in Roles |-> IF file # NoFile /\ file[r] # Blank THEN file[r] ELSE Default]

Init ==
    /\ config = NoFile
    /\ live = Loaded(config)
    /\ tasks = <<>>
    /\ failed = FALSE

-----------------------------------------------------------------------------
CheckIPAddress_None(t) == TRUE
CheckIPAddress(t) == t # Wrong

Address(t) == IF t = Blank THEN Colon ELSE t

\* BTN_SAVE and Save.  The file is written and the thread changes over, or the file
\* is as it was or spoilt and it does not.
Save(typed) ==
    /\ \A r \in Roles : CheckIPAddress(typed[r])
    /\ \/ /\ Len(tasks) < MaxTasks
          /\ config' = typed
          /\ tasks' = Append(tasks, [r \in Roles |-> Address(typed[r])])
          /\ UNCHANGED failed
       \/ /\ config' \in {config, NoFile}
          /\ failed' = TRUE
          /\ UNCHANGED tasks
    /\ UNCHANGED live

\* ReSetSub's task.  It leaves alone what it is given as empty, which ":" is not.
Reset_FullOnly(address) == [live EXCEPT !["full"] = address["full"]]
Reset(address) == address

ReSetSub ==
    /\ tasks # <<>>
    /\ live' = Reset(Head(tasks))
    /\ tasks' = Tail(tasks)
    /\ UNCHANGED <<config, failed>>

\* The process ends, at any time, and is started again.
Restart ==
    /\ live' = Loaded(config)
    /\ tasks' = <<>>
    /\ UNCHANGED <<config, failed>>

Next ==
    \/ \E typed \in [Roles -> Nodes \cup {Blank, Wrong}] : Save(typed)
    \/ ReSetSub
    \/ Restart

Spec == Init /\ [][Next]_vars

-----------------------------------------------------------------------------
TypeOK ==
    /\ config \in [Roles -> Nodes \cup {Blank}] \cup {NoFile}
    /\ live \in [Roles -> Nodes \cup {Default, Colon}]
    /\ tasks \in Seq([Roles -> Nodes \cup {Colon}])
    /\ failed \in BOOLEAN

\* Once the queued tasks have run, the wallet talks to the nodes it will talk to after
\* it is started again, however many saves and starts there were.  The exceptions: a
\* save failed, and a field was left empty, which is the compiled-in node to the next
\* start but no node at all (":") to the thread that runs.
LiveIsSaved ==
    tasks = <<>> /\ ~failed =>
        \A r \in Roles :
            \/ live[r] = Loaded(config)[r]
            \/ config # NoFile /\ config[r] = Blank /\ live[r] = Colon
=============================================================================
