------------------------ MODULE ConnectionFormProofs ------------------------
(***************************************************************************)
(* Proofs about ConnectionForm.  LiveIsSaved says nothing while tasks are  *)
(* queued; what is inductive is that the task queued last, or the live     *)
(* addresses if there is none, leads to what config.json names.            *)
(***************************************************************************)
EXTENDS ConnectionForm, SequenceTheorems, TLAPS

USE ConnectionAssumption

\* The nodes the wallet will talk to when the queued tasks have run.
Final == IF tasks = <<>> THEN live ELSE tasks[Len(tasks)]

\* The addresses `nodes' are those that a start with `file' loads, but for a field
\* that was left empty.
Agree(nodes, file) ==
    \A r \in Roles :
        \/ nodes[r] = Loaded(file)[r]
        \/ file # NoFile /\ file[r] = Blank /\ nodes[r] = Colon

FinalIsSaved == ~failed => Agree(Final, config)

Typed == [Roles -> Nodes \cup {Blank, Wrong}]

-----------------------------------------------------------------------------
\* What Load makes of a well-formed config.json, or of none, is an address per role.
LEMMA LoadedType ==
    ASSUME NEW file \in [Roles -> Nodes \cup {Blank}] \cup {NoFile}
    PROVE  Loaded(file) \in [Roles -> Nodes \cup {Default, Colon}]
BY DEF Loaded, Roles

\* What Save passes to ReSetSub is what it wrote, but for the fields left empty.
LEMMA SavedAgrees ==
    ASSUME NEW typed \in Typed, \A r \in Roles : CheckIPAddress(typed[r])
    PROVE  /\ typed \in [Roles -> Nodes \cup {Blank}]
           /\ [r \in Roles |-> Address(typed[r])] \in [Roles -> Nodes \cup {Colon}]
           /\ Agree([r \in Roles |-> Address(typed[r])], typed)
<1>1. \A r \in Roles : typed[r] \in Nodes \cup {Blank}
  BY DEF Typed, CheckIPAddress
<1>2. typed \in [Roles -> Nodes \cup {Blank}]
  BY <1>1 DEF Typed
<1>3. \A r \in Roles : Address(typed[r]) \in Nodes \cup {Colon}
  BY <1>1 DEF Address
<1>4. ASSUME NEW r \in Roles
      PROVE  \/ Address(typed[r]) = Loaded(typed)[r]
             \/ typed # NoFile /\ typed[r] = Blank /\ Address(typed[r]) = Colon
  BY <1>1, <1>2 DEF Address, Loaded
<1> QED BY <1>2, <1>3, <1>4 DEF Agree

\* The addresses, the file and the queued tasks are well formed: no save writes or
\* passes on an address that CheckIPAddress rejects.
THEOREM TypeCorrect == Spec => []TypeOK
<1>1. Init => TypeOK
  <2>1. Loaded(NoFile) \in [Roles -> Nodes \cup {Default, Colon}]
    BY LoadedType
  <2>2. <<>> \in Seq([Roles -> Nodes \cup {Colon}])
    OBVIOUS
  <2> QED BY <2>1, <2>2 DEF Init, TypeOK
<1>2. TypeOK /\ [Next]_vars => TypeOK'
  <2> SUFFICES ASSUME TypeOK, [Next]_vars PROVE TypeOK'
    OBVIOUS
  <2>1. ASSUME NEW typed \in Typed, Save(typed) PROVE TypeOK'
    <3> DEFINE address == [r \in Roles |-> Address(typed[r])]
    <3>1. typed \in [Roles -> Nodes \cup {Blank}] /\ address \in [Roles -> Nodes \cup {Colon}]
      BY <2>1, SavedAgrees DEF Save
    <3>2. tasks' = tasks \/ tasks' = Append(tasks, address)
      BY <2>1 DEF Save
    <3>3. tasks' \in Seq([Roles -> Nodes \cup {Colon}])
      <4> HIDE DEF address
      <4> QED BY <3>1, <3>2, AppendProperties DEF TypeOK
    <3>4. /\ config' \in [Roles -> Nodes \cup {Blank}] \cup {NoFile}
          /\ live' = live /\ failed' \in BOOLEAN
      BY <2>1, <3>1 DEF Save, TypeOK
    <3> QED BY <3>3, <3>4 DEF TypeOK
  <2>2. CASE ReSetSub
    <3>1. /\ Head(tasks) \in [Roles -> Nodes \cup {Colon}]
          /\ Tail(tasks) \in Seq([Roles -> Nodes \cup {Colon}])
      BY <2>2 DEF ReSetSub, TypeOK
    <3> QED BY <2>2, <3>1 DEF ReSetSub, Reset, TypeOK
  <2>3. CASE Restart
    BY <2>3, LoadedType DEF Restart, TypeOK
  <2>4. CASE UNCHANGED vars
    BY <2>4 DEF vars, TypeOK
  <2> QED BY <2>1, <2>2, <2>3, <2>4 DEF Next, Typed
<1> QED BY <1>1, <1>2, PTL DEF Spec

\* After any history of saves, starts and tasks that have run, the nodes that are used
\* are the ones that the next start will use, but for a failed save or an empty field.
THEOREM LiveIsSavedAlways == Spec => []LiveIsSaved
<1>1. Init => FinalIsSaved
  BY DEF Init, FinalIsSaved, Final, Agree
<1>2. TypeOK /\ FinalIsSaved /\ [Next]_vars => FinalIsSaved'
  <2> SUFFICES ASSUME TypeOK, FinalIsSaved, [Next]_vars, ~failed' PROVE Agree(Final', config')
    BY DEF FinalIsSaved, Agree
  <2>1. ASSUME NEW typed \in Typed, Save(typed) PROVE Agree(Final', config')
    <3> DEFINE address == [r \in Roles |-> Address(typed[r])]
    <3>1. config' = typed /\ tasks' = Append(tasks, address)
      BY <2>1 DEF Save
    <3>2. Final' = address
      <4>1. address \in [Roles -> Nodes \cup {Colon}]
        BY <2>1, SavedAgrees DEF Save
      <4> HIDE DEF address
      <4> QED BY <3>1, <4>1, AppendProperties DEF Final, TypeOK
    <3>3. Agree(address, typed)
      BY <2>1, SavedAgrees DEF Save
    <3> HIDE DEF address
    <3> QED BY <3>1, <3>2, <3>3
  <2>2. CASE ReSetSub
    <3>1. Final' = Final
      <4> DEFINE S == [Roles -> Nodes \cup {Colon}]
      <4>1. tasks \in Seq(S) /\ tasks # <<>> /\ tasks' = Tail(tasks) /\ live' = Head(tasks)
        BY <2>2 DEF ReSetSub, Reset, TypeOK
      <4> HIDE DEF S
      <4>2. CASE Len(tasks) = 1
        <5>1. Tail(tasks) = <<>> /\ Head(tasks) = tasks[Len(tasks)]
          BY <4>1, <4>2
        <5> QED BY <4>1, <5>1 DEF Final
      <4>3. CASE Len(tasks) # 1
        <5>0. Len(tasks) \in Nat \ {0}
          BY <4>1, EmptySeq
        <5>1. Len(tasks) \in Nat /\ Len(tasks) > 1
          <6> DEFINE n == Len(tasks)
          <6>1. n \in Nat \ {0} /\ n # 1
            BY <4>3, <5>0
          <6> HIDE DEF n
          <6>2. n > 1
            BY <6>1
          <6> QED BY <6>1, <6>2 DEF n
        <5>2. Len(Tail(tasks)) = Len(tasks) - 1 /\ Tail(tasks)[Len(tasks) - 1] = tasks[Len(tasks)]
          BY <4>1, <5>1
        <5>3. Tail(tasks) # <<>>
          BY <4>1, <5>1, <5>2
        <5> QED BY <4>1, <5>2, <5>3 DEF Final
      <4> QED BY <4>2, <4>3
    <3> QED BY <2>2, <3>1 DEF ReSetSub, FinalIsSaved
  <2>3. CASE Restart
    BY <2>3 DEF Restart, Final, Agree
  <2>4. CASE UNCHANGED vars
    BY <2>4 DEF vars, FinalIsSaved, Final
  <2> QED BY <2>1, <2>2, <2>3, <2>4 DEF Next, Typed
<1>3. FinalIsSaved => LiveIsSaved
  BY DEF FinalIsSaved, Final, Agree, LiveIsSaved
<1> QED BY <1>1, <1>2, <1>3, TypeCorrect, PTL DEF Spec
=============================================================================
