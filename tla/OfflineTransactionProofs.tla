---------------------- MODULE OfflineTransactionProofs ----------------------
(***************************************************************************)
(* Proofs about OfflineTransaction, for any transactions, directories and  *)
(* number of signings.  All rest on one lemma, CopiesStep: a step makes no *)
(* copy of a transaction that was not there before, but for the one that   *)
(* the node creates and the one that is signed.                            *)
(***************************************************************************)
EXTENDS OfflineTransaction, FiniteSetTheorems, SequenceTheorems, TLAPS

USE OfflineAssumption

-----------------------------------------------------------------------------
\* Every copy there is, the one that is offered for saving included.
AllCopies == Copies \cup ({offered} \ {None})

Fresh(x) == [tx |-> x, stamp |-> 0, sigs |-> <<>>]

\* The row whose form the cold wallet shows, and what it becomes when it is signed.
Shown  == rows["cold"][open["cold"]]
Signed == SignTransaction(Shown, LookupPrivate(Shown.tx))

\* What ClickSign requires to sign.
MaySign == open["cold"] # None /\ (LookupPrivate(Shown.tx) # None \/ KindOf[Shown.tx] = "vote")

\* TypeOK without what it says of copies.
ShapeOK ==
    /\ DOMAIN files = Paths
    /\ DOMAIN rows = Wallets /\ DOMAIN open = Wallets /\ votes \in [Wallets -> BOOLEAN]
    /\ \A w \in Wallets :
        /\ DOMAIN rows[w] \subseteq Paths
        /\ open[w] # None => open[w] \in DOMAIN rows[w]
    /\ book \subseteq Owners
    /\ clock \in Nat
    /\ paid \subseteq [tx : Txs, stamp : Nat]
    /\ created \subseteq Txs
    /\ saved \subseteq Txs \X Dirs /\ failed \subseteq Txs \X Dirs
    /\ loads \in [Txs -> Nat]

CopiesOK == \A c \in AllCopies : IsCopy(c)

\* Where copies are.
LEMMA CopiesAre ==
    ASSUME NEW c
    PROVE  c \in AllCopies <=>
             \/ c # None /\ \E p \in Paths : files[p] = c
             \/ \E w \in Wallets : \E p \in DOMAIN rows[w] : rows[w][p] = c
             \/ c \in sent
             \/ c # None /\ offered = c
<1>1. c \in InFiles <=> c # None /\ \E p \in Paths : files[p] = c
  BY DEF InFiles
<1>2. c \in InRows <=> \E w \in Wallets : \E p \in DOMAIN rows[w] : rows[w][p] = c
  BY DEF InRows
<1> QED BY <1>1, <1>2 DEF AllCopies, Copies

\* The same of the next state.
LEMMA CopiesWillBe ==
    ASSUME NEW c
    PROVE  c \in AllCopies' <=>
             \/ c # None /\ \E p \in Paths : files'[p] = c
             \/ \E w \in Wallets : \E p \in DOMAIN rows'[w] : rows'[w][p] = c
             \/ c \in sent'
             \/ c # None /\ offered' = c
<1>1. c \in InFiles' <=> c # None /\ \E p \in Paths : files'[p] = c
  BY DEF InFiles
<1>2. c \in InRows' <=> \E w \in Wallets : \E p \in DOMAIN rows'[w] : rows'[w][p] = c
  BY DEF InRows
<1> QED BY <1>1, <1>2 DEF AllCopies, Copies

LEMMA TypeIsShapeAndCopies == TypeOK <=> ShapeOK /\ CopiesOK
BY CopiesAre DEF TypeOK, ShapeOK, CopiesOK

LEMMA PathsFinite == IsFiniteSet(Paths)
<1> DEFINE Sizes == {SizeOf[x] : x \in Txs}
<1>1. SizeOf \in Surjection(Txs, Sizes)
  BY DEF Surjection
<1>2. IsFiniteSet(Sizes)
  BY <1>1, FS_Surjection
<1> QED BY <1>2, FS_Product DEF Paths

-----------------------------------------------------------------------------
\* Saving puts nothing into the files but the copy that is saved.
LEMMA SaveStep ==
    ASSUME NEW c, NEW d \in Dirs, Save(c, d), DOMAIN files = Paths
    PROVE  /\ DOMAIN files' = Paths
           /\ \A p \in Paths : files'[p] \in {files[p], c, None}
BY DEF Save

\* The copies of a step were there before, or are created or signed by it.
LEMMA CopiesStep ==
    ASSUME ShapeOK, [Next]_vars
    PROVE  \A c \in AllCopies' :
             \/ c \in AllCopies
             \/ \E x \in Txs : Create(x) /\ c = Fresh(x)
             \/ ClickSign /\ MaySign /\ c = Signed
<1> SUFFICES ASSUME NEW c \in AllCopies', c \notin AllCopies
             PROVE  \/ \E x \in Txs : Create(x) /\ c = Fresh(x)
                    \/ ClickSign /\ MaySign /\ c = Signed
  OBVIOUS
<1>1. ASSUME NEW x \in Txs, Create(x) PROVE c = Fresh(x)
  BY <1>1, CopiesAre, CopiesWillBe DEF Create, Fresh
<1>2. ASSUME NEW d \in Dirs, ClickSave(d) PROVE FALSE
  <2>1. \A p \in Paths : files'[p] \in {files[p], offered, None}
    BY <1>2, SaveStep DEF ClickSave, ShapeOK
  <2>2. rows' = rows /\ sent' = sent /\ offered' = None
    BY <1>2 DEF ClickSave
  <2> QED BY <2>1, <2>2, CopiesAre, CopiesWillBe
<1>3. ASSUME NEW w \in Wallets, NEW chosen \in SUBSET Paths, NEW asVotes \in BOOLEAN,
             LoadDatas(w, chosen, asVotes)
      PROVE  FALSE
  <2> DEFINE ps == Parsed(chosen)
  <2>1. /\ rows' = [rows EXCEPT ![w] = [p \in ps |-> files[p]]]
        /\ files' = files /\ sent' = sent /\ (offered' = offered \/ offered' = None)
    BY <1>3 DEF LoadDatas
  <2>2. \A p \in ps : p \in Paths /\ files[p] # None
    BY DEF Parsed
  <2>3. \A v \in Wallets : rows'[v] = IF v = w THEN [p \in ps |-> files[p]] ELSE rows[v]
    BY <2>1 DEF ShapeOK
  <2>4. ASSUME NEW v \in Wallets, NEW p \in DOMAIN rows'[v] PROVE rows'[v][p] \in AllCopies
    <3>1. CASE v = w
      <4>1. p \in ps /\ rows'[v][p] = files[p]
        <5>1. rows'[v] = [q \in ps |-> files[q]]
          BY <2>3, <3>1
        <5> HIDE DEF ps
        <5> QED BY <2>4, <5>1
      <4> QED BY <2>2, <4>1, CopiesAre
    <3>2. CASE v # w
      BY <2>3, <2>4, <3>2, CopiesAre
    <3> QED BY <3>1, <3>2
  <2>5. \/ c # None /\ \E p \in Paths : files[p] = c
        \/ \E v \in Wallets : \E p \in DOMAIN rows'[v] : rows'[v][p] = c
        \/ c \in sent
        \/ c # None /\ offered = c
    BY <2>1, CopiesWillBe
  <2> QED BY <2>4, <2>5, CopiesAre
<1>4. ASSUME NEW w \in Wallets, NEW p \in Paths, OnItemClick(w, p) PROVE FALSE
  BY <1>4, CopiesAre, CopiesWillBe DEF OnItemClick
<1>5. ASSUME NEW w \in Wallets, Close(w) PROVE FALSE
  BY <1>5, CopiesAre, CopiesWillBe DEF Close, hot
<1>6. ASSUME NEW w \in Wallets, Restart(w) PROVE FALSE
  <2>1. \A v \in Wallets : rows'[v] = rows[v] \/ DOMAIN rows'[v] = {}
    BY <1>6 DEF Restart, Empty, ShapeOK
  <2>2. files' = files /\ sent' = sent /\ (offered' = offered \/ offered' = None)
    BY <1>6 DEF Restart
  <2> QED BY <2>1, <2>2, CopiesAre, CopiesWillBe
<1>7. ASSUME NEW b \in Books, Login(b) PROVE FALSE
  BY <1>7, CopiesAre, CopiesWillBe DEF Login, hot
<1>8. ASSUME ClickSign PROVE MaySign /\ c = Signed
  <2>1. CASE open["cold"] # None /\ SignAndSave(Shown) /\ MaySign
    <3>1. /\ files' = files \/ \E d \in Dirs : Save(Signed, d)
          /\ rows' = [rows EXCEPT !["cold"][open["cold"]] = Signed]
      BY <2>1 DEF SignAndSave, Signed
    <3>2. sent' = sent /\ offered' = offered
      BY <1>8 DEF ClickSign, hot
    <3>3. \A p \in Paths : files'[p] \in {files[p], Signed, None}
      BY <3>1, SaveStep DEF ShapeOK
    <3>4. \A w \in Wallets : \A p \in DOMAIN rows'[w] :
             p \in DOMAIN rows[w] /\ rows'[w][p] \in {rows[w][p], Signed}
      <4> HIDE DEF Signed
      <4> QED BY <3>1 DEF ShapeOK, Wallets
    <3> QED BY <2>1, <3>2, <3>3, <3>4, CopiesAre, CopiesWillBe
  <2>2. CASE UNCHANGED <<files, rows>>
    BY <1>8, <2>2, CopiesAre, CopiesWillBe DEF ClickSign, hot
  <2> QED BY <1>8, <2>1, <2>2 DEF ClickSign, Shown, MaySign
<1>9. ASSUME ClickBroadcast PROVE FALSE
  <2>1. rows["hot"][open["hot"]] \in AllCopies
    BY <1>9, CopiesAre DEF ClickBroadcast, ShapeOK, Wallets
  <2> QED BY <1>9, <2>1, CopiesAre, CopiesWillBe DEF ClickBroadcast
<1>10. ASSUME NEW b \in sent, Execute(b) PROVE FALSE
  BY <1>10, CopiesAre, CopiesWillBe DEF Execute
<1>11. ASSUME UNCHANGED vars PROVE FALSE
  BY <1>11, CopiesAre, CopiesWillBe DEF vars
<1> QED BY <1>1, <1>2, <1>3, <1>4, <1>5, <1>6, <1>7, <1>8, <1>9, <1>10, <1>11 DEF Next

-----------------------------------------------------------------------------
\* What is shown is a copy.
LEMMA ShownIsCopy ==
    ASSUME ShapeOK, open["cold"] # None
    PROVE  Shown \in AllCopies
BY CopiesAre DEF ShapeOK, Wallets, Shown

\* Signing stamps a copy and adds one signature to it.
LEMMA SignedType ==
    ASSUME IsCopy(Shown), ShapeOK
    PROVE  /\ IsCopy(Signed)
           /\ Signed.tx = Shown.tx
           /\ Len(Signed.sigs) = Len(Shown.sigs) + 1
           /\ Shown.sigs = <<>> =>
                 /\ Signed.sigs = <<[stamp |-> clock + 1, by |-> LookupPrivate(Shown.tx)]>>
                 /\ Signed.stamp = clock + 1
<1> DEFINE key == LookupPrivate(Shown.tx)
           sig == [stamp |-> clock + 1, by |-> key]
           Sig == [stamp : Nat, by : Owners \cup {None}]
<1>1. key \in Owners \cup {None}
  BY DEF IsCopy, LookupPrivate
<1>2. sig \in Sig
  BY <1>1 DEF ShapeOK
<1>3. Shown.sigs \in Seq(Sig)
  BY DEF IsCopy
<1>4. Signed = [Shown EXCEPT !.stamp = clock + 1, !.sigs = Append(Shown.sigs, sig)]
  BY DEF Signed, SignTransaction, IsCopy
<1> HIDE DEF sig, Sig
<1>5. /\ Append(Shown.sigs, sig) \in Seq(Sig)
      /\ Len(Append(Shown.sigs, sig)) = Len(Shown.sigs) + 1
  BY <1>2, <1>3, AppendProperties
<1>6. Shown.sigs = <<>> => Append(Shown.sigs, sig) = <<sig>>
  <2>1. Append(<<>>, sig) = <<sig>>
    OBVIOUS
  <2> QED BY <2>1
<1>7. IsCopy(Signed) /\ Signed.tx = Shown.tx
  <2>1. Shown \in [tx : Txs, stamp : Nat, sigs : Seq(Sig)] /\ clock + 1 \in Nat
    BY DEF IsCopy, ShapeOK, Sig
  <2>2. Signed \in [tx : Txs, stamp : Nat, sigs : Seq(Sig)] /\ Signed.tx = Shown.tx
    BY <1>4, <1>5, <2>1
  <2> QED BY <2>2 DEF IsCopy, Sig
<1>8. Signed.sigs = Append(Shown.sigs, sig) /\ Signed.stamp = clock + 1
  BY <1>4 DEF IsCopy
<1> QED BY <1>5, <1>6, <1>7, <1>8 DEF sig

LEMMA FreshType ==
    ASSUME NEW x \in Txs
    PROVE  IsCopy(Fresh(x)) /\ Fresh(x).tx = x /\ Fresh(x).sigs = <<>>
BY DEF IsCopy, Fresh

\* What a save records.
LEMMA SaveType ==
    ASSUME NEW c, IsCopy(c), NEW d \in Dirs, Save(c, d), ShapeOK
    PROVE  saved' \subseteq Txs \X Dirs /\ failed' \subseteq Txs \X Dirs
BY DEF IsCopy, Save, ShapeOK

\* Nothing but a transaction is in any file, list, form or call: what does not parse is
\* left out, and an open form always has its row.
THEOREM TypeCorrect == Spec => []TypeOK
<1>1. Init => ShapeOK
  BY DEF Init, ShapeOK, Empty, Wallets
<1>2. Init => CopiesOK
  BY CopiesAre DEF Init, CopiesOK, Empty
<1>3. ShapeOK /\ CopiesOK /\ [Next]_vars => CopiesOK'
  <2> SUFFICES ASSUME ShapeOK, CopiesOK, [Next]_vars, NEW c \in AllCopies' PROVE IsCopy(c)
    BY DEF CopiesOK
  <2>1. CASE c \in AllCopies
    BY <2>1 DEF CopiesOK
  <2>2. CASE \E x \in Txs : Create(x) /\ c = Fresh(x)
    BY <2>2, FreshType
  <2>3. CASE ClickSign /\ MaySign /\ c = Signed
    BY <2>3, ShownIsCopy, SignedType DEF CopiesOK, MaySign
  <2> QED BY <2>1, <2>2, <2>3, CopiesStep
<1>4. ShapeOK /\ CopiesOK /\ [Next]_vars => ShapeOK'
  <2> SUFFICES ASSUME ShapeOK, CopiesOK, [Next]_vars PROVE ShapeOK'
    OBVIOUS
  <2>1. ASSUME NEW x \in Txs, Create(x) PROVE ShapeOK'
    BY <2>1 DEF Create, ShapeOK
  <2>2. ASSUME NEW d \in Dirs, ClickSave(d) PROVE ShapeOK'
    <3>1. IsCopy(offered)
      BY <2>2, CopiesAre DEF ClickSave, CopiesOK
    <3>2. DOMAIN files' = Paths /\ saved' \subseteq Txs \X Dirs /\ failed' \subseteq Txs \X Dirs
      BY <2>2, <3>1, SaveStep, SaveType DEF ClickSave, ShapeOK
    <3> QED BY <2>2, <3>2 DEF ClickSave, ShapeOK
  <2>3. ASSUME NEW w \in Wallets, NEW chosen \in SUBSET Paths, NEW asVotes \in BOOLEAN,
               LoadDatas(w, chosen, asVotes)
        PROVE  ShapeOK'
    <3>1. Parsed(chosen) \subseteq Paths
      BY DEF Parsed
    <3>2. loads' \in [Txs -> Nat]
      <4> DEFINE Loaded(x) == {p \in Parsed(chosen) : files[p] # None /\ files[p].tx = x}
      <4>1. \A x \in Txs : Cardinality(Loaded(x)) \in Nat
        BY <3>1, PathsFinite, FS_Subset, FS_CardinalityType
      <4>2. loads' = loads \/ loads' = [x \in Txs |-> loads[x] + Cardinality(Loaded(x))]
        BY <2>3 DEF LoadDatas
      <4> HIDE DEF Loaded
      <4> QED BY <4>1, <4>2 DEF ShapeOK
    <3>3. /\ DOMAIN rows' = Wallets /\ DOMAIN open' = Wallets /\ votes' \in [Wallets -> BOOLEAN]
          /\ \A v \in Wallets :
                /\ DOMAIN rows'[v] \subseteq Paths
                /\ open'[v] # None => open'[v] \in DOMAIN rows'[v]
      BY <2>3, <3>1 DEF LoadDatas, ShapeOK
    <3> QED BY <2>3, <3>2, <3>3 DEF LoadDatas, ShapeOK
  <2>4. ASSUME NEW w \in Wallets, NEW p \in Paths, OnItemClick(w, p) PROVE ShapeOK'
    BY <2>4 DEF OnItemClick, ShapeOK, hist
  <2>5. ASSUME NEW w \in Wallets, Close(w) PROVE ShapeOK'
    BY <2>5 DEF Close, ShapeOK, hist
  <2>6. ASSUME NEW w \in Wallets, Restart(w) PROVE ShapeOK'
    BY <2>6 DEF Restart, Empty, ShapeOK, hist
  <2>7. ASSUME NEW b \in Books, Login(b) PROVE ShapeOK'
    BY <2>7 DEF Login, ShapeOK, hist
  <2>8. CASE ClickSign
    <3>1. CASE UNCHANGED <<files, rows, clock, saved, failed>> /\ open' = [open EXCEPT !["cold"] = None]
      BY <2>8, <3>1 DEF ClickSign, ShapeOK
    <3>2. CASE open["cold"] # None /\ SignAndSave(Shown)
      <4>1. /\ clock' = clock + 1
            /\ rows' = [rows EXCEPT !["cold"][open["cold"]] = Signed]
            /\ \/ (\E d \in Dirs : Save(Signed, d)) /\ open' = [open EXCEPT !["cold"] = None]
               \/ UNCHANGED <<files, saved, failed, open>>
        BY <3>2 DEF SignAndSave, Signed
      <4>2. IsCopy(Signed)
        BY <3>2, ShownIsCopy, SignedType DEF CopiesOK
      <4>3. DOMAIN files' = Paths /\ saved' \subseteq Txs \X Dirs /\ failed' \subseteq Txs \X Dirs
        BY <4>1, <4>2, SaveStep, SaveType DEF ShapeOK
      <4>4. DOMAIN rows' = Wallets /\ \A v \in Wallets : DOMAIN rows'[v] = DOMAIN rows[v]
        <5> HIDE DEF Signed
        <5> QED BY <4>1 DEF ShapeOK, Wallets
      <4>5. DOMAIN open' = Wallets /\ \A v \in Wallets : open'[v] \in {open[v], None}
        BY <4>1 DEF ShapeOK
      <4> QED BY <2>8, <4>1, <4>3, <4>4, <4>5 DEF ClickSign, ShapeOK
    <3> QED BY <2>8, <3>1, <3>2 DEF ClickSign, Shown
  <2>9. CASE ClickBroadcast
    BY <2>9 DEF ClickBroadcast, ShapeOK, hist
  <2>10. ASSUME NEW c \in sent, Execute(c) PROVE ShapeOK'
    <3>1. IsCopy(c)
      BY CopiesAre DEF CopiesOK
    <3> QED BY <2>10, <3>1 DEF Execute, Version, IsCopy, ShapeOK, hist
  <2>11. CASE UNCHANGED vars
    BY <2>11 DEF vars, ShapeOK
  <2> QED BY <2>1, <2>2, <2>3, <2>4, <2>5, <2>6, <2>7, <2>8, <2>9, <2>10, <2>11 DEF Next
<1> QED BY <1>1, <1>2, <1>3, <1>4, TypeIsShapeAndCopies, PTL DEF Spec

-----------------------------------------------------------------------------
SignedRight(c) == Len(c.sigs) = 1 => Valid(c) \/ (KindOf[c.tx] = "vote" /\ c.sigs[1].by = None)

AllSignedRight == \A c \in AllCopies : SignedRight(c)

\* A transaction that was signed once is what the network executes, wherever it has lain
\* since: no step changes a signed copy or signs with another key than the owner's, but
\* for a vote whose owner has none.
THEOREM SignedOnceIsValidAlways == Spec => []SignedOnceIsValid
<1>1. Init => AllSignedRight
  BY CopiesAre DEF Init, AllSignedRight, Empty
<1>2. TypeOK /\ AllSignedRight /\ [Next]_vars => AllSignedRight'
  <2> SUFFICES ASSUME TypeOK, AllSignedRight, [Next]_vars, NEW c \in AllCopies' PROVE SignedRight(c)
    BY DEF AllSignedRight
  <2>0. ShapeOK /\ CopiesOK
    BY TypeIsShapeAndCopies
  <2>1. CASE c \in AllCopies
    BY <2>1 DEF AllSignedRight
  <2>2. CASE \E x \in Txs : Create(x) /\ c = Fresh(x)
    <3>1. c.sigs = <<>>
      BY <2>2, FreshType
    <3> QED BY <3>1 DEF SignedRight
  <2>3. CASE ClickSign /\ MaySign /\ c = Signed
    <3>1. IsCopy(Shown)
      BY <2>0, <2>3, ShownIsCopy DEF CopiesOK, MaySign
    <3> SUFFICES ASSUME Len(c.sigs) = 1 PROVE Valid(c) \/ (KindOf[c.tx] = "vote" /\ c.sigs[1].by = None)
      BY DEF SignedRight
    <3>2. Shown.sigs = <<>>
      <4>1. Len(Shown.sigs) = 0
        BY <2>0, <2>3, <3>1, SignedType DEF IsCopy
      <4> QED BY <3>1, <4>1 DEF IsCopy
    <3>3. /\ c.sigs = <<[stamp |-> clock + 1, by |-> LookupPrivate(c.tx)]>>
          /\ c.stamp = clock + 1 /\ c.tx = Shown.tx
      BY <2>0, <2>3, <3>1, <3>2, SignedType
    <3>4. CASE LookupPrivate(c.tx) = None
      <4>1. c.sigs[1].by = None
        BY <3>3, <3>4
      <4> QED BY <2>3, <3>3, <3>4, <4>1 DEF MaySign
    <3>5. CASE LookupPrivate(c.tx) # None
      <4>1. LookupPrivate(c.tx) = OwnerOf[c.tx]
        BY <3>5 DEF LookupPrivate
      <4> QED BY <3>3, <4>1 DEF Valid
    <3> QED BY <3>4, <3>5
  <2> QED BY <2>0, <2>1, <2>2, <2>3, CopiesStep
<1>3. AllSignedRight => SignedOnceIsValid
  BY DEF AllSignedRight, SignedRight, SignedOnceIsValid, AllCopies
<1> QED BY <1>1, <1>2, <1>3, TypeCorrect, PTL DEF Spec

-----------------------------------------------------------------------------
\* SavedKept with the path at which the transaction is.
SavedThere ==
    \A s \in saved :
        \/ files[<<s[2], SizeOf[s[1]]>>] # None /\ files[<<s[2], SizeOf[s[1]]>>].tx = s[1]
        \/ \E t \in (saved \ {s}) \cup failed : t[2] = s[2] /\ SizeOf[t[1]] = SizeOf[s[1]]

\* A save keeps, or accounts for, whatever was saved before.
LEMMA SaveKeeps ==
    ASSUME ShapeOK, SavedThere, NEW c, IsCopy(c), NEW d \in Dirs, Save(c, d)
    PROVE  SavedThere'
<1> DEFINE path == <<d, SizeOf[c.tx]>>
<1>1. c.tx \in Txs
  BY DEF IsCopy
<1>2. path \in Paths
  BY <1>1 DEF Paths
<1> SUFFICES ASSUME NEW s \in saved'
             PROVE  \/ files'[<<s[2], SizeOf[s[1]]>>] # None /\ files'[<<s[2], SizeOf[s[1]]>>].tx = s[1]
                    \/ \E t \in (saved' \ {s}) \cup failed' : t[2] = s[2] /\ SizeOf[t[1]] = SizeOf[s[1]]
  BY DEF SavedThere
<1>3. saved \subseteq saved' /\ failed \subseteq failed'
  BY DEF Save
<1>4. \A q \in Paths : q # path => files'[q] = files[q]
  BY DEF Save, Name, ShapeOK
<1>5. CASE s = <<c.tx, d>>
  <2>1. CASE s \in failed'
    BY <1>5, <2>1
  <2>2. CASE s \notin failed'
    <3>1. files' = [files EXCEPT ![path] = c]
      BY <1>5, <2>2 DEF Save, Name
    <3>2. files'[path] = c
      BY <1>2, <3>1 DEF ShapeOK
    <3> QED BY <1>5, <3>2
  <2> QED BY <2>1, <2>2
<1>6. CASE s # <<c.tx, d>>
  <2>1. s \in saved
    BY <1>6 DEF Save
  <2>2. CASE \E t \in (saved \ {s}) \cup failed : t[2] = s[2] /\ SizeOf[t[1]] = SizeOf[s[1]]
    BY <1>3, <2>2
  <2>3. CASE <<s[2], SizeOf[s[1]]>> # path
    <3>1. <<s[2], SizeOf[s[1]]>> \in Paths
      BY <2>1 DEF ShapeOK, Paths
    <3> QED BY <1>3, <1>4, <2>1, <2>3, <3>1 DEF SavedThere
  <2>4. CASE <<s[2], SizeOf[s[1]]>> = path
    <3>1. s[2] = d /\ SizeOf[s[1]] = SizeOf[c.tx]
      BY <2>4
    <3>2. <<c.tx, d>> \in saved' \cup failed'
      BY DEF Save
    <3>3. <<c.tx, d>> \in (saved' \ {s}) \cup failed'
      BY <1>6, <3>2
    <3> QED BY <3>1, <3>3
  <2> QED BY <2>2, <2>3, <2>4
<1> QED BY <1>5, <1>6

\* A saved transaction is where it was saved to unless one of its size, or a failed save
\* of one of its size, came after it.
THEOREM SavedKeptAlways == Spec => []SavedKept
<1>1. Init => SavedThere
  BY DEF Init, SavedThere
<1>2. TypeOK /\ SavedThere /\ [Next]_vars => SavedThere'
  <2> SUFFICES ASSUME TypeOK, SavedThere, [Next]_vars PROVE SavedThere'
    OBVIOUS
  <2>0. ShapeOK /\ CopiesOK
    BY TypeIsShapeAndCopies
  <2>1. CASE UNCHANGED <<files, saved, failed>>
    BY <2>1 DEF SavedThere
  <2>2. ASSUME NEW d \in Dirs, ClickSave(d) PROVE SavedThere'
    <3>1. IsCopy(offered) /\ Save(offered, d)
      BY <2>0, <2>2, CopiesAre DEF ClickSave, CopiesOK
    <3> QED BY <2>0, <2>2, <3>1, SaveKeeps
  <2>3. CASE ClickSign
    <3>1. CASE open["cold"] # None /\ \E d \in Dirs : Save(Signed, d)
      <4>1. IsCopy(Signed)
        BY <2>0, <3>1, ShownIsCopy, SignedType DEF CopiesOK
      <4> QED BY <2>0, <3>1, <4>1, SaveKeeps
    <3> QED BY <2>1, <2>3, <3>1 DEF ClickSign, SignAndSave, Signed, Shown
  <2>4. CASE ~ClickSign /\ ~\E d \in Dirs : ClickSave(d)
    <3>1. UNCHANGED <<files, saved, failed>>
      BY <2>4 DEF Next, Create, LoadDatas, OnItemClick, Close, Restart, Login, ClickBroadcast, Execute, hist, vars
    <3> QED BY <2>1, <3>1
  <2> QED BY <2>2, <2>3, <2>4
<1>3. TypeOK /\ SavedThere => SavedKept
  <2> SUFFICES ASSUME TypeOK, SavedThere, NEW s \in saved
               PROVE  \/ \E p \in Paths : p[1] = s[2] /\ files[p] # None /\ files[p].tx = s[1]
                      \/ \E t \in (saved \ {s}) \cup failed : t[2] = s[2] /\ SizeOf[t[1]] = SizeOf[s[1]]
    BY DEF SavedKept
  <2>1. <<s[2], SizeOf[s[1]]>> \in Paths
    BY DEF TypeOK, Paths
  <2> QED BY <2>1 DEF SavedThere
<1> QED BY <1>1, <1>2, <1>3, TypeCorrect, PTL DEF Spec

-----------------------------------------------------------------------------
\* The versions of a transaction that were executed or could be: those of the copies
\* with one signature.  And the rows of the cold wallet that one signing would make
\* such a copy of.
Versions(x) ==
    {v \in paid : v.tx = x}
        \cup {Version(c) : c \in {d \in AllCopies : d.tx = x /\ Len(d.sigs) = 1}}

Unsigned(x) == {p \in DOMAIN rows["cold"] : rows["cold"][p].tx = x /\ rows["cold"][p].sigs = <<>>}

\* Every load accounts for one version or one row that may become one.
Accounted ==
    \A x \in Txs :
        /\ IsFiniteSet(Versions(x))
        /\ Cardinality(Versions(x)) + Cardinality(Unsigned(x)) <= loads[x]

LEMMA UnsignedFinite ==
    ASSUME ShapeOK, NEW x
    PROVE  IsFiniteSet(Unsigned(x)) /\ Cardinality(Unsigned(x)) \in Nat
BY PathsFinite, FS_Subset, FS_CardinalityType DEF ShapeOK, Unsigned, Wallets

\* Fewer versions and fewer rows are still accounted for.
LEMMA FewerAccounted ==
    ASSUME ShapeOK, ShapeOK', Accounted, NEW x \in Txs,
           Versions(x)' \subseteq Versions(x), Unsigned(x)' \subseteq Unsigned(x), loads'[x] = loads[x]
    PROVE  /\ IsFiniteSet(Versions(x)')
           /\ Cardinality(Versions(x)') + Cardinality(Unsigned(x)') <= loads'[x]
<1>1. IsFiniteSet(Versions(x)) /\ Cardinality(Versions(x)) \in Nat
  BY FS_CardinalityType DEF Accounted
<1>2. /\ IsFiniteSet(Versions(x)') /\ Cardinality(Versions(x)') \in Nat
      /\ Cardinality(Versions(x)') <= Cardinality(Versions(x))
  BY <1>1, FS_Subset, FS_CardinalityType
<1>3. /\ Cardinality(Unsigned(x)) \in Nat /\ Cardinality(Unsigned(x)') \in Nat
      /\ Cardinality(Unsigned(x)') <= Cardinality(Unsigned(x))
  BY UnsignedFinite, FS_Subset, FS_CardinalityType
<1>4. loads[x] \in Nat
  BY DEF ShapeOK
<1> QED BY <1>1, <1>2, <1>3, <1>4 DEF Accounted

\* A step that signs nothing adds no version: a fresh copy has no signature, and what is
\* executed is a copy with one.
LEMMA VersionsStep ==
    ASSUME ShapeOK, CopiesOK, [Next]_vars, NEW x \in Txs,
           ~(ClickSign /\ MaySign /\ Shown.tx = x /\ Shown.sigs = <<>>)
    PROVE  Versions(x)' \subseteq Versions(x)
<1> SUFFICES ASSUME NEW v \in Versions(x)' PROVE v \in Versions(x)
  OBVIOUS
<1>1. ASSUME v \in paid', v.tx = x PROVE v \in Versions(x)
  <2>1. CASE v \in paid
    BY <1>1, <2>1 DEF Versions
  <2>2. CASE v \notin paid
    <3>1. PICK c \in sent : Execute(c)
      BY <1>1, <2>2 DEF Next, vars, Create, ClickSave, LoadDatas, OnItemClick, Close, Restart,
                        Login, ClickSign, ClickBroadcast
    <3>2. v = Version(c) /\ Valid(c)
      BY <1>1, <2>2, <3>1 DEF Execute
    <3>3. Len(c.sigs) = 1 /\ c.tx = x
      BY <1>1, <3>2 DEF Valid, Version
    <3>4. c \in AllCopies
      BY CopiesAre
    <3> QED BY <3>2, <3>3, <3>4 DEF Versions
  <2> QED BY <2>1, <2>2
<1>2. ASSUME NEW c \in AllCopies', c.tx = x, Len(c.sigs) = 1 PROVE c \in AllCopies
  <2>1. CASE \E y \in Txs : Create(y) /\ c = Fresh(y)
    <3>1. c.sigs = <<>>
      BY <2>1, FreshType
    <3> QED BY <1>2, <3>1
  <2>2. CASE ClickSign /\ MaySign /\ c = Signed
    <3>1. IsCopy(Shown)
      BY <2>2, ShownIsCopy DEF CopiesOK, MaySign
    <3>2. Len(Shown.sigs) = 0 /\ Shown.tx = x
      BY <1>2, <2>2, <3>1, SignedType DEF IsCopy
    <3>3. Shown.sigs = <<>>
      BY <3>1, <3>2 DEF IsCopy
    <3> QED BY <2>2, <3>2, <3>3
  <2> QED BY <2>1, <2>2, CopiesStep
<1>3. v \in {u \in paid' : u.tx = x} \/ \E c \in AllCopies' : v = Version(c) /\ c.tx = x /\ Len(c.sigs) = 1
  BY DEF Versions, Version
<1>4. ASSUME NEW c \in AllCopies', v = Version(c), c.tx = x, Len(c.sigs) = 1 PROVE v \in Versions(x)
  BY <1>2, <1>4 DEF Versions
<1> QED BY <1>1, <1>3, <1>4

\* Signing leaves one row less unsigned, if the row was.
LEMMA SignRows ==
    ASSUME ShapeOK, CopiesOK, MaySign, SignAndSave(Shown), NEW x \in Txs
    PROVE  Unsigned(x)' \subseteq Unsigned(x) \ {open["cold"]}
<1> DEFINE p == open["cold"]
<1>1. p \in DOMAIN rows["cold"] /\ DOMAIN rows = Wallets
  BY DEF ShapeOK, MaySign, Wallets
<1>2. rows' = [rows EXCEPT !["cold"][p] = Signed]
  BY DEF SignAndSave, Signed
<1>3. Signed.sigs # <<>>
  <2>1. IsCopy(Shown)
    BY ShownIsCopy DEF CopiesOK, MaySign
  <2>2. Len(Shown.sigs) \in Nat /\ Len(Signed.sigs) = Len(Shown.sigs) + 1
    BY <2>1, SignedType DEF IsCopy
  <2>3. Len(Signed.sigs) # Len(<<>>)
    BY <2>2
  <2> QED BY <2>3
<1>4. /\ DOMAIN rows'["cold"] = DOMAIN rows["cold"]
      /\ rows'["cold"][p] = Signed
      /\ \A q \in DOMAIN rows["cold"] : q # p => rows'["cold"][q] = rows["cold"][q]
  <2> HIDE DEF Signed, p
  <2> QED BY <1>1, <1>2 DEF Wallets
<1> QED BY <1>1, <1>3, <1>4 DEF Unsigned

\* Signing an unsigned row makes at most one version of it, at the cost of that row.
LEMMA SignAccounted ==
    ASSUME ShapeOK, CopiesOK, [Next]_vars, Accounted, ClickSign, MaySign, SignAndSave(Shown),
           NEW x \in Txs, Shown.tx = x, Shown.sigs = <<>>
    PROVE  /\ IsFiniteSet(Versions(x)')
           /\ Cardinality(Versions(x)') + Cardinality(Unsigned(x)') <= loads[x]
<1>1. Versions(x)' \subseteq Versions(x) \cup {Version(Signed)}
  <2> SUFFICES ASSUME NEW v \in Versions(x)', v # Version(Signed) PROVE v \in Versions(x)
    OBVIOUS
  <2>1. paid' = paid
    BY DEF ClickSign
  <2>2. v \in {u \in paid' : u.tx = x} \/ \E c \in AllCopies' : v = Version(c) /\ c.tx = x /\ Len(c.sigs) = 1
    BY DEF Versions, Version
  <2>3. ASSUME NEW c \in AllCopies', v = Version(c), c.tx = x, Len(c.sigs) = 1 PROVE v \in Versions(x)
    <3>1. ASSUME NEW y \in Txs PROVE c # Fresh(y)
      <4>1. Fresh(y).sigs = <<>>
        BY FreshType
      <4>2. SUFFICES ASSUME c = Fresh(y) PROVE FALSE
        OBVIOUS
      <4>3. Len(<<>>) = 1
        BY <2>3, <4>1, <4>2
      <4> QED BY <4>3
    <3>2. c \in AllCopies
      BY <2>3, <3>1, CopiesStep
    <3> QED BY <2>3, <3>2 DEF Versions
  <2> QED BY <2>1, <2>2, <2>3 DEF Versions
<1>2. /\ Unsigned(x)' \subseteq Unsigned(x) \ {open["cold"]}
      /\ open["cold"] \in Unsigned(x)
  BY SignRows DEF ShapeOK, MaySign, Wallets, Shown, Unsigned
<1>3. /\ IsFiniteSet(Versions(x)) /\ Cardinality(Versions(x)) \in Nat
      /\ Cardinality(Versions(x)) + Cardinality(Unsigned(x)) <= loads[x]
  BY FS_CardinalityType DEF Accounted
<1>4. /\ IsFiniteSet(Versions(x)') /\ Cardinality(Versions(x)') \in Nat
      /\ Cardinality(Versions(x)') <= Cardinality(Versions(x)) + 1
  <2> DEFINE V == Versions(x) \cup {Version(Signed)}
  <2>1. IsFiniteSet(V) /\ Cardinality(V) = (IF Version(Signed) \in Versions(x) THEN Cardinality(Versions(x))
                                            ELSE Cardinality(Versions(x)) + 1)
    BY <1>3, FS_AddElement
  <2>2. Versions(x)' \in SUBSET V
    BY <1>1
  <2> HIDE DEF V
  <2>3. IsFiniteSet(Versions(x)') /\ Cardinality(Versions(x)') <= Cardinality(V)
    BY <2>1, <2>2, FS_Subset
  <2>4. Cardinality(Versions(x)') \in Nat
    BY <2>3, FS_CardinalityType
  <2> QED BY <1>3, <2>1, <2>3, <2>4
<1>5. /\ Cardinality(Unsigned(x)) \in Nat /\ Cardinality(Unsigned(x)') \in Nat
      /\ Cardinality(Unsigned(x)') <= Cardinality(Unsigned(x)) - 1
  <2> DEFINE U == Unsigned(x) \ {open["cold"]}
  <2>1. IsFiniteSet(Unsigned(x)) /\ Cardinality(Unsigned(x)) \in Nat
    BY UnsignedFinite
  <2>2. IsFiniteSet(U) /\ Cardinality(U) = Cardinality(Unsigned(x)) - 1
    <3>1. /\ IsFiniteSet(U)
          /\ Cardinality(U) = IF open["cold"] \in Unsigned(x) THEN Cardinality(Unsigned(x)) - 1
                              ELSE Cardinality(Unsigned(x))
      BY <2>1, FS_RemoveElement, Zenon
    <3> HIDE DEF U
    <3> QED BY <1>2, <3>1
  <2>3. Unsigned(x)' \in SUBSET U
    BY <1>2
  <2> HIDE DEF U
  <2> QED BY <2>1, <2>2, <2>3, FS_Subset, FS_CardinalityType
<1>6. loads[x] \in Nat
  BY DEF ShapeOK
<1> QED BY <1>3, <1>4, <1>5, <1>6

\* A load into the cold wallet counts every row that it makes.
LEMMA LoadAccounted ==
    ASSUME ShapeOK, ShapeOK', CopiesOK, [Next]_vars, Accounted, NEW x \in Txs,
           NEW w \in Wallets, NEW chosen \in SUBSET Paths, NEW asVotes \in BOOLEAN,
           LoadDatas(w, chosen, asVotes), ~ClickSign
    PROVE  /\ IsFiniteSet(Versions(x)')
           /\ Cardinality(Versions(x)') + Cardinality(Unsigned(x)') <= loads'[x]
<1>1. Versions(x)' \subseteq Versions(x)
  BY VersionsStep
<1>2. CASE w = "hot"
  <2>1. rows'["cold"] = rows["cold"] /\ loads' = loads
    BY <1>2 DEF LoadDatas, ShapeOK, Wallets
  <2>2. Unsigned(x)' = Unsigned(x)
    BY <2>1 DEF Unsigned
  <2> QED BY <1>1, <2>1, <2>2, FewerAccounted
<1>3. CASE w # "hot"
  <2> DEFINE ps == Parsed(chosen)
             Counted == {p \in ps : files[p] # None /\ files[p].tx = x}
  <2>1. w = "cold"
    BY <1>3 DEF Wallets
  <2>2. /\ rows'["cold"] = [p \in ps |-> files[p]]
        /\ loads'[x] = loads[x] + Cardinality(Counted)
    BY <1>3, <2>1 DEF LoadDatas, ShapeOK, Wallets
  <2>3. ps \subseteq Paths /\ \A p \in ps : files[p] # None
    BY DEF Parsed
  <2>4. Unsigned(x)' \subseteq Counted
    <3> HIDE DEF ps
    <3> QED BY <2>2, <2>3 DEF Unsigned
  <2>5. IsFiniteSet(Counted) /\ Cardinality(Counted) \in Nat
    BY <2>3, PathsFinite, FS_Subset, FS_CardinalityType
  <2> HIDE DEF Counted
  <2>6. Cardinality(Unsigned(x)') \in Nat /\ Cardinality(Unsigned(x)') <= Cardinality(Counted)
    BY <2>4, <2>5, FS_Subset, FS_CardinalityType
  <2>7. /\ IsFiniteSet(Versions(x)) /\ Cardinality(Versions(x)) \in Nat
        /\ Cardinality(Versions(x)) + Cardinality(Unsigned(x)) <= loads[x]
    BY FS_CardinalityType DEF Accounted
  <2>8. /\ IsFiniteSet(Versions(x)') /\ Cardinality(Versions(x)') \in Nat
        /\ Cardinality(Versions(x)') <= Cardinality(Versions(x))
    BY <1>1, <2>7, FS_Subset, FS_CardinalityType
  <2>9. Cardinality(Unsigned(x)) \in Nat /\ loads[x] \in Nat
    BY UnsignedFinite DEF ShapeOK
  <2> QED BY <2>2, <2>5, <2>6, <2>7, <2>8, <2>9
<1> QED BY <1>2, <1>3

\* The network executes a transaction at most as often as the cold wallet has loaded it,
\* although every signing makes a version that the network takes for another transaction.
THEOREM PaidOncePerLoadAlways == Spec => []PaidOncePerLoad
<1>1. Init => Accounted
  <2> SUFFICES ASSUME Init, NEW x \in Txs
               PROVE  /\ IsFiniteSet(Versions(x))
                      /\ Cardinality(Versions(x)) + Cardinality(Unsigned(x)) <= loads[x]
    BY DEF Accounted
  <2>1. AllCopies = {}
    BY CopiesAre DEF Init, Empty
  <2>2. Versions(x) = {} /\ Unsigned(x) = {}
    BY <2>1 DEF Init, Versions, Unsigned, Empty, Wallets
  <2> QED BY <2>2, FS_EmptySet DEF Init
<1>2. TypeOK /\ TypeOK' /\ Accounted /\ [Next]_vars => Accounted'
  <2> SUFFICES ASSUME TypeOK, TypeOK', Accounted, [Next]_vars, NEW x \in Txs
               PROVE  /\ IsFiniteSet(Versions(x)')
                      /\ Cardinality(Versions(x)') + Cardinality(Unsigned(x)') <= loads'[x]
    BY DEF Accounted
  <2>0. ShapeOK /\ CopiesOK /\ ShapeOK'
    BY TypeIsShapeAndCopies DEF TypeOK, ShapeOK
  <2>1. CASE ClickSign
    <3>1. loads' = loads
      BY <2>1 DEF ClickSign
    <3>2. CASE UNCHANGED <<files, rows>>
      <4>1. UNCHANGED <<files, rows, sent, offered, paid>>
        BY <2>1, <3>2 DEF ClickSign, hot
      <4>2. Versions(x)' = Versions(x) /\ Unsigned(x)' = Unsigned(x)
        BY <4>1 DEF Versions, Unsigned, AllCopies, Copies, InFiles, InRows
      <4> QED BY <2>0, <3>1, <4>2, FewerAccounted
    <3>3. CASE MaySign /\ SignAndSave(Shown)
      <4>1. CASE Shown.tx = x /\ Shown.sigs = <<>>
        BY <2>0, <2>1, <3>1, <3>3, <4>1, SignAccounted
      <4>2. CASE ~(Shown.tx = x /\ Shown.sigs = <<>>)
        <5>1. Versions(x)' \subseteq Versions(x)
          BY <2>0, <4>2, VersionsStep
        <5>2. Unsigned(x)' \subseteq Unsigned(x)
          BY <2>0, <3>3, SignRows
        <5> QED BY <2>0, <3>1, <5>1, <5>2, FewerAccounted
      <4> QED BY <4>1, <4>2
    <3> QED BY <2>1, <3>2, <3>3 DEF ClickSign, Shown, MaySign
  <2>2. CASE ~ClickSign
    <3>1. Versions(x)' \subseteq Versions(x)
      BY <2>0, <2>2, VersionsStep
    <3>2. ASSUME NEW w \in Wallets, NEW chosen \in SUBSET Paths, NEW asVotes \in BOOLEAN,
                 LoadDatas(w, chosen, asVotes)
          PROVE  /\ IsFiniteSet(Versions(x)')
                 /\ Cardinality(Versions(x)') + Cardinality(Unsigned(x)') <= loads'[x]
      BY <2>0, <2>2, <3>2, LoadAccounted
    <3>3. CASE loads' = loads /\ (rows'["cold"] = rows["cold"] \/ DOMAIN rows'["cold"] = {})
      <4>1. Unsigned(x)' \subseteq Unsigned(x)
        BY <3>3 DEF Unsigned
      <4> QED BY <2>0, <3>1, <3>3, <4>1, FewerAccounted
    <3>4. ASSUME NEW w \in Wallets, Restart(w)
          PROVE  loads' = loads /\ (rows'["cold"] = rows["cold"] \/ DOMAIN rows'["cold"] = {})
      BY <2>0, <3>4 DEF Restart, Empty, ShapeOK, Wallets, hist
    <3> QED BY <2>2, <3>2, <3>3, <3>4
            DEF Next, vars, Create, ClickSave, OnItemClick, Close, Login, ClickBroadcast, Execute, hist
  <2> QED BY <2>1, <2>2
<1>3. TypeOK /\ Accounted => PaidOncePerLoad
  <2> SUFFICES ASSUME TypeOK, Accounted, NEW x \in Txs
               PROVE  Cardinality({v \in paid : v.tx = x}) <= loads[x]
    BY DEF PaidOncePerLoad
  <2> DEFINE P == {v \in paid : v.tx = x}
  <2>1. ShapeOK
    BY TypeIsShapeAndCopies
  <2>2. /\ IsFiniteSet(Versions(x)) /\ Cardinality(Versions(x)) \in Nat
        /\ Cardinality(Versions(x)) + Cardinality(Unsigned(x)) <= loads[x]
    BY FS_CardinalityType DEF Accounted
  <2>3. P \in SUBSET Versions(x)
    BY DEF Versions
  <2> HIDE DEF P
  <2>4. Cardinality(P) \in Nat /\ Cardinality(P) <= Cardinality(Versions(x))
    BY <2>2, <2>3, FS_Subset, FS_CardinalityType
  <2>5. Cardinality(Unsigned(x)) \in Nat /\ loads[x] \in Nat
    BY <2>1, UnsignedFinite DEF ShapeOK
  <2>6. Cardinality(P) <= loads[x]
    BY <2>2, <2>4, <2>5
  <2> QED BY <2>6 DEF P
<1> QED BY <1>1, <1>2, <1>3, TypeCorrect, PTL DEF Spec
=============================================================================
