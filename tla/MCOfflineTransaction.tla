------------------------ MODULE MCOfflineTransaction ------------------------
(***************************************************************************)
(* OfflineTransaction for TLC: a freeze and a vote of different sizes in   *)
(* one directory.  One account of the cold wallet has no key for the       *)
(* vote's owner, the other has.                                            *)
(***************************************************************************)
EXTENDS OfflineTransaction, TLC

CONSTANTS t1, t2, a1, a2

TwoKinds  == (t1 :> "freeze") @@ (t2 :> "vote")
TwoOwners == (t1 :> a1) @@ (t2 :> a2)
TwoSizes  == (t1 :> 1) @@ (t2 :> 2)
TwoBooks  == {{a1}, {a2}}
=============================================================================
