---------------------------- MODULE MCColdWallet ----------------------------
(***************************************************************************)
(* ColdWallet for TLC.  Two accounts and three addresses: one account has  *)
(* two, so that a file can lose the older one, and the other has one.  Two *)
(* logins queued, so that one comes while the first one's session is used. *)
(***************************************************************************)
EXTENDS ColdWallet, TLC

Symmetry == Permutations(Accounts) \cup Permutations(Addresses)
=============================================================================
