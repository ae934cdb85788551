----------------------------- MODULE MCAccounts -----------------------------
(***************************************************************************)
(* Accounts for TLC.  Two accounts, so that there is one whose password is *)
(* not that of the keys file, and two passwords, so that a login can be    *)
(* wrong.  One task without an answer is enough for it to run while the    *)
(* user signs out; two are for the run about the keys file.                *)
(***************************************************************************)
EXTENDS Accounts, TLC

Symmetry == Permutations(Accounts) \cup Permutations(Passwords)
=============================================================================
