-------------------------- MODULE MCNetworkThread ---------------------------
(***************************************************************************)
(* NetworkThread for TLC.  Two types are enough for every interaction of   *)
(* lastCallType_ with the pool (a call and the one it supersedes); one of  *)
(* them goes to the solidity node, so that both stubs are used.  Two       *)
(* requests are one before and one behind a reset, or one that is made     *)
(* while the other is retried.  It takes a third to have a second one of a *)
(* type accepted too early (MCNetworkThreadDuplicate.cfg).                 *)
(***************************************************************************)
EXTENDS NetworkThread
=============================================================================
