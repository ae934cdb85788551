-------------------------- MODULE MCConnectionForm --------------------------
(***************************************************************************)
(* ConnectionForm for TLC: two addresses besides the compiled-in ones, and *)
(* up to three tasks queued.                                               *)
(***************************************************************************)
EXTENDS ConnectionForm, TLC

Symmetry == Permutations(Nodes)
=============================================================================
