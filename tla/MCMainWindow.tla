---------------------------- MODULE MCMainWindow ----------------------------
(***************************************************************************)
(* MainWindow for TLC.  Two accounts, so that one can be left for the      *)
(* other, and two tasks outstanding at a click, to which callbacks may     *)
(* add.  The safety run starts where the first login has ended, a state    *)
(* that two clicks lead to (OnShowLogin, ClickLogin and what follows); the *)
(* four clicks left are enough to use the session, sign out, log in with   *)
(* the other account and use that.  The liveness run starts with Init.     *)
(***************************************************************************)
EXTENDS MainWindow, TLC

Symmetry == Permutations(Accounts)

\* Somebody is logged in, the balance list is there and the overlay is gone.
LoggedInInit ==
    \E a \in Accounts :
        /\ session = a
        /\ queue = <<>> /\ net = "run" /\ messages = <<>> /\ owed = <<>>
        /\ LayerInit
        /\ content = "balance" /\ signOut = TRUE
        /\ form = [f \in AllViews |->
                      IF f # "balance" THEN NoForm
                      ELSE [NoForm EXCEPT !.address = a, !.label = a, !.data = a,
                                          !.bandwidth = a]]
        /\ freezeAddress = None
        /\ rows = {} /\ listed = {}
        /\ lost = FALSE /\ misSigned = FALSE /\ hasty = FALSE /\ duplicated = FALSE
        /\ clicks = 0

LoggedInSpec == LoggedInInit /\ [][Next]_vars
=============================================================================
