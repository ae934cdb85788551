--------------------------- MODULE RequestService ---------------------------
(***************************************************************************)
(* What CNetworkThread promises the windows that call it: a request that   *)
(* is accepted is answered exactly once, on the UI thread, in the order in *)
(* which the requests were accepted.  Refusing a request is invisible      *)
(* here: it is a stuttering step.                                          *)
(***************************************************************************)
EXTENDS Naturals

CONSTANT MaxRequests    \* Bound on the number of requests ever accepted.

VARIABLES issued,       \* How many requests were accepted so far.
          waiting,      \* The accepted requests whose callback has not run.
          answered      \* The request whose callback ran last (0: none).

serviceVars == <<issued, waiting, answered>>

ServiceInit ==
    /\ issued = 0
    /\ waiting = {}
    /\ answered = 0

\* Requests are numbered in the order of acceptance.
Accept ==
    /\ issued < MaxRequests
    /\ issued' = issued + 1
    /\ waiting' = waiting \cup {issued + 1}
    /\ UNCHANGED answered

\* The oldest waiting request is answered, and never again.
Answer ==
    \E r \in waiting :
        /\ \A other \in waiting : r <= other
        /\ answered < r
        /\ answered' = r
        /\ waiting' = waiting \ {r}
        /\ UNCHANGED issued

ServiceNext == Accept \/ Answer

ServiceSafety == ServiceInit /\ [][ServiceNext]_serviceVars

ServiceSpec == ServiceSafety /\ WF_serviceVars(Answer)
=============================================================================
