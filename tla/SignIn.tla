------------------------------- MODULE SignIn -------------------------------
(***************************************************************************)
(* What logging in and signing out are for the rest of the program, with   *)
(* everything left out that AccountManager and the forms do for it.  A     *)
(* task that finds an account makes it the session's first and reports it  *)
(* then, once; one that finds none leaves the session alone.  Whoever is   *)
(* told of a login shows the button to sign out, and signing out leaves    *)
(* nobody logged in, whatever tasks are under way.                         *)
(***************************************************************************)
EXTENDS Naturals

CONSTANTS
    Users,      \* The addresses a session can have.
    Nobody      \* The empty address.

VARIABLES
    user,       \* whose session it is
    task,       \* "looking" for an account, has "found" one, or "none" runs
    news,       \* how many reported logins the account bar was not told of
    button      \* the account bar shows the button to sign out, or is told to

signInVars == <<user, task, news, button>>

\* Nothing is under way.
SignInInit ==
    /\ user \in Users \cup {Nobody}
    /\ task = "none"
    /\ news = 0
    /\ button = (user # Nobody)

Begin ==
    /\ task = "none" /\ task' = "looking"
    /\ UNCHANGED <<user, news, button>>

Found ==
    /\ task = "looking" /\ task' = "found"
    /\ user' \in Users
    /\ UNCHANGED <<news, button>>

Succeed ==
    /\ task = "found" /\ task' = "none"
    /\ news' = news + 1
    /\ UNCHANGED <<user, button>>

Fail ==
    /\ task = "looking" /\ task' = "none"
    /\ UNCHANGED <<user, news, button>>

Tell ==
    /\ news > 0 /\ news' = news - 1
    /\ button' = TRUE
    /\ UNCHANGED <<user, task>>

Leave ==
    /\ button /\ button' = FALSE
    /\ user' = Nobody
    /\ UNCHANGED <<task, news>>

\* The process ends and is started again.
End == user' = Nobody /\ task' = "none" /\ news' = 0 /\ button' = FALSE

SignInNext == Begin \/ Found \/ Succeed \/ Fail \/ Tell \/ Leave \/ End

SignInSpec == SignInInit /\ [][SignInNext]_signInVars
=============================================================================
