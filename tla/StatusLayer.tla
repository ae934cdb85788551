---------------------------- MODULE StatusLayer ----------------------------
(***************************************************************************)
(* CStatusLayer: the overlay that covers a window while it waits (a        *)
(* spinner) and that shows results (a text).  One timer, started by every  *)
(* text, hides the overlay; it does not know which text started it.        *)
(***************************************************************************)

VARIABLES
    shown,      \* "hidden", "spinner" (no_gif_ = false) or "text"
    timer       \* show_timer_id_ is running

layer == <<shown, timer>>

LayerTypeOK == shown \in {"hidden", "spinner", "text"} /\ timer \in BOOLEAN

LayerInit == shown = "hidden" /\ timer = FALSE

\* Update: the spinner replaces whatever is shown; the timer is left alone.
Update == shown' = "spinner" /\ UNCHANGED timer

Show_WithoutTimer(empty) ==
    shown' = (IF empty THEN "hidden" ELSE "text") /\ UNCHANGED timer

\* Show: an empty status hides the overlay, any other starts the timer again.
Show(empty) ==
    IF empty
    THEN shown' = "hidden" /\ UNCHANGED timer
    ELSE shown' = "text" /\ timer' = TRUE

\* OnUITimer: the timer stops itself and hides the overlay, whatever it shows.
OnUITimer == timer /\ timer' = FALSE /\ shown' = "hidden"
=============================================================================
