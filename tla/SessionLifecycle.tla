--------------------------- MODULE SessionLifecycle ---------------------------
(***************************************************************************)
(* What every view of an assessment session is promised, whichever         *)
(* runtime moves it: the status walks the session machine, and the record  *)
(* of the submission appears in the very step that submits, once.          *)
(***************************************************************************)
EXTENDS StateMachines

VARIABLES status,     \* assessment_sessions.status, or "none" before the row exists
          submission  \* TRUE once a submission manifest or shutdown receipt exists

vars == <<status, submission>>

Init == status = "none" /\ submission = FALSE

(* The row is inserted with its disclosure already presented. *)
Open == status = "none" /\ status' = "disclosure_pending" /\ UNCHANGED submission

Submit == /\ status = "in_progress" /\ ~submission
          /\ status' = "submitted" /\ submission' = TRUE

Move == /\ \E t \in SessionTransition : t[1] = status /\ t[2] # "submit" /\ t[3] = status'
        /\ UNCHANGED submission

Next == Open \/ Submit \/ Move

Spec == Init /\ [][Next]_vars
===============================================================================
