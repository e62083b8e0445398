-------------------------- MODULE MCCandidatePortal --------------------------
(***************************************************************************)
(* Two concurrent requests: enough for a save, an upload or a second submit *)
(* to run between any two statements of a submit, and for the cycle in     *)
(* which a save and a submit wait for each other.  The portal really may   *)
(* stop: the token expires and nobody is left to call it.                  *)
(***************************************************************************)
EXTENDS CandidatePortal
===============================================================================
