----------------------------- MODULE MCRuntimeV2 -----------------------------
(***************************************************************************)
(* Three paths and room for two artifacts, so that the quota can shut the  *)
(* required one out; two ticks to a second, a timebox of two seconds and   *)
(* one resume after the start: the clock runs past its limit in every      *)
(* state, with the remainder of a second lost at a pause.  The runtime     *)
(* really may stop: the token expires.                                     *)
(***************************************************************************)
EXTENDS RuntimeV2
===============================================================================
