---------------------------- MODULE MCRetryRouter ----------------------------
(***************************************************************************)
(* One dispatch and one compensation command on a small retry router.      *)
(* There is no symmetry over the slots: the run also checks liveness.      *)
(***************************************************************************)
EXTENDS RetryRouter
=============================================================================
