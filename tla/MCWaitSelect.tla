---------------------------- MODULE MCWaitSelect ----------------------------
(* WaitSelect for TLC. *)
EXTENDS WaitSelect
=============================================================================
