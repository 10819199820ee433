---------------------------- MODULE MCStackLife ----------------------------
(* Instances of StackLife. *)
EXTENDS StackLife

CONSTANTS o1, o2, w1

MCOpeners2 == {o1, o2}
MCWorkers == {w1}
MCNoWorkers == {}
=============================================================================
