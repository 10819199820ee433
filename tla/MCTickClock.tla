---- MODULE MCTickClock ----
(* Instances of TickClock. *)
EXTENDS TickClock
====
