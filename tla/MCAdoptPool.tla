---------------------------- MODULE MCAdoptPool ----------------------------
(* AdoptPool for TLC: two Tasks, one of them with a library base. *)
EXTENDS AdoptPool

CONSTANTS a1, a2, b1, s1, s2

MCAddrs == {a1, a2}
MCBases == {b1}
MCStamps == {s1, s2}
=============================================================================
