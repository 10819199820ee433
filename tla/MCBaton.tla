------------------------------ MODULE MCBaton ------------------------------
(* Baton for TLC: an IP thread, an application Task with two library bases *)
(* and one with a single base.                                             *)
EXTENDS Baton

CONSTANTS ip, a, b, tip, ta1, ta2, tb

MCTasks == {ip, a, b}
MCThreads == {tip, ta1, ta2, tb}
MCInternal == {tip}
MCOwner == [t \in Threads |-> IF t = tip THEN ip ELSE IF t = tb THEN b ELSE a]
MCPrio == [t \in Threads |-> IF t = tip THEN 0 ELSE 1]
=============================================================================
