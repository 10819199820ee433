------------------------------- MODULE MCCork -------------------------------
(***************************************************************************)
(* Cork for TLC: one Task with the calls that end a socket, and two Tasks  *)
(* sharing one.                                                            *)
(***************************************************************************)
EXTENDS Cork

CONSTANTS t1, t2

OneTask == [t \in Tasks |-> {"write", "cork", "nodelay", "shut", "close", "linger", "abort"}]

TwoTasks == [t \in Tasks |-> IF t = t1 THEN {"write", "push", "cork", "shut", "close"}
                                       ELSE {"write", "oob", "close"}]
=============================================================================
