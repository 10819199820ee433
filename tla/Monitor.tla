------------------------------ MODULE Monitor ------------------------------
(***************************************************************************)
(* What the ThreadX baton promises the code above it: the Tasks inside the *)
(* stack enter one at a time, and one enters only when nobody is inside.   *)
(* Leaving covers giving the baton up, waiting inside a core service and   *)
(* being removed by RemTask().                                             *)
(***************************************************************************)
CONSTANT Tasks

VARIABLE inside   \* the live Tasks that may touch stack data

Init == inside = {}

Enter(k) == inside = {} /\ inside' = {k}

Leave(k) == inside = {k} /\ inside' = {}

Next == \E k \in Tasks : Enter(k) \/ Leave(k)

Spec == Init /\ [][Next]_inside
=============================================================================
