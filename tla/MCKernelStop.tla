---- MODULE MCKernelStop ----
(* Instances of KernelStop. *)
EXTENDS KernelStop

CONSTANTS a1, a2, b1, b2, t1, t2, t3

MCApps == {a1, a2}
MCOneApp == {a1}
MCBlocks1 == {b1}
MCBlocks2 == {b1, b2}
MCTasks2 == {t1, t2}
MCTasks3 == {t1, t2, t3}
====
