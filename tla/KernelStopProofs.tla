-------------------------- MODULE KernelStopProofs --------------------------
(***************************************************************************)
(* Proofs about KernelStop, for every set of applications, TX_THREADs and  *)
(* Tasks, and however often reaps and stops time out.                      *)
(***************************************************************************)
EXTENDS KernelStop, FiniteSetTheorems, TLAPS

----------------------------------------------------------------------------
(* The inductive invariant: TypeOK, the properties and these.              *)

(* An application has a target exactly while it reaps, no two have the     *)
(* same one, and it is off the created list.                               *)
TargetsApart ==
  /\ \A a \in Apps : target[a] # None <=> pc[a] \in {"asked", "unasked"}
  /\ \A a, x \in Apps : target[a] # None /\ target[a] = target[x] => a = x
  /\ \A a \in Apps : target[a] \notin created

(* A TX_THREAD has a Task only while it is created or being reaped.        *)
TaskOfLive ==
  \A b \in Blocks : taskOf[b] # None => b \in created \/ \E a \in Apps : target[a] = b

(* The handshake comes from the Task's last act.                           *)
ReapedGone ==
  \A a \in Apps : pc[a] = "asked" /\ reaped[a] => taskOf[target[a]] = None

(* One stop at a time, of a kernel that is no longer up, and no thread or  *)
(* Task of one outlives the commit.                                        *)
Door ==
  /\ up => ~stopping
  /\ \A a \in Apps : pc[a] \in Stop => stopping
  /\ \A a, x \in Apps : pc[a] \in Stop /\ pc[x] \in Stop => a = x
  /\ ~up => created = {} /\ \A t \in Tasks : exec[t] = "none"

(* The tick and the master raise their flags with their last act, and a    *)
(* stop gets past its waits only on them.                                  *)
Flags ==
  /\ tickPtr <=> tick # "none"
  /\ tickGone => tick = "none"
  /\ masterGone => master = "none"
  /\ \A a \in Apps : pc[a] \in {"wake", "masterwait", "free"} => tickGone
  /\ \A a \in Apps : pc[a] = "free" => masterGone
  /\ ~up /\ ~stopping => tick = "none" /\ master = "none"

(* The kernel's half, and the reaper's.                                    *)
Kernel == Door /\ Flags /\ StacksUnderTasks /\ AdoptedHaveKernel
Reaper == /\ TargetsApart /\ TaskOfLive /\ ReapedGone
          /\ LinksAgree /\ ReaperThere /\ ZombiesCounted

IInv == TypeOK /\ Kernel /\ Reaper

----------------------------------------------------------------------------
USE KernelStopAssumption
DEF IInv, kernelVars, tickVars, masterVars, appVars, threadVars

(* Init establishes the inductive invariant.                               *)
LEMMA InitIInv == Init => IInv
<1> SUFFICES ASSUME Init PROVE IInv
  BY Zenon
<1>1. /\ up \in BOOLEAN /\ stopping \in BOOLEAN /\ tickPtr \in BOOLEAN
      /\ tickSig \in BOOLEAN /\ tickStop \in BOOLEAN /\ tickGone \in BOOLEAN
      /\ schedPtr \in BOOLEAN /\ schedSig \in BOOLEAN /\ masterGone \in BOOLEAN
  BY Zenon DEF Init
<1>2. /\ reaped \in [Apps -> BOOLEAN] /\ die \in [Tasks -> BOOLEAN]
      /\ zombie \in [Tasks -> BOOLEAN]
  BY Zenon DEF Init
<1>3. Cardinality(Tasks) \in Nat /\ Cardinality({t \in Tasks : zombie[t]}) = 0
  <2>1. {t \in Tasks : zombie[t]} = {}
    BY Zenon DEF Init
  <2> QED
    BY Zenon, <2>1, FS_EmptySet, FS_CardinalityType
<1>4. TypeOK
  BY <1>1, <1>2, <1>3 DEF Init, TypeOK, Adopted, Stop
<1>5. Kernel
  BY Zenon DEF Init, Kernel, Door, Flags, StacksUnderTasks, AdoptedHaveKernel, Stop, Adopted
<1>6. Reaper
  BY Zenon, <1>3 DEF Init, Reaper, TargetsApart, TaskOfLive, ReapedGone, LinksAgree,
              ReaperThere, ZombiesCounted
<1> QED
  BY Zenon, <1>4, <1>5, <1>6

(* The reaper's half does not see the kernel's variables, nor a Task that  *)
(* moves outside a reap.                                                   *)
LEMMA ReaperFrame ==
  ASSUME TypeOK, Reaper, UNCHANGED <<threadVars, target, reaped>>,
         \A a \in Apps : pc'[a] = pc[a]
                         \/ {pc[a], pc'[a]} \cap {"asked", "unasked"} = {}
  PROVE  Reaper'
<1>1. \A a \in Apps : /\ pc'[a] = "asked" <=> pc[a] = "asked"
                      /\ pc'[a] = "unasked" <=> pc[a] = "unasked"
  BY Zenon
<1>2. TargetsApart' /\ TaskOfLive' /\ ReapedGone' /\ LinksAgree' /\ ZombiesCounted'
  BY <1>1 DEF Reaper, TargetsApart, TaskOfLive, ReapedGone, LinksAgree, ZombiesCounted
<1>3. ReaperThere'
  BY <1>1 DEF Reaper, ReaperThere, TypeOK
<1> QED
  BY Zenon, <1>2, <1>3 DEF Reaper

(* The kernel's half does not see the threads' variables while it is up,   *)
(* nor an application that moves in and out of a reap.                     *)
LEMMA KernelFrame ==
  ASSUME Kernel, up, UNCHANGED <<kernelVars, tickVars, masterVars>>,
         \A a \in Apps : pc'[a] = pc[a] \/ {pc[a], pc'[a]} \subseteq Adopted
  PROVE  Kernel'
<1>1. \A a \in Apps : /\ pc'[a] \in Stop => pc'[a] = pc[a]
                      /\ pc'[a] \in Adopted => pc[a] \in Adopted
  BY Zenon DEF Adopted, Stop
<1>2. ~stopping /\ \A a \in Apps : pc'[a] \notin Stop
  BY Zenon, <1>1 DEF Kernel, Door
<1> QED
  BY Zenon, <1>1, <1>2 DEF Kernel, Door, Flags, StacksUnderTasks, AdoptedHaveKernel, Stop

----------------------------------------------------------------------------
(* The kernel comes up, and Tasks are adopted and orphaned.                *)
LEMMA StartStep ==
  ASSUME IInv, NEW a \in Apps, Start(a)
  PROVE  IInv'
<1>1. /\ up' /\ ~stopping' /\ master' = "run" /\ ~masterGone' /\ ~tickGone'
      /\ tick' \in {"none", "parked", "ticking"} /\ (tickPtr' <=> tick' # "none")
      /\ stacks' = {"master"} \cup (IF tick' # "none" THEN {"tick"} ELSE {})
      /\ UNCHANGED <<appVars, threadVars>>
      /\ \A x \in Apps : pc[x] \notin Stop
  BY Zenon DEF Start, NoStop
<1>2. TypeOK'
  <2>1. /\ up' \in BOOLEAN /\ stopping' \in BOOLEAN /\ tickPtr' \in BOOLEAN
        /\ tickSig' \in BOOLEAN /\ tickStop' \in BOOLEAN /\ tickGone' \in BOOLEAN
        /\ schedPtr' \in BOOLEAN /\ schedSig' \in BOOLEAN /\ masterGone' \in BOOLEAN
    BY Zenon DEF Start, TypeOK
  <2>2. stacks' \subseteq {"tick", "master"}
    BY Zenon, <1>1
  <2> QED
    BY Zenon, <1>1, <2>1, <2>2 DEF TypeOK
<1>3. Kernel'
  BY Zenon, <1>1 DEF Kernel, Door, Flags, StacksUnderTasks, AdoptedHaveKernel, Stop
<1>4. Reaper'
  BY Zenon, <1>1, ReaperFrame
<1> QED
  BY Zenon, <1>2, <1>3, <1>4

LEMMA AdoptStep ==
  ASSUME IInv, NEW a \in Apps, Adopt(a) \/ Orphan(a)
  PROVE  IInv'
<1>1. /\ up /\ ~stopping
      /\ UNCHANGED <<kernelVars, tickVars, masterVars, target, reaped, threadVars>>
  BY Zenon DEF Adopt, Orphan, Kernel, AdoptedHaveKernel, Adopted
<1>2. PICK q \in {"in", "out"} : pc[a] \in {"in", "out"} /\ pc' = [pc EXCEPT ![a] = q]
  BY Zenon DEF Adopt, Orphan, Goto
<1>3. TypeOK'
  BY <1>1, <1>2 DEF TypeOK, Adopted
<1>4. Kernel'
  BY <1>1, <1>2
  DEF TypeOK, Kernel, Door, Flags, StacksUnderTasks, AdoptedHaveKernel, Stop
<1>5. Reaper'
  BY <1>1, <1>2, ReaperFrame DEF TypeOK
<1> QED
  BY Zenon, <1>3, <1>4, <1>5

----------------------------------------------------------------------------
(* The threads' own Tasks.  All of this happens under a kernel that is up. *)

LEMMA CreateStep ==
  ASSUME IInv, NEW a \in Apps, NEW b \in Blocks, Create(a, b)
  PROVE  IInv'
<1>1. /\ up /\ b \notin created /\ created' = created \cup {b}
      /\ \A x \in Apps : target[x] # b
      /\ UNCHANGED <<kernelVars, tickVars, masterVars, appVars, die, zombie, reaper,
                     zombiesLive>>
  BY Zenon DEF Create, Kernel, AdoptedHaveKernel, Adopted
<1>2. taskOf[b] = None
  BY Zenon, <1>1 DEF Reaper, TaskOfLive
<1>3. CASE /\ taskOf' = [taskOf EXCEPT ![b] = None] /\ UNCHANGED <<exec, owner>>
  <2>1. taskOf' = taskOf
    BY Zenon, <1>2, <1>3 DEF TypeOK
  <2>2. TypeOK'
    BY <1>1, <1>3, <2>1 DEF TypeOK
  <2>3. Kernel'
    BY Zenon, <1>1, KernelFrame
  <2>4. Reaper'
    BY SMTT(30), <1>1, <1>3, <2>1
    DEF Reaper, TargetsApart, TaskOfLive, ReapedGone, LinksAgree, ReaperThere,
        ZombiesCounted
  <2> QED
    BY Zenon, <2>2, <2>3, <2>4
<1>4. ASSUME NEW t \in Tasks, exec[t] = "none",
             exec' = [exec EXCEPT ![t] = "run"],
             owner' = [owner EXCEPT ![t] = b],
             taskOf' = [taskOf EXCEPT ![b] = t]
      PROVE  IInv'
  <2>1. owner[t] = None /\ ~zombie[t] /\ \A x \in Blocks : taskOf[x] # t
    BY <1>4 DEF Reaper, LinksAgree, ZombiesCounted
  <2>2. reaper[t] = None
    BY <2>1 DEF Reaper, ReaperThere, TargetsApart, TypeOK
  <2>3. TypeOK'
    BY <1>1, <1>4 DEF TypeOK
  <2>4. Kernel'
    BY Zenon, <1>1, KernelFrame
  <2>5. TargetsApart' /\ TaskOfLive' /\ ReapedGone'
    BY <1>1, <1>4 DEF TypeOK, Reaper, TargetsApart, TaskOfLive, ReapedGone
  <2>6. LinksAgree'
    BY <1>1, <1>2, <1>4, <2>1 DEF TypeOK, Reaper, LinksAgree
  <2>7. ReaperThere'
    BY <1>1, <1>2, <1>4, <2>2 DEF TypeOK, Reaper, ReaperThere, TargetsApart
  <2>8. ZombiesCounted'
    BY Zenon, <1>1, <1>4, <2>1 DEF TypeOK, Reaper, ZombiesCounted
  <2> QED
    BY Zenon, <2>3, <2>4, <2>5, <2>6, <2>7, <2>8 DEF Reaper
<1> QED
  BY Zenon, <1>3, <1>4 DEF Create

LEMMA ExecStep ==
  ASSUME IInv, NEW t \in Tasks, EnterExec(t) \/ LeaveExec(t)
  PROVE  IInv'
<1>1. /\ exec[t] \in {"run", "stuck"} /\ exec' \in [Tasks -> {"none", "run", "stuck"}]
      /\ \A x \in Tasks : exec'[x] = "none" <=> exec[x] = "none"
      /\ UNCHANGED <<kernelVars, tickVars, masterVars, appVars, created, taskOf, owner,
                     die, zombie, reaper, zombiesLive>>
  BY ZenonT(40) DEF EnterExec, LeaveExec, TypeOK
<1>2. up
  BY Zenon, <1>1 DEF Kernel, Door
<1>3. TypeOK'
  BY <1>1 DEF TypeOK
<1>4. Kernel'
  BY Zenon, <1>1, <1>2, KernelFrame
<1>5. Reaper'
  BY <1>1
  DEF Reaper, TargetsApart, TaskOfLive, ReapedGone, LinksAgree, ReaperThere,
      ZombiesCounted
<1> QED
  BY Zenon, <1>3, <1>4, <1>5

(* Asking a Task to die: the reaper and its flag are set up, nothing else  *)
(* about the Task changes.                                                 *)
LEMMA ReapStep ==
  ASSUME IInv, NEW a \in Apps, NEW b \in Blocks, Reap(a, b)
  PROVE  IInv'
<1>1. /\ up /\ pc[a] = "in" /\ target[a] = None /\ b \in created
      /\ created' = created \ {b}
      /\ UNCHANGED <<kernelVars, tickVars, masterVars, taskOf, exec, owner, zombie,
                     zombiesLive>>
  BY Zenon DEF Reap, Kernel, AdoptedHaveKernel, Adopted, Reaper, TargetsApart
<1>2. \A x \in Apps : target[x] # b
  BY Zenon, <1>1 DEF Reaper, TargetsApart
<1>3. CASE taskOf[b] = None
  <2>1. UNCHANGED <<pc, target, reaped, die, reaper>>
    BY Zenon, <1>3 DEF Reap
  <2>2. TypeOK'
    BY <1>1, <2>1 DEF TypeOK
  <2>3. Kernel'
    BY Zenon, <1>1, <2>1, KernelFrame
  <2>4. Reaper'
    BY <1>1, <1>3, <2>1
    DEF Reaper, TargetsApart, TaskOfLive, ReapedGone, LinksAgree, ReaperThere,
        ZombiesCounted
  <2> QED
    BY Zenon, <2>2, <2>3, <2>4
<1>4. CASE taskOf[b] # None
  <2>1. PICK t \in Tasks : t = taskOf[b]
    BY Zenon, <1>4 DEF TypeOK
  <2>2. /\ die' = [die EXCEPT ![t] = TRUE]
        /\ target' = [target EXCEPT ![a] = b]
        /\ reaped' = [reaped EXCEPT ![a] = FALSE]
    BY Zenon, <1>4, <2>1 DEF Reap
  <2>3. \/ pc' = [pc EXCEPT ![a] = "asked"] /\ reaper' = [reaper EXCEPT ![t] = a]
        \/ pc' = [pc EXCEPT ![a] = "unasked"] /\ reaper' = [reaper EXCEPT ![t] = None]
    BY Zenon, <1>4, <2>1 DEF Reap, Goto
  <2>4. \A x \in Tasks : reaper[x] # a
    BY ZenonT(40), <1>1 DEF Reaper, ReaperThere
  <2>5. TypeOK'
    BY <1>1, <2>2, <2>3 DEF TypeOK, Adopted
  <2>6. Kernel'
    BY ZenonT(40), <1>1, <2>3, KernelFrame DEF TypeOK, Adopted
  <2>7. TargetsApart' /\ TaskOfLive' /\ ReapedGone'
    BY <1>1, <1>2, <2>2, <2>3
    DEF TypeOK, Reaper, TargetsApart, TaskOfLive, ReapedGone
  <2>8. LinksAgree' /\ ZombiesCounted'
    BY ZenonT(40), <1>1 DEF Reaper, LinksAgree, ZombiesCounted
  <2>9. ReaperThere'
    <3> SUFFICES ASSUME NEW x \in Tasks, reaper'[x] # None
                 PROVE  pc'[reaper'[x]] = "asked" /\ taskOf'[target'[reaper'[x]]] = x
      BY Zenon DEF ReaperThere
    <3>1. CASE x = t
      BY <1>1, <2>1, <2>2, <2>3, <3>1 DEF TypeOK
    <3>2. CASE x # t
      BY <1>1, <2>2, <2>3, <2>4, <3>2 DEF TypeOK, Reaper, ReaperThere
    <3> QED
      BY Zenon, <3>1, <3>2
  <2> QED
    BY Zenon, <2>5, <2>6, <2>7, <2>8, <2>9 DEF Reaper
<1> QED
  BY Zenon, <1>3, <1>4

(* How the number of zombies moves with one of them.                       *)
LEMMA ZombieCount ==
  ASSUME TypeOK, NEW t \in Tasks, NEW z \in BOOLEAN, zombie' = [zombie EXCEPT ![t] = z]
  PROVE  /\ Cardinality({x \in Tasks : zombie'[x]}) \in 0 .. Cardinality(Tasks)
         /\ Cardinality({x \in Tasks : zombie[x]}) \in Nat
         /\ z /\ ~zombie[t] => Cardinality({x \in Tasks : zombie'[x]})
                                 = Cardinality({x \in Tasks : zombie[x]}) + 1
         /\ ~z /\ zombie[t] => /\ Cardinality({x \in Tasks : zombie'[x]})
                                    = Cardinality({x \in Tasks : zombie[x]}) - 1
                               /\ Cardinality({x \in Tasks : zombie[x]}) # 0
         /\ ~z /\ ~zombie[t] => Cardinality({x \in Tasks : zombie'[x]})
                                  = Cardinality({x \in Tasks : zombie[x]})
<1> DEFINE Y == {x \in Tasks : zombie[x]}
           Z == {x \in Tasks : zombie'[x]}
<1>1. /\ IsFiniteSet(Y) /\ Cardinality(Y) \in Nat
      /\ IsFiniteSet(Z) /\ Cardinality(Z) \in Nat
      /\ Cardinality(Z) <= Cardinality(Tasks) /\ Cardinality(Tasks) \in Nat
  BY Zenon, FS_Subset, FS_CardinalityType
<1>2. /\ z /\ ~zombie[t] => Z = Y \cup {t} /\ t \notin Y
      /\ ~z /\ zombie[t] => Z = Y \ {t} /\ t \in Y
      /\ ~z /\ ~zombie[t] => Z = Y
  BY DEF TypeOK
<1> HIDE DEF Y, Z
<1>3. z /\ ~zombie[t] => Cardinality(Z) = Cardinality(Y) + 1
  BY Zenon, <1>1, <1>2, FS_AddElement
<1>4. ~z /\ zombie[t] => Cardinality(Z) = Cardinality(Y) - 1 /\ Cardinality(Y) # 0
  BY Zenon, <1>1, <1>2, FS_RemoveElement, FS_EmptySet
<1>5. ~z /\ ~zombie[t] => Cardinality(Z) = Cardinality(Y)
  BY Zenon, <1>2
<1> QED
  BY <1>1, <1>3, <1>4, <1>5 DEF Y, Z

(* A Task's last act: it lets go of the TX_THREAD, tells its reaper and    *)
(* leaves the zombie count, each only where it is still linked.            *)
LEMMA DestroyStep ==
  ASSUME IInv, NEW t \in Tasks, Destroy(t)
  PROVE  IInv'
<1>1. /\ exec[t] = "run" /\ exec' = [exec EXCEPT ![t] = "none"]
      /\ taskOf' = [b \in Blocks |-> IF b = owner[t] THEN None ELSE taskOf[b]]
      /\ reaped' = [a \in Apps |-> reaped[a] \/ a = reaper[t]]
      /\ owner' = [owner EXCEPT ![t] = None]
      /\ reaper' = [reaper EXCEPT ![t] = None]
      /\ die' = [die EXCEPT ![t] = FALSE]
      /\ zombie' = [zombie EXCEPT ![t] = FALSE]
      /\ UNCHANGED <<kernelVars, tickVars, masterVars, pc, target, created>>
  BY Zenon DEF Destroy
<1>2. /\ zombiesLive' = Cardinality({x \in Tasks : zombie'[x]})
      /\ zombiesLive' \in 0 .. Cardinality(Tasks)
  <2>1. zombiesLive = Cardinality({x \in Tasks : zombie[x]})
    BY Zenon DEF Reaper, ZombiesCounted
  <2>2. zombie[t] \in BOOLEAN
    BY Zenon DEF TypeOK
  <2>3. CASE zombie[t]
    <3>1. /\ Cardinality({x \in Tasks : zombie'[x]}) = zombiesLive - 1
          /\ zombiesLive # 0
          /\ Cardinality({x \in Tasks : zombie'[x]}) \in 0 .. Cardinality(Tasks)
      BY Zenon, <1>1, <2>1, <2>3, ZombieCount
    <3> QED
      BY Zenon, <2>3, <3>1 DEF Destroy, Uncount
  <2>4. CASE ~zombie[t]
    <3>1. /\ Cardinality({x \in Tasks : zombie'[x]}) = zombiesLive
          /\ Cardinality({x \in Tasks : zombie'[x]}) \in 0 .. Cardinality(Tasks)
      BY Zenon, <1>1, <2>1, <2>4, ZombieCount
    <3> QED
      BY Zenon, <2>4, <3>1 DEF Destroy, Uncount
  <2> QED
    BY Zenon, <2>3, <2>4
<1>3. up
  BY Zenon, <1>1 DEF Kernel, Door
<1>4. TypeOK'
  <2>1. reaped' \in [Apps -> BOOLEAN]
    BY Zenon, <1>1 DEF TypeOK
  <2> QED
    BY <1>1, <1>2, <2>1 DEF TypeOK
<1>5. Kernel'
  BY Zenon, <1>1, <1>3, KernelFrame
<1>6. /\ \A b \in Blocks : taskOf'[b] = IF taskOf[b] = t THEN None ELSE taskOf[b]
      /\ \A x \in Tasks : x # t => owner'[x] = owner[x] /\ reaper'[x] = reaper[x]
                                   /\ exec'[x] = exec[x] /\ zombie'[x] = zombie[x]
      /\ owner'[t] = None /\ reaper'[t] = None /\ exec'[t] = "none" /\ ~zombie'[t]
  BY <1>1 DEF TypeOK, Reaper, LinksAgree
<1>7. TargetsApart' /\ TaskOfLive'
  BY ZenonT(40), <1>1, <1>6 DEF Reaper, TargetsApart, TaskOfLive
<1>8. ReapedGone'
  <2> SUFFICES ASSUME NEW a \in Apps, pc'[a] = "asked", reaped'[a]
               PROVE  taskOf'[target'[a]] = None
    BY Zenon DEF ReapedGone
  <2>1. target[a] \in Blocks
    BY Zenon, <1>1 DEF TypeOK, Reaper, TargetsApart
  <2>2. reaped[a] \/ a = reaper[t]
    BY Zenon, <1>1
  <2>3. CASE reaped[a]
    BY Zenon, <1>1, <1>6, <2>1, <2>3 DEF Reaper, ReapedGone
  <2>4. CASE a = reaper[t]
    BY Zenon, <1>1, <1>6, <2>1, <2>4 DEF Reaper, ReaperThere
  <2> QED
    BY Zenon, <2>2, <2>3, <2>4
<1>9. LinksAgree'
  BY SMTT(30), <1>6 DEF TypeOK, Reaper, LinksAgree
<1>10. ReaperThere'
  <2> SUFFICES ASSUME NEW x \in Tasks, reaper'[x] # None
               PROVE  pc'[reaper'[x]] = "asked" /\ taskOf'[target'[reaper'[x]]] = x
    BY Zenon DEF ReaperThere
  <2>1. x # t /\ reaper'[x] = reaper[x] /\ reaper[x] \in Apps
    BY ZenonT(40), <1>6 DEF TypeOK
  <2>2. pc[reaper[x]] = "asked" /\ taskOf[target[reaper[x]]] = x
    BY Zenon, <2>1, <1>6 DEF Reaper, ReaperThere
  <2>3. target[reaper[x]] \in Blocks
    BY <2>1, <2>2 DEF TypeOK, Reaper, TargetsApart
  <2> QED
    BY ZenonT(40), <1>1, <1>6, <2>1, <2>2, <2>3
<1>11. ZombiesCounted'
  BY Zenon, <1>2, <1>6 DEF Reaper, ZombiesCounted
<1> QED
  BY Zenon, <1>4, <1>5, <1>7, <1>8, <1>9, <1>10, <1>11 DEF Reaper

(* The end of a reap: a Task that is still linked is detached in both      *)
(* directions and counted, one that told its reaper is gone already.       *)
LEMMA ReapDoneStep ==
  ASSUME IInv, NEW a \in Apps, ReapDone(a)
  PROVE  IInv'
<1>1. /\ up /\ pc[a] \in {"asked", "unasked"} /\ target[a] \in Blocks
      /\ pc' = [pc EXCEPT ![a] = "in"] /\ target' = [target EXCEPT ![a] = None]
      /\ taskOf' = [taskOf EXCEPT ![target[a]] = None]
      /\ UNCHANGED <<kernelVars, tickVars, masterVars, reaped, created, exec, die>>
  BY DEF ReapDone, Goto, Kernel, AdoptedHaveKernel, Adopted, TypeOK, Reaper, TargetsApart
<1>2. PICK b \in Blocks : b = target[a]
  BY Zenon, <1>1
<1>3. \A x \in Apps : x # a => target[x] # b
  BY Zenon, <1>2 DEF Reaper, TargetsApart
<1>4. Kernel'
  BY Zenon, <1>1, KernelFrame DEF Adopted, TypeOK
<1>5. TargetsApart' /\ TaskOfLive'
  BY <1>1, <1>2, <1>3 DEF TypeOK, Reaper, TargetsApart, TaskOfLive
<1>6. ReapedGone'
  BY <1>1, <1>2, <1>3 DEF TypeOK, Reaper, ReapedGone, TargetsApart
<1>7. \A x \in Tasks : reaper[x] = a => x = taskOf[b]
  BY Zenon, <1>2 DEF Reaper, ReaperThere
<1>8. CASE taskOf[b] = None
  <2>1. UNCHANGED <<owner, reaper, zombie, zombiesLive>> /\ taskOf' = taskOf
    BY <1>1, <1>2, <1>8 DEF ReapDone, TypeOK
  <2>2. TypeOK'
    BY <1>1, <2>1 DEF TypeOK, Adopted
  <2>3. LinksAgree' /\ ZombiesCounted'
    BY <1>1, <2>1 DEF Reaper, LinksAgree, ZombiesCounted
  <2>4. ReaperThere'
    BY <1>1, <1>7, <1>8, <2>1 DEF TypeOK, Reaper, ReaperThere
  <2> QED
    BY Zenon, <1>4, <1>5, <1>6, <2>2, <2>3, <2>4 DEF Reaper
<1>9. ASSUME NEW t \in Tasks, t = taskOf[b] PROVE IInv'
  <2>1. owner[t] = b /\ exec[t] # "none" /\ ~zombie[t]
    BY SMTT(30), <1>9 DEF Reaper, LinksAgree, ZombiesCounted
  <2>2. ~(pc[a] = "asked" /\ reaped[a])
    BY Zenon, <1>2, <1>9 DEF Reaper, ReapedGone
  <2>3. /\ owner' = [owner EXCEPT ![t] = None] /\ reaper' = [reaper EXCEPT ![t] = None]
        /\ zombie' = [zombie EXCEPT ![t] = TRUE] /\ zombiesLive' = zombiesLive + 1
    BY Zenon, <1>2, <1>9, <2>2 DEF ReapDone, Detach
  <2>4. /\ zombiesLive' = Cardinality({x \in Tasks : zombie'[x]})
        /\ zombiesLive' \in 0 .. Cardinality(Tasks)
    BY Zenon, <2>1, <2>3, ZombieCount DEF Reaper, ZombiesCounted
  <2>5. TypeOK'
    BY <1>1, <2>3, <2>4 DEF TypeOK, Adopted
  <2>6. LinksAgree'
    BY <1>1, <1>2, <1>9, <2>1, <2>3 DEF TypeOK, Reaper, LinksAgree
  <2>7. ZombiesCounted'
    BY ZenonT(40), <1>1, <2>1, <2>3, <2>4 DEF TypeOK, Reaper, ZombiesCounted
  <2>8. ReaperThere'
    <3> SUFFICES ASSUME NEW x \in Tasks, reaper'[x] # None
                 PROVE  pc'[reaper'[x]] = "asked" /\ taskOf'[target'[reaper'[x]]] = x
      BY Zenon DEF ReaperThere
    <3>1. x # t /\ reaper'[x] = reaper[x] /\ reaper[x] \in Apps /\ reaper[x] # a
      BY Zenon, <1>7, <1>9, <2>3 DEF TypeOK
    <3>2. pc[reaper[x]] = "asked" /\ taskOf[target[reaper[x]]] = x
      BY Zenon, <3>1 DEF Reaper, ReaperThere
    <3> QED
      BY <1>1, <1>2, <1>3, <3>1, <3>2 DEF TypeOK, Reaper, TargetsApart
  <2> QED
    BY Zenon, <1>4, <1>5, <1>6, <2>5, <2>6, <2>7, <2>8 DEF Reaper
<1> QED
  BY Zenon, <1>8, <1>9 DEF TypeOK

----------------------------------------------------------------------------
(* The commit: no thread, no zombie and nobody else adopted means that no  *)
(* Task of a thread is left.                                               *)
LEMMA CommitStep ==
  ASSUME IInv, NEW a \in Apps, Commit(a)
  PROVE  IInv'
<1>1. /\ pc[a] \in {"out", "in"} /\ created = {} /\ zombiesLive = 0
      /\ \A x \in Apps \ {a} : pc[x] \notin Adopted
      /\ \A x \in Apps : pc[x] \notin Stop
      /\ ~up' /\ stopping' /\ pc' = [pc EXCEPT ![a] = "tick"]
      /\ UNCHANGED <<stacks, tickVars, masterVars, target, reaped, threadVars>>
  BY Zenon DEF Commit, NoStop, MayStop, Remaining, Goto
<1>2. \A x \in Apps : target[x] = None
  BY Zenon, <1>1 DEF Reaper, TargetsApart, Adopted
<1>3. \A b \in Blocks : taskOf[b] = None
  BY Zenon, <1>1, <1>2 DEF Reaper, TaskOfLive
<1>4. \A t \in Tasks : owner[t] = None
  BY <1>3 DEF TypeOK, Reaper, LinksAgree
<1>5. \A t \in Tasks : ~zombie[t]
  <2>1. IsFiniteSet({t \in Tasks : zombie[t]})
    BY Zenon, FS_Subset
  <2>2. {t \in Tasks : zombie[t]} = {}
    BY Zenon, <1>1, <2>1, FS_EmptySet DEF Reaper, ZombiesCounted
  <2> QED
    BY Zenon, <2>2
<1>6. \A t \in Tasks : exec[t] = "none"
  BY Zenon, <1>4, <1>5 DEF Reaper, ZombiesCounted
<1>7. TypeOK'
  <2>1. up' \in BOOLEAN /\ stopping' \in BOOLEAN
    BY Zenon DEF Commit
  <2> QED
    BY Zenon, <1>1, <2>1 DEF TypeOK, Stop
<1>8. Kernel'
  BY <1>1, <1>6
  DEF TypeOK, Kernel, Door, Flags, StacksUnderTasks, AdoptedHaveKernel, Stop, Adopted
<1>9. Reaper'
  BY <1>1, ReaperFrame DEF TypeOK
<1> QED
  BY Zenon, <1>7, <1>8, <1>9

(* The stop goes through its steps, or times out and leaves stopping set.  *)
LEMMA StopStepStep ==
  ASSUME IInv, NEW a \in Apps, StopStep(a)
  PROVE  IInv'
<1> USE DEF StopStep, StopTick, PokeTick, AwaitTick, WakeMaster, AwaitMaster, Free
<1>1. /\ pc[a] \in Stop /\ stopping /\ ~up
      /\ UNCHANGED <<up, tick, tickPtr, master, schedPtr, masterGone, target, reaped,
                     threadVars>>
      /\ \A x \in Apps : x # a => pc[x] \notin Stop
  BY Zenon DEF Stop, Kernel, Door
<1>2. PICK q \in {"poke", "wake", "tickwait", "masterwait", "free", "out"} :
        pc' = [pc EXCEPT ![a] = q]
  BY Zenon DEF Goto
<1>3. pc'[a] = q /\ \A x \in Apps : x # a => pc'[x] = pc[x]
  BY ZenonT(40), <1>2 DEF TypeOK
<1>4. TypeOK'
  <2>1. /\ stopping' \in BOOLEAN /\ tickSig' \in BOOLEAN /\ tickStop' \in BOOLEAN
        /\ tickGone' \in BOOLEAN /\ schedSig' \in BOOLEAN
    BY Zenon DEF TypeOK
  <2>2. stacks' \in {stacks, {}}
    BY Zenon
  <2> QED
    BY ZenonT(40), <1>1, <1>2, <2>1, <2>2 DEF TypeOK, Stop
<1>5. /\ tickGone => tickGone'
      /\ tickGone' => tick = "none"
      /\ q \in {"wake", "masterwait", "free"} => tickGone'
      /\ q = "free" => masterGone
      /\ \/ stopping' /\ stacks' = stacks
         \/ ~stopping' /\ q = "out" /\ tick = "none" /\ master = "none"
  <2>1. /\ tickGone => tick = "none"
        /\ tickPtr <=> tick # "none"
        /\ masterGone => master = "none"
        /\ pc[a] \in {"wake", "masterwait", "free"} => tickGone
        /\ pc[a] = "free" => masterGone
    BY Zenon, <1>1 DEF Kernel, Flags
  <2>2. \A p : Goto(a, p) => q = p
    BY Zenon, <1>3 DEF TypeOK, Goto
  <2>3. CASE Free(a)
    BY Zenon, <1>1, <2>1, <2>2, <2>3
  <2>4. CASE ~Free(a)
    <3>1. stopping' /\ stacks' = stacks
      BY Zenon, <1>1, <2>4
    <3>2. CASE StopTick(a)
      BY Zenon, <2>1, <2>2, <3>1, <3>2
    <3>3. CASE PokeTick(a) \/ AwaitTick(a) \/ WakeMaster(a) \/ AwaitMaster(a)
      <4>1. tickGone' = tickGone
        BY Zenon, <3>3
      <4>2. \/ q = "tickwait"
            \/ q \in {"wake", "out"} /\ (q = "wake" => tickGone)
            \/ pc[a] = "wake" /\ q = "masterwait"
            \/ pc[a] = "masterwait" /\ q \in {"free", "out"} /\ (q = "free" => masterGone)
        BY Zenon, <2>2, <3>3
      <4> QED
        BY Zenon, <2>1, <3>1, <4>1, <4>2
    <3> QED
      BY Zenon, <2>4, <3>2, <3>3
  <2> QED
    BY Zenon, <2>3, <2>4
<1>6. Kernel'
  <2>1. Door'
    BY Zenon, <1>1, <1>3, <1>5 DEF Kernel, Door, Stop
  <2>2. Flags'
    BY Zenon, <1>1, <1>3, <1>5 DEF Kernel, Flags, Stop
  <2>3. StacksUnderTasks'
    BY Zenon, <1>1, <1>5 DEF Kernel, StacksUnderTasks
  <2>4. AdoptedHaveKernel'
    BY Zenon, <1>1, <1>3 DEF Kernel, AdoptedHaveKernel, Adopted
  <2> QED
    BY Zenon, <2>1, <2>2, <2>3, <2>4 DEF Kernel
<1>7. Reaper'
  BY ZenonT(40), <1>1, <1>3, ReaperFrame DEF Stop
<1> QED
  BY Zenon, <1>4, <1>6, <1>7

(* The tick Task and the master leave, or are woken for nothing.           *)
LEMMA OwnTaskStep ==
  ASSUME IInv, TickExit \/ MasterExit \/ MasterPoked \/ MasterIdle
  PROVE  IInv'
<1> USE DEF TickExit, MasterExit, MasterPoked, MasterIdle
<1>1. /\ UNCHANGED <<kernelVars, appVars, threadVars>>
      /\ \/ UNCHANGED <<tick, tickPtr, tickGone>>
         \/ tick' = "none" /\ ~tickPtr' /\ tickGone'
      /\ \/ UNCHANGED <<master, masterGone>>
         \/ master' = "none" /\ masterGone'
  BY Zenon
<1>2. TypeOK'
  <2>1. /\ tickPtr' \in BOOLEAN /\ tickSig' \in BOOLEAN /\ tickStop' \in BOOLEAN
        /\ tickGone' \in BOOLEAN /\ schedPtr' \in BOOLEAN /\ schedSig' \in BOOLEAN
        /\ masterGone' \in BOOLEAN
    BY Zenon DEF TypeOK
  <2> QED
    BY ZenonT(40), <1>1, <2>1 DEF TypeOK
<1>3. Kernel'
  BY SMTT(30), <1>1 DEF Kernel, Door, Flags, StacksUnderTasks, AdoptedHaveKernel
<1>4. Reaper'
  BY Zenon, <1>1, ReaperFrame
<1> QED
  BY Zenon, <1>2, <1>3, <1>4

LEMMA NextIInv == IInv /\ [Next]_vars => IInv'
<1> SUFFICES ASSUME IInv, [Next]_vars PROVE IInv'
  BY Zenon
<1>1. CASE UNCHANGED vars
  BY SMTT(30), <1>1, ReaperFrame
  DEF vars, TypeOK, Kernel, Door, Flags, StacksUnderTasks, AdoptedHaveKernel
<1>2. ASSUME NEW a \in Apps,
             Start(a) \/ Adopt(a) \/ Orphan(a) \/ ReapDone(a) \/ Commit(a) \/ StopStep(a)
      PROVE  IInv'
  BY Zenon, <1>2, StartStep, AdoptStep, ReapDoneStep, CommitStep, StopStepStep
<1>3. ASSUME NEW a \in Apps, NEW b \in Blocks, Create(a, b) \/ Reap(a, b) PROVE IInv'
  BY Zenon, <1>3, CreateStep, ReapStep
<1>4. ASSUME NEW t \in Tasks, EnterExec(t) \/ LeaveExec(t) \/ Destroy(t) PROVE IInv'
  BY Zenon, <1>4, ExecStep, DestroyStep
<1> QED
  BY Zenon, <1>1, <1>2, <1>3, <1>4, OwnTaskStep DEF Next

(* The inductive invariant holds in every reachable state.                 *)
THEOREM Invariance == Spec => []IInv
<1>1. Init => IInv
  BY Zenon, InitIInv
<1>2. IInv /\ [Next]_vars => IInv'
  BY Zenon, NextIInv
<1> QED
  BY <1>1, <1>2, PTL DEF Spec

----------------------------------------------------------------------------
(* A stop succeeds only when nothing of the port can run, and frees no     *)
(* stack that a Task stands on.                                            *)
THEOREM ExactStop == Spec => []StopExact
<1>1. IInv => StopExact
  BY Zenon DEF StopExact, NothingOfThePort, Kernel, Door, Flags
<1> QED
  BY <1>1, Invariance, PTL

(* Nobody is adopted by a kernel that is being dismantled.                 *)
THEOREM AdoptedByUpKernel == Spec => []AdoptedHaveKernel
<1>1. IInv => AdoptedHaveKernel
  BY Zenon DEF Kernel
<1> QED
  BY <1>1, Invariance, PTL

(* Reaping keeps TX_THREADs, Tasks, reapers and the zombie count exact.    *)
THEOREM ExactReaping == Spec => []ReapingExact
<1>1. IInv => ReapingExact
  BY Zenon DEF ReapingExact, Reaper
<1> QED
  BY <1>1, Invariance, PTL
=============================================================================
