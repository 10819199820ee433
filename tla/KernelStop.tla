----------------------------- MODULE KernelStop -----------------------------
(***************************************************************************)
(* Starting and stopping the hosted kernel (tx_initialize_low_level.c) and *)
(* taking away the Exec Tasks behind ThreadX threads (tx_thread_schedule.c *)
(* and tx_thread_system_return.c).  A stop may report success only when    *)
(* nothing of the port can run again, because the caller then unloads the  *)
(* code: not the tick Task, not the scheduler's (master) Task, and no Task *)
(* of a deleted thread that was too deep in Exec to be reaped in time.     *)
(*                                                                         *)
(* A Forbid() section is one step.  Every timeout may expire at any time.  *)
(* Starts and stops are made under ami_ns_lock, one at a time.             *)
(*                                                                         *)
(* Uncount..., Detach... and the like, before the definition they vary,    *)
(* are plausible mistakes in it; each breaks one of the properties below.  *)
(***************************************************************************)
EXTENDS Integers, FiniteSets

CONSTANTS Apps,    \* Tasks of applications; they adopt, delete, start, stop
          Blocks,  \* TX_THREADs that ThreadX gives Tasks of their own
          Tasks,   \* those Tasks; an identity is used again once it is gone
          None

ASSUME KernelStopAssumption ==
  /\ IsFiniteSet(Tasks)
  /\ None \notin Apps \cup Blocks \cup Tasks

VARIABLES up, stopping,        \* _tx_amiga_kernel_up, _tx_amiga_kernel_stopping
          tick,                \* the tick Task: parked waits for SIGF_SINGLE only
          tickPtr, tickSig,    \* _tx_amiga_timer_task is set; its SIGF_SINGLE
          tickStop, tickGone,  \* _tx_amiga_timer_stop, _tx_amiga_timer_gone
          master,              \* the scheduler's Task
          schedPtr, schedSig,  \* _tx_amiga_scheduler_task is set; its signal
          masterGone,          \* _tx_amiga_master_gone
          stacks,              \* the stacks of those two not yet freed
          pc, target,          \* where an application Task is; whom it deletes
          reaped,              \* the flag on its stack
          created,             \* the ThreadX created list, adoptions left out
          taskOf,              \* tx_thread_amiga_task
          exec,                \* the Task: stuck is blocked in Exec
          owner, die, zombie,  \* ctrl_thread, ctrl_die, ctrl_zombie
          reaper,              \* ctrl_reaper and ctrl_reaped
          zombiesLive          \* _tx_amiga_zombies_live

kernelVars == <<up, stopping, stacks>>
tickVars == <<tick, tickPtr, tickSig, tickStop, tickGone>>
masterVars == <<master, schedPtr, schedSig, masterGone>>
appVars == <<pc, target, reaped>>
threadVars == <<created, taskOf, exec, owner, die, zombie, reaper, zombiesLive>>
vars == <<kernelVars, tickVars, masterVars, appVars, threadVars>>

Adopted == {"in", "asked", "unasked"}  \* the Task's own TX_THREAD exists
Stop == {"tick", "poke", "tickwait", "wake", "masterwait", "free"}

TypeOK ==
  /\ up \in BOOLEAN /\ stopping \in BOOLEAN
  /\ tick \in {"none", "parked", "ticking"} /\ master \in {"none", "run"}
  /\ tickPtr \in BOOLEAN /\ tickSig \in BOOLEAN
  /\ tickStop \in BOOLEAN /\ tickGone \in BOOLEAN
  /\ schedPtr \in BOOLEAN /\ schedSig \in BOOLEAN /\ masterGone \in BOOLEAN
  /\ stacks \subseteq {"tick", "master"}
  /\ pc \in [Apps -> {"out"} \cup Adopted \cup Stop]
  /\ target \in [Apps -> Blocks \cup {None}] /\ reaped \in [Apps -> BOOLEAN]
  /\ created \subseteq Blocks /\ taskOf \in [Blocks -> Tasks \cup {None}]
  /\ exec \in [Tasks -> {"none", "run", "stuck"}]
  /\ owner \in [Tasks -> Blocks \cup {None}]
  /\ die \in [Tasks -> BOOLEAN] /\ zombie \in [Tasks -> BOOLEAN]
  /\ reaper \in [Tasks -> Apps \cup {None}]
  /\ zombiesLive \in 0 .. Cardinality(Tasks)

Init ==
  /\ up = FALSE /\ stopping = FALSE /\ stacks = {}
  /\ tick = "none" /\ tickPtr = FALSE /\ tickSig = FALSE
  /\ tickStop = FALSE /\ tickGone = FALSE
  /\ master = "none" /\ schedPtr = FALSE /\ schedSig = FALSE /\ masterGone = FALSE
  /\ pc = [a \in Apps |-> "out"]
  /\ target = [a \in Apps |-> None] /\ reaped = [a \in Apps |-> FALSE]
  /\ created = {} /\ taskOf = [b \in Blocks |-> None]
  /\ exec = [t \in Tasks |-> "none"] /\ owner = [t \in Tasks |-> None]
  /\ die = [t \in Tasks |-> FALSE] /\ zombie = [t \in Tasks |-> FALSE]
  /\ reaper = [t \in Tasks |-> None] /\ zombiesLive = 0

Goto(a, p) == pc' = [pc EXCEPT ![a] = p]
NoStop == \A a \in Apps : pc[a] \notin Stop     \* ami_ns_lock is free

----------------------------------------------------------------------------
(* tx_amiga_kernel_start(), to the starter's signal.  The tick Task may    *)
(* not be had, or find no wakeup source and park.  Without a signal the    *)
(* scheduler has neither name nor tick, and waits for ever.                *)
Start(a) ==
  /\ NoStop /\ pc[a] = "out" /\ ~up /\ ~stopping
  /\ up' = TRUE /\ master' = "run" /\ masterGone' = FALSE /\ schedSig' = FALSE
  /\ schedPtr' \in BOOLEAN
  /\ tick' \in IF schedPtr' THEN {"none", "parked", "ticking"} ELSE {"none"}
  /\ tickPtr' = (tick' # "none") /\ tickSig' = FALSE /\ tickGone' = FALSE
  /\ tickStop' = FALSE
  /\ stacks' = {"master"} \cup (IF tick' # "none" THEN {"tick"} ELSE {})
  /\ UNCHANGED <<stopping, appVars, threadVars>>

(* The public calls that give a Task a TX_THREAD and take it back.         *)
Adopt(a) ==
  /\ pc[a] = "out" /\ up /\ ~stopping
  /\ Goto(a, "in")
  /\ UNCHANGED <<kernelVars, tickVars, masterVars, target, reaped, threadVars>>

Orphan(a) ==
  /\ pc[a] = "in"
  /\ Goto(a, "out")
  /\ UNCHANGED <<kernelVars, tickVars, masterVars, target, reaped, threadVars>>

----------------------------------------------------------------------------
(* A thread with a Task of its own.                                        *)

(* _tx_thread_stack_build(): a Task, or none when memory is short.         *)
Create(a, b) ==
  /\ pc[a] = "in" /\ b \notin created /\ \A x \in Apps : target[x] # b
  /\ created' = created \cup {b}
  /\ \/ \E t \in Tasks :
          /\ exec[t] = "none"
          /\ exec' = [exec EXCEPT ![t] = "run"]
          /\ owner' = [owner EXCEPT ![t] = b]
          /\ taskOf' = [taskOf EXCEPT ![b] = t]
     \/ taskOf' = [taskOf EXCEPT ![b] = None] /\ UNCHANGED <<exec, owner>>
  /\ UNCHANGED <<kernelVars, tickVars, masterVars, appVars, die, zombie, reaper,
                 zombiesLive>>

(* The Task blocks in an Exec call of its own, and comes back from it.     *)
EnterExec(t) ==
  /\ exec[t] = "run"
  /\ exec' = [exec EXCEPT ![t] = "stuck"]
  /\ UNCHANGED <<kernelVars, tickVars, masterVars, appVars, created, taskOf, owner,
                 die, zombie, reaper, zombiesLive>>

LeaveExec(t) ==
  /\ exec[t] = "stuck"
  /\ exec' = [exec EXCEPT ![t] = "run"]
  /\ UNCHANGED <<kernelVars, tickVars, masterVars, appVars, created, taskOf, owner,
                 die, zombie, reaper, zombiesLive>>

(* _tx_thread_delete() takes the thread off the created list and calls     *)
(* _tx_amiga_reap(), which asks the Task to die: with a handshake, or      *)
(* without one when the caller has no signal left.                         *)
Reap(a, b) ==
  /\ pc[a] = "in" /\ b \in created
  /\ created' = created \ {b}
  /\ LET t == taskOf[b] IN
       IF t = None
       THEN UNCHANGED <<pc, target, reaped, die, reaper>>
       ELSE /\ die' = [die EXCEPT ![t] = TRUE]
            /\ target' = [target EXCEPT ![a] = b]
            /\ reaped' = [reaped EXCEPT ![a] = FALSE]
            /\ \/ Goto(a, "asked") /\ reaper' = [reaper EXCEPT ![t] = a]
               \/ Goto(a, "unasked") /\ reaper' = [reaper EXCEPT ![t] = None]
  /\ UNCHANGED <<kernelVars, tickVars, masterVars, taskOf, exec, owner, zombie,
                 zombiesLive>>

(* _tx_amiga_task_destroy(), once a Task told to die is out of Exec.  It   *)
(* touches its own control block and what that still points to.            *)
Uncount(t) ==
  zombiesLive' = IF zombie[t] /\ zombiesLive # 0 THEN zombiesLive - 1
                                                 ELSE zombiesLive

Destroy(t) ==
  /\ exec[t] = "run" /\ die[t]
  /\ exec' = [exec EXCEPT ![t] = "none"]
  /\ taskOf' = [b \in Blocks |-> IF b = owner[t] THEN None ELSE taskOf[b]]
  /\ reaped' = [a \in Apps |-> reaped[a] \/ a = reaper[t]]
  /\ owner' = [owner EXCEPT ![t] = None]
  /\ reaper' = [reaper EXCEPT ![t] = None]
  /\ die' = [die EXCEPT ![t] = FALSE]
  /\ Uncount(t) /\ zombie' = [zombie EXCEPT ![t] = FALSE]
  /\ UNCHANGED <<kernelVars, tickVars, masterVars, pc, target, created>>

DetachLeavingFlag(t) ==
  /\ owner' = [owner EXCEPT ![t] = None]
  /\ UNCHANGED reaper
  /\ zombie' = [zombie EXCEPT ![t] = TRUE]
  /\ zombiesLive' = zombiesLive + 1

(* The end of _tx_amiga_reap(), on the handshake or on the timeout: a Task *)
(* that has not gone is detached in both directions and counted.           *)
Detach(t) ==
  /\ owner' = [owner EXCEPT ![t] = None]
  /\ reaper' = [reaper EXCEPT ![t] = None]
  /\ zombie' = [zombie EXCEPT ![t] = TRUE]
  /\ zombiesLive' = zombiesLive + 1

ReapDone(a) ==
  /\ pc[a] \in {"asked", "unasked"}
  /\ LET b == target[a]
         t == taskOf[b]
     IN /\ IF t # None /\ ~(pc[a] = "asked" /\ reaped[a])
           THEN Detach(t)
           ELSE UNCHANGED <<owner, reaper, zombie, zombiesLive>>
        /\ taskOf' = [taskOf EXCEPT ![b] = None]
  /\ Goto(a, "in") /\ target' = [target EXCEPT ![a] = None]
  /\ UNCHANGED <<kernelVars, tickVars, masterVars, reaped, created, exec, die>>

----------------------------------------------------------------------------
(* tx_amiga_kernel_stop().                                                 *)

RemainingOwn(a) == created # {}

(* The threads that would outlive the stop; the caller's own adoption does *)
(* not count.                                                              *)
Remaining(a) ==
  created # {} \/ \E x \in Apps \ {a} : pc[x] \in Adopted

MayStop(a) ==
  /\ up \/ stopping
  /\ ~Remaining(a) /\ zombiesLive = 0
  /\ masterGone \/ schedPtr

(* Check and commit are one Forbid() section; a refusal changes nothing.   *)
Commit(a) ==
  /\ NoStop /\ pc[a] \in {"out", "in"} /\ MayStop(a)
  /\ up' = FALSE /\ stopping' = TRUE
  /\ Goto(a, "tick")
  /\ UNCHANGED <<stacks, tickVars, masterVars, target, reaped, threadVars>>

(* Step 1, the tick: the pointer is tested, the flag raised.               *)
StopTick(a) ==
  /\ pc[a] = "tick"
  /\ tickStop' = TRUE
  /\ IF tickPtr
     THEN Goto(a, "poke") /\ UNCHANGED tickGone
     ELSE Goto(a, "wake") /\ tickGone' = TRUE
  /\ UNCHANGED <<kernelVars, tick, tickPtr, tickSig, masterVars, target, reaped,
                 threadVars>>

PokeTickNever(a) ==
  /\ pc[a] = "poke"
  /\ Goto(a, "tickwait")
  /\ UNCHANGED <<kernelVars, tickVars, masterVars, target, reaped, threadVars>>

(* The pointer is read again for the Signal(), outside any Forbid().       *)
PokeTick(a) ==
  /\ pc[a] = "poke"
  /\ tickSig' = (tickSig \/ tickPtr)
  /\ Goto(a, "tickwait")
  /\ UNCHANGED <<kernelVars, tick, tickPtr, tickStop, tickGone, masterVars, target,
                 reaped, threadVars>>

(* _tx_amiga_stop_wait(): the flag, or the timeout; a failed stop returns  *)
(* with everything allocated and stopping still set, to be tried again.    *)
AwaitTick(a) ==
  /\ pc[a] = "tickwait"
  /\ Goto(a, IF tickGone THEN "wake" ELSE "out")
  /\ UNCHANGED <<kernelVars, tickVars, masterVars, target, reaped, threadVars>>

AwaitMasterNever(a) ==
  /\ pc[a] = "masterwait"
  /\ Goto(a, "free")
  /\ UNCHANGED <<kernelVars, tickVars, masterVars, target, reaped, threadVars>>

(* Step 3, the master.                                                     *)
WakeMaster(a) ==
  /\ pc[a] = "wake"
  /\ schedSig' = (schedSig \/ schedPtr)
  /\ Goto(a, "masterwait")
  /\ UNCHANGED <<kernelVars, tickVars, master, schedPtr, masterGone, target, reaped,
                 threadVars>>

AwaitMaster(a) ==
  /\ pc[a] = "masterwait"
  /\ Goto(a, IF masterGone THEN "free" ELSE "out")
  /\ UNCHANGED <<kernelVars, tickVars, masterVars, target, reaped, threadVars>>

(* Steps 4 and 5: the memory, and success.                                 *)
Free(a) ==
  /\ pc[a] = "free"
  /\ stacks' = {} /\ stopping' = FALSE /\ tickStop' = FALSE
  /\ Goto(a, "out")
  /\ UNCHANGED <<up, tick, tickPtr, tickSig, tickGone, masterVars, target, reaped,
                 threadVars>>

----------------------------------------------------------------------------
(* The port's two own Tasks.  A ticking Task wakes with every frame and    *)
(* sees the flag by itself.                                                *)

TickExit ==
  /\ tick = "ticking" \/ (tick = "parked" /\ tickSig)
  /\ tickStop
  /\ tick' = "none" /\ tickPtr' = FALSE /\ tickGone' = TRUE
  /\ UNCHANGED <<kernelVars, tickSig, tickStop, masterVars, appVars, threadVars>>

(* The scheduler leaves its loop when it is woken and a stop is on; until  *)
(* then any dispatch may wake it (ThreadX has nothing left to run).        *)
MasterExit ==
  /\ master = "run" /\ schedPtr /\ schedSig /\ stopping
  /\ master' = "none" /\ schedPtr' = FALSE /\ schedSig' = FALSE
  /\ masterGone' = TRUE
  /\ UNCHANGED <<kernelVars, tickVars, appVars, threadVars>>

MasterPoked ==
  /\ master = "run" /\ schedPtr /\ ~schedSig
  /\ schedSig' = TRUE
  /\ UNCHANGED <<kernelVars, tickVars, master, schedPtr, masterGone, appVars,
                 threadVars>>

MasterIdle ==
  /\ master = "run" /\ schedSig /\ ~stopping
  /\ schedSig' = FALSE
  /\ UNCHANGED <<kernelVars, tickVars, master, schedPtr, masterGone, appVars,
                 threadVars>>

----------------------------------------------------------------------------
StopStep(a) ==
  StopTick(a) \/ PokeTick(a) \/ AwaitTick(a) \/ WakeMaster(a) \/ AwaitMaster(a)
    \/ Free(a)

Next ==
  \/ \E a \in Apps :
       \/ Start(a) \/ Adopt(a) \/ Orphan(a) \/ ReapDone(a)
       \/ Commit(a) \/ StopStep(a)
       \/ \E b \in Blocks : Create(a, b) \/ Reap(a, b)
  \/ \E t \in Tasks : EnterExec(t) \/ LeaveExec(t) \/ Destroy(t)
  \/ TickExit \/ MasterExit \/ MasterPoked \/ MasterIdle

Spec == Init /\ [][Next]_vars

(* A call runs to its end (its waits time out), and Exec runs the tick.    *)
Fairness ==
  /\ \A a \in Apps : WF_vars(StopStep(a))
  /\ WF_vars(TickExit) /\ WF_vars(MasterExit)

FairSpec == Spec /\ Fairness

----------------------------------------------------------------------------
(* tx_amiga_kernel_stop() returns TX_SUCCESS, and the kernel reads as      *)
(* neither up nor stopping, only when nothing of the port is running: the  *)
(* tick, the master, every Task of a thread and every zombie have left,    *)
(* however many timeouts expired and stops were tried again.               *)
NothingOfThePort ==
  ~up /\ ~stopping =>
    /\ tick = "none" /\ master = "none"
    /\ \A t \in Tasks : exec[t] = "none"

(* A Task never loses the stack it stands on: the two stacks are freed     *)
(* only after the flags their Tasks raise with their last act.             *)
StacksUnderTasks ==
  /\ tick # "none" => "tick" \in stacks
  /\ master # "none" => "master" \in stacks

(* A stop frees nothing early and leaves nothing behind, however often it  *)
(* timed out and was tried again.                                          *)
StopExact == NothingOfThePort /\ StacksUnderTasks

(* No Task is adopted by a kernel that is being dismantled: counting the   *)
(* threads and closing the door are one step.                              *)
AdoptedHaveKernel ==
  \A a \in Apps : pc[a] \in Adopted => up /\ ~stopping

(* A TX_THREAD and its Task name each other or neither does, so a zombie   *)
(* that unblocks late cannot clear the Task of a TX_THREAD that was used   *)
(* again since (_tx_amiga_task_destroy()).                                 *)
LinksAgree ==
  /\ \A b \in Blocks, t \in Tasks : taskOf[b] = t <=> owner[t] = b
  /\ \A t \in Tasks : owner[t] # None => exec[t] # "none"

(* The flag a dying Task sets is on its reaper's stack: while the control  *)
(* block points there, the reaper is still inside the reap of that Task.   *)
ReaperThere ==
  \A t \in Tasks : reaper[t] # None =>
    pc[reaper[t]] = "asked" /\ taskOf[target[reaper[t]]] = t

(* The live-zombie count that a stop waits on is the number of Tasks the   *)
(* reaper gave up on, and every Task without a thread is one of them.      *)
ZombiesCounted ==
  /\ zombiesLive = Cardinality({t \in Tasks : zombie[t]})
  /\ \A t \in Tasks : zombie[t] <=> exec[t] # "none" /\ owner[t] = None

(* Reaping loses no Task and no control block, whether the Task exits in   *)
(* time, at the timeout or long after its TX_THREAD was used again.        *)
ReapingExact == LinksAgree /\ ReaperThere /\ ZombiesCounted

(* A stop that has begun gets rid of the tick Task, also of one parked     *)
(* without a wakeup source and also after the wait for it timed out.       *)
TickLeaves == stopping ~> tick = "none"
=============================================================================
