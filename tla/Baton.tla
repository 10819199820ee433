------------------------------- MODULE Baton -------------------------------
(***************************************************************************)
(* The hosted ThreadX scheduler of port/threadx-amiga: every ThreadX       *)
(* thread is an Exec Task, and the one Task allowed to run stack code is   *)
(* the Task of the thread in _tx_thread_current_ptr, the "baton".          *)
(*                                                                         *)
(* A Forbid()/Permit() section is one atomic step.  The port raises        *)
(* _tx_thread_system_state only inside such a section, so it is 0 between  *)
(* steps and is not a variable.  The kernel is up throughout; its stop is  *)
(* in KernelStop.  The slot pool behind an adoption is in AdoptPool: here  *)
(* a thread is one adoption record (one library base of its Task), and     *)
(* claiming its slot always succeeds.                                      *)
(***************************************************************************)
EXTENDS Naturals, FiniteSets

CONSTANTS Tasks,     \* Exec Tasks
          Threads,   \* TX_THREADs
          Internal,  \* threads the port creates a Task for (IP thread, workers)
          Owner,     \* the Task of each thread
          Prio,      \* ThreadX priority, 0 the most urgent
          MaxNest,   \* bound on exec-wait bracket nesting
          None

ASSUME BatonAssumption ==
  /\ Internal \subseteq Threads
  /\ Owner \in [Threads -> Tasks]
  /\ \A t \in Internal : \A u \in Threads : Owner[u] = Owner[t] => u = t
  /\ Prio \in [Threads -> Nat]
  /\ MaxNest \in Nat \ {0}
  /\ None \notin Threads

VARIABLES current,   \* _tx_thread_current_ptr
          execute,   \* _tx_thread_execute_ptr
          tstate,    \* ThreadX state of each thread
          nesting,   \* tx_thread_amiga_exec_wait_nesting
          preempt,   \* _tx_thread_preempt_disable is raised
          runSig,    \* the thread's run signal is latched in its Task
          schedPc,   \* the scheduler Task: testing, or in Wait()
          schedSig,  \* its signal is latched
          pc,        \* where each Task is
          mine,      \* the thread a Task is using
          alive      \* the Task is on Exec's lists

vars == <<current, execute, tstate, nesting, preempt, runSig,
          schedPc, schedSig, pc, mine, alive>>

ThreadOrNone == Threads \cup {None}

(* Where a Task is: outside the stack; running as a thread; in a core      *)
(* service with preemption locked out; unlinked and about to call          *)
(* _tx_thread_system_return(); in an exec-wait bracket; about to wake the  *)
(* scheduler; in _tx_amiga_thread_park(); about to clear a spent signal.   *)
Places == {"out", "run", "svc", "sysret", "bracket", "poke", "park", "spend"}

Inside == {"run", "svc", "sysret"}

TypeOK ==
  /\ current \in ThreadOrNone
  /\ execute \in ThreadOrNone
  /\ tstate \in [Threads -> {"absent", "ready", "suspended", "blocked"}]
  /\ nesting \in [Threads -> 0..MaxNest]
  /\ preempt \in BOOLEAN
  /\ runSig \in [Threads -> BOOLEAN]
  /\ schedPc \in {"test", "wait"}
  /\ schedSig \in BOOLEAN
  /\ pc \in [Tasks -> Places]
  /\ mine \in [Tasks -> ThreadOrNone]
  /\ alive \in [Tasks -> BOOLEAN]

App == Threads \ Internal

Init ==
  /\ current = None /\ execute = None
  /\ tstate = [t \in Threads |-> "absent"]
  /\ nesting = [t \in Threads |-> 0]
  /\ preempt = FALSE
  /\ runSig = [t \in Threads |-> FALSE]
  /\ schedPc = "test" /\ schedSig = FALSE
  /\ pc = [k \in Tasks |-> "out"]
  /\ mine = [k \in Tasks |-> None]
  /\ alive = [k \in Tasks |-> \A t \in Internal : Owner[t] # k]

----------------------------------------------------------------------------
(* External: the ThreadX core's ready list.                                *)

Ready(ts) == {t \in Threads : ts[t] = "ready"}

Top(R) == {t \in R : \A u \in R : Prio[t] <= Prio[u]}

(* _tx_thread_execute_ptr after the ready list becomes that of ts: the     *)
(* choice stands while it is among the most urgent, else any of those.     *)
Elect(ts) ==
  LET R == Ready(ts) IN
    IF R = {} THEN execute' = None
    ELSE /\ execute' \in Top(R)
         /\ execute \in Top(R) => execute' = execute

----------------------------------------------------------------------------
(* Mutants, named ...Mutant, precede their subject: each is a plausible    *)
(* mistake in the code and is used by no specification.                    *)

(* _tx_amiga_signal_thread(): Signal() the thread's Task if Exec lists it. *)
SignalThreadMutant(sig, t) == sig
SignalThread(sig, t) ==
  IF alive[Owner[t]] THEN [sig EXCEPT ![t] = TRUE] ELSE sig

(* _tx_amiga_dispatch_inline(), with holder c: a free baton goes to the    *)
(* elected thread.  With the kernel up that always succeeds when there is  *)
(* one, so _tx_amiga_wake_needed() is never TRUE here.                     *)
DispatchInlineMutant(c, sig) ==
  IF execute' # None
  THEN current' = execute' /\ runSig' = SignalThread(sig, execute')
  ELSE current' = c /\ runSig' = sig
DispatchInline(c, sig) ==
  IF c = None /\ execute' # None
  THEN current' = execute' /\ runSig' = SignalThread(sig, execute')
  ELSE current' = c /\ runSig' = sig

(* The common tail of adopt and resume: the free-baton fast path, or wake  *)
(* the scheduler and park.                                                 *)
TakeOrParkMutant(k, t) ==
  IF execute' = t
  THEN current' = t /\ pc' = [pc EXCEPT ![k] = "run"]
  ELSE current' = current /\ pc' = [pc EXCEPT ![k] = "poke"]
TakeOrPark(k, t) ==
  IF current = None /\ execute' = t
  THEN current' = t /\ pc' = [pc EXCEPT ![k] = "run"]
  ELSE current' = current /\ pc' = [pc EXCEPT ![k] = "poke"]

(* tx_amiga_adopt_thread(): a fresh run signal, create with auto-start.    *)
Adopt(k, t) ==
  /\ alive[k] /\ pc[k] = "out"
  /\ t \in App /\ Owner[t] = k /\ tstate[t] = "absent"
  /\ tstate' = [tstate EXCEPT ![t] = "ready"]
  /\ Elect(tstate')
  /\ runSig' = [runSig EXCEPT ![t] = FALSE]
  /\ mine' = [mine EXCEPT ![k] = t]
  /\ TakeOrPark(k, t)
  /\ UNCHANGED <<nesting, preempt, schedPc, schedSig, alive>>

(* tx_amiga_adopt_resume() of a dormant adoption.                          *)
Resume(k, t) ==
  /\ alive[k] /\ pc[k] = "out"
  /\ t \in App /\ Owner[t] = k /\ tstate[t] = "suspended"
  /\ tstate' = [tstate EXCEPT ![t] = "ready"]
  /\ Elect(tstate')
  /\ mine' = [mine EXCEPT ![k] = t]
  /\ TakeOrPark(k, t)
  /\ UNCHANGED <<nesting, preempt, runSig, schedPc, schedSig, alive>>

(* _tx_amiga_wake_scheduler() after Permit(), then park.                   *)
Poke(k) ==
  /\ alive[k] /\ pc[k] = "poke"
  /\ schedSig' = TRUE
  /\ pc' = [pc EXCEPT ![k] = "park"]
  /\ UNCHANGED <<current, execute, tstate, nesting, preempt, runSig,
                 schedPc, mine, alive>>

(* One turn of _tx_amiga_thread_park(): Wait() consumes the run signal and *)
(* the Task runs only if the baton is its thread's.                        *)
ParkWake(k) ==
  /\ alive[k] /\ pc[k] = "park" /\ runSig[mine[k]]
  /\ runSig' = [runSig EXCEPT ![mine[k]] = FALSE]
  /\ pc' = IF current = mine[k] THEN [pc EXCEPT ![k] = "run"] ELSE pc
  /\ UNCHANGED <<current, execute, tstate, nesting, preempt,
                 schedPc, schedSig, mine, alive>>

(* Release the baton if it is the thread's, then hand it on.               *)
GiveUp(t) ==
  DispatchInline(IF current = t THEN None ELSE current, runSig)

(* tx_amiga_adopt_suspend(): dormant, keeping the TX_THREAD.               *)
Suspend(k) ==
  /\ alive[k] /\ pc[k] = "run" /\ mine[k] \in App
  /\ tstate' = [tstate EXCEPT ![mine[k]] = "suspended"]
  /\ Elect(tstate')
  /\ GiveUp(mine[k])
  /\ pc' = [pc EXCEPT ![k] = "spend"]
  /\ UNCHANGED <<nesting, preempt, schedPc, schedSig, mine, alive>>

(* tx_amiga_orphan_thread() by the owner.                                  *)
Orphan(k) ==
  /\ alive[k] /\ pc[k] = "run" /\ mine[k] \in App
  /\ tstate' = [tstate EXCEPT ![mine[k]] = "absent"]
  /\ Elect(tstate')
  /\ GiveUp(mine[k])
  /\ pc' = [pc EXCEPT ![k] = "spend"]
  /\ UNCHANGED <<nesting, preempt, schedPc, schedSig, mine, alive>>

(* The SetSignal(0, run) both end with, after Permit().                    *)
Spend(k) ==
  /\ alive[k] /\ pc[k] = "spend"
  /\ runSig' = [runSig EXCEPT ![mine[k]] = FALSE]
  /\ pc' = [pc EXCEPT ![k] = "out"]
  /\ mine' = [mine EXCEPT ![k] = None]
  /\ UNCHANGED <<current, execute, tstate, nesting, preempt,
                 schedPc, schedSig, alive>>

----------------------------------------------------------------------------
(* External: core services as the holder runs them.                        *)

(* A service raises _tx_thread_preempt_disable and drops the core lock.    *)
EnterService(k) ==
  /\ alive[k] /\ pc[k] = "run"
  /\ preempt' = TRUE
  /\ pc' = [pc EXCEPT ![k] = "svc"]
  /\ UNCHANGED <<current, execute, tstate, nesting, runSig,
                 schedPc, schedSig, mine, alive>>

(* The preemption check: a holder that is not the elected thread returns   *)
(* to the system.                                                          *)
AfterCheck(k) == IF execute' = mine[k] THEN "run" ELSE "sysret"

LeaveService(k) ==
  /\ alive[k] /\ pc[k] = "svc"
  /\ preempt' = FALSE
  /\ execute' = execute
  /\ pc' = [pc EXCEPT ![k] = AfterCheck(k)]
  /\ UNCHANGED <<current, tstate, nesting, runSig,
                 schedPc, schedSig, mine, alive>>

(* The service suspends its caller on an object.                           *)
Block(k) ==
  /\ alive[k] /\ pc[k] = "svc"
  /\ preempt' = FALSE
  /\ tstate' = [tstate EXCEPT ![mine[k]] = "blocked"]
  /\ Elect(tstate')
  /\ pc' = [pc EXCEPT ![k] = "sysret"]
  /\ UNCHANGED <<current, nesting, runSig, schedPc, schedSig, mine, alive>>

(* The holder resumes a thread blocked on an object (a put, a set, a get). *)
ResumeOther(k, u) ==
  /\ alive[k] /\ pc[k] \in {"run", "svc"} /\ tstate[u] = "blocked"
  /\ tstate' = [tstate EXCEPT ![u] = "ready"]
  /\ Elect(tstate')
  /\ pc' = IF pc[k] = "svc" THEN pc ELSE [pc EXCEPT ![k] = AfterCheck(k)]
  /\ UNCHANGED <<current, nesting, preempt, runSig,
                 schedPc, schedSig, mine, alive>>

(* tx_thread_relinquish(): another thread of the same urgency, if any.     *)
Relinquish(k) ==
  /\ alive[k] /\ pc[k] = "run"
  /\ execute' \in Top(Ready(tstate))
  /\ pc' = [pc EXCEPT ![k] = AfterCheck(k)]
  /\ UNCHANGED <<current, tstate, nesting, preempt, runSig,
                 schedPc, schedSig, mine, alive>>

(* tx_thread_create() of a thread the port builds a Task for: the Task     *)
(* starts in _tx_amiga_thread_entry(), which parks first.                  *)
Spawn(k, t) ==
  /\ alive[k] /\ pc[k] = "run" /\ t \in Internal /\ tstate[t] = "absent"
  /\ tstate' = [tstate EXCEPT ![t] = "ready"]
  /\ Elect(tstate')
  /\ alive' = [alive EXCEPT ![Owner[t]] = TRUE]
  /\ mine' = [mine EXCEPT ![Owner[t]] = t]
  /\ pc' = [pc EXCEPT ![Owner[t]] = "park", ![k] = AfterCheck(k)]
  /\ UNCHANGED <<current, nesting, preempt, runSig, schedPc, schedSig>>

(* _tx_thread_system_return(): not the holder, return quietly; else hand   *)
(* the baton on and park.                                                  *)
SystemReturn(k) ==
  /\ alive[k] /\ pc[k] = "sysret"
  /\ execute' = execute
  /\ IF current = None \/ Owner[current] # k
     THEN pc' = [pc EXCEPT ![k] = "run"] /\ UNCHANGED <<current, runSig>>
     ELSE pc' = [pc EXCEPT ![k] = "park"] /\ DispatchInline(None, runSig)
  /\ UNCHANGED <<tstate, nesting, preempt, schedPc, schedSig, mine, alive>>

----------------------------------------------------------------------------
(* ami_netstack_baton_release(): suspend without a switch, keep the        *)
(* TX_THREAD, hand the baton on; nested inside a bracket it only counts.   *)
BracketRelease(k) ==
  /\ alive[k] /\ pc[k] = "run"
  /\ tstate' = [tstate EXCEPT ![mine[k]] = "suspended"]
  /\ Elect(tstate')
  /\ nesting' = [nesting EXCEPT ![mine[k]] = 1]
  /\ GiveUp(mine[k])
  /\ pc' = [pc EXCEPT ![k] = "bracket"]
  /\ UNCHANGED <<preempt, schedPc, schedSig, mine, alive>>

BracketNest(k) ==
  /\ alive[k] /\ pc[k] = "bracket" /\ nesting[mine[k]] < MaxNest
  /\ nesting' = [nesting EXCEPT ![mine[k]] = @ + 1]
  /\ UNCHANGED <<current, execute, tstate, preempt, runSig,
                 schedPc, schedSig, pc, mine, alive>>

(* The nesting count after an acquire.                                     *)
Unnest(t) == [nesting EXCEPT ![t] = @ - 1]

(* ami_netstack_baton_acquire(): the outermost one resumes and parks.      *)
BracketAcquire(k) ==
  /\ alive[k] /\ pc[k] = "bracket"
  /\ nesting' = Unnest(mine[k])
  /\ IF nesting'[mine[k]] # 0
     THEN UNCHANGED <<current, execute, tstate, runSig, pc>>
     ELSE /\ tstate' = [tstate EXCEPT ![mine[k]] = "ready"]
          /\ Elect(tstate')
          /\ DispatchInline(current, runSig)
          /\ pc' = [pc EXCEPT ![k] = "park"]
  /\ UNCHANGED <<preempt, schedPc, schedSig, mine, alive>>

----------------------------------------------------------------------------
(* The scheduler Task, _tx_thread_schedule().                              *)

SchedTest ==
  /\ schedPc = "test"
  /\ execute' = execute
  /\ DispatchInline(current, runSig)
  /\ schedPc' = "wait"
  /\ UNCHANGED <<tstate, nesting, preempt, schedSig, pc, mine, alive>>

SchedWake ==
  /\ schedPc = "wait" /\ schedSig
  /\ schedPc' = "test" /\ schedSig' = FALSE
  /\ UNCHANGED <<current, execute, tstate, nesting, preempt, runSig,
                 pc, mine, alive>>

(* The tick Task: one Forbid() from _tx_thread_context_save() to           *)
(* _tx_thread_context_restore().  A timer may resume a blocked thread u;   *)
(* an idle baton is then dispatched.                                       *)
Tick(u) ==
  /\ tstate[u] = "blocked"
  /\ tstate' = [tstate EXCEPT ![u] = "ready"]
  /\ Elect(tstate')
  /\ DispatchInline(current, runSig)
  /\ UNCHANGED <<nesting, preempt, schedPc, schedSig, pc, mine, alive>>

(* ami_netstack_baton_abandon(): the bracket of a Task that cannot return. *)
AbandonMutant(t) == nesting
Abandon(t) == [nesting EXCEPT ![t] = 0]

(* A lockout left raised by the discarded holder is cleared.               *)
Lockout(t) == preempt /\ current # t

(* tx_amiga_discard_thread() of a dead Task's thread, from the tick: it    *)
(* takes the baton back, clears a lockout the Task left raised, tears the  *)
(* thread down and wakes the scheduler; the tick then dispatches.          *)
Discard(t) ==
  /\ tstate' = [tstate EXCEPT ![t] = "absent"]
  /\ Elect(tstate')
  /\ nesting' = Abandon(t)
  /\ preempt' = Lockout(t)
  /\ GiveUp(t)
  /\ schedSig' = TRUE
  /\ UNCHANGED <<schedPc, pc, mine, alive>>

(* ami_netstack_baton_reclaim_dead(): the holder's Task is gone.           *)
ReclaimDeadMutant ==
  /\ ~preempt
  /\ current \in App /\ ~alive[Owner[current]]
  /\ Discard(current)
ReclaimDead ==
  /\ current \in App /\ ~alive[Owner[current]]
  /\ Discard(current)

(* bsd_task_sweep(): a base whose Task is gone gives its thread back.      *)
SweepBase(t) ==
  /\ t \in App /\ tstate[t] # "absent" /\ ~alive[Owner[t]]
  /\ Discard(t)

(* _tx_amiga_slot_evict_locked(): an adopting Task finds the pool full and *)
(* takes a dormant thread back; its owner will have to adopt afresh.       *)
Evict(k, u) ==
  /\ alive[k] /\ pc[k] = "out"
  /\ u \in App /\ tstate[u] = "suspended" /\ nesting[u] = 0 /\ u # current
  /\ tstate' = [tstate EXCEPT ![u] = "absent"]
  /\ Elect(tstate')
  /\ schedSig' = TRUE
  /\ UNCHANGED <<current, nesting, preempt, runSig, schedPc, pc, mine, alive>>

(* RemTask() of an application Task, anywhere.                             *)
Die(k) ==
  /\ alive[k] /\ \A t \in Internal : Owner[t] # k
  /\ alive' = [alive EXCEPT ![k] = FALSE]
  /\ UNCHANGED <<current, execute, tstate, nesting, preempt, runSig,
                 schedPc, schedSig, pc, mine>>

(* A new Task, once nothing of the old one is left.                        *)
Launch(k) ==
  /\ ~alive[k]
  /\ \A t \in Threads : Owner[t] = k => t \in App /\ tstate[t] = "absent"
  /\ alive' = [alive EXCEPT ![k] = TRUE]
  /\ pc' = [pc EXCEPT ![k] = "out"]
  /\ mine' = [mine EXCEPT ![k] = None]
  /\ UNCHANGED <<current, execute, tstate, nesting, preempt, runSig,
                 schedPc, schedSig>>

----------------------------------------------------------------------------
TaskStep(k) ==
  \/ \E t \in Threads : Adopt(k, t) \/ Resume(k, t) \/ Spawn(k, t)
                        \/ ResumeOther(k, t) \/ Evict(k, t)
  \/ Poke(k) \/ ParkWake(k) \/ Suspend(k) \/ Orphan(k) \/ Spend(k)
  \/ EnterService(k) \/ LeaveService(k) \/ Block(k) \/ Relinquish(k)
  \/ SystemReturn(k)
  \/ BracketRelease(k) \/ BracketNest(k) \/ BracketAcquire(k)

Next ==
  \/ \E k \in Tasks : TaskStep(k) \/ Die(k) \/ Launch(k)
  \/ SchedTest \/ SchedWake
  \/ \E t \in Threads : Tick(t) \/ SweepBase(t)
  \/ ReclaimDead

Spec == Init /\ [][Next]_vars

(* Fairness.  Exec runs a Task whose signal has arrived, so a park, the    *)
(* scheduler and the straight-line code after a Permit() all proceed; the  *)
(* tick Task outranks them and its one-second timer keeps expiring.  What  *)
(* an application or NetX Duo does while it holds the baton is not fair.   *)
Fairness ==
  /\ WF_vars(ReclaimDead) /\ WF_vars(SchedTest) /\ WF_vars(SchedWake)
  /\ \A k \in Tasks : WF_vars(Poke(k)) /\ WF_vars(ParkWake(k))
                      /\ WF_vars(Spend(k)) /\ WF_vars(SystemReturn(k))

FairSpec == Spec /\ Fairness

----------------------------------------------------------------------------
(* At most one live Task runs stack code, and it is the Task of the thread *)
(* in _tx_thread_current_ptr: a Task that returned from a park, an adopt   *)
(* or a resume still holds the baton at its next core call.                *)
BatonExclusive ==
  \A k \in Tasks : alive[k] /\ pc[k] \in Inside => current = mine[k]

(* The baton is never free while a thread is elected to run: every release *)
(* hands it on inside its own Forbid(), so the scheduler Task is only ever *)
(* a fallback and a poke lost with a removed Task costs nothing.           *)
NeverIdleWithWork == current = None => execute = None

(* A live Task that has been given the baton while it is parked has its    *)
(* run signal latched, so no handover is lost to a signal spent by an      *)
(* earlier wake-up or cleared by tx_amiga_adopt_suspend().                 *)
HandoverSignalled ==
  \A k \in Tasks :
    alive[k] /\ pc[k] \in {"poke", "park"} /\ current = mine[k]
      => runSig[mine[k]]

(* A raised _tx_thread_preempt_disable belongs to the holder, which is in  *)
(* a core service: a Task removed there does not leave preemption locked   *)
(* out once tx_amiga_discard_thread() has taken its baton back.            *)
LockoutIsHolders ==
  preempt => /\ current # None
             /\ pc[Owner[current]] = "svc" /\ mine[Owner[current]] = current

(* "At most one thread per Task is current or nested", which is what lets  *)
(* tx_amiga_exec_wait_owner_locked() stop at its first match; and a thread *)
(* inside a bracket is off the ready list.                                 *)
OneBracketOrBaton ==
  /\ \A t, u \in Threads :
       /\ Owner[t] = Owner[u]
       /\ t = current \/ nesting[t] # 0
       /\ u = current \/ nesting[u] # 0
       => t = u
  /\ \A t \in Threads : nesting[t] # 0 => tstate[t] = "suspended" /\ current # t

(* The baton is never taken from a live Task: only its own suspend,        *)
(* orphan, bracket or system return moves it, so neither the tick, nor a   *)
(* sweep, nor another Task's fast path can.                                *)
BatonNotTaken ==
  [][current # None /\ alive[Owner[current]] /\ current' # current
       => /\ pc[Owner[current]] \in {"run", "sysret"}
          /\ pc'[Owner[current]] \in {"spend", "bracket", "park"}]_vars

(* A thread given the baton either gets its Task running stack code or     *)
(* loses the baton again: a dead Task's is reclaimed from the tick, and a  *)
(* live Task's wake-up is never lost.                                      *)
GrantedRuns ==
  \A t \in Threads :
    current = t ~> \/ current # t
                  \/ /\ alive[Owner[t]] /\ mine[Owner[t]] = t
                     /\ pc[Owner[t]] \in Inside

(* What the scheduler promises the stack, as a monitor: Monitor.           *)
Running == {k \in Tasks : alive[k] /\ pc[k] \in Inside}

M == INSTANCE Monitor WITH inside <- Running

MonitorSpec == M!Spec
=============================================================================
