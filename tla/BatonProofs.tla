---------------------------- MODULE BatonProofs ----------------------------
(***************************************************************************)
(* Proofs about Baton, for every set of Tasks and threads, every owner map *)
(* and every priority assignment.                                          *)
(***************************************************************************)
EXTENDS Baton, TLAPS

----------------------------------------------------------------------------
(* The inductive invariant: TypeOK and these, each a clause the exclusion  *)
(* of the baton rests on.                                                  *)

(* A Task uses only its own threads, and one whenever it is in the stack.  *)
MineIsOwn ==
  \A k \in Tasks : /\ mine[k] # None => Owner[mine[k]] = k
                   /\ pc[k] # "out" => mine[k] # None

(* A ready or blocked thread is the one its Task is using.                 *)
Occupied ==
  \A t \in Threads :
    tstate[t] \in {"ready", "blocked"}
      => /\ mine[Owner[t]] = t
         /\ pc[Owner[t]] \in Inside \cup {"poke", "park"}

(* Where a live Task is fixes its thread's state.                          *)
PlaceState ==
  \A k \in Tasks : alive[k] =>
    /\ pc[k] \in {"run", "svc", "poke"} => tstate[mine[k]] = "ready"
    /\ pc[k] \in {"sysret", "park"} => tstate[mine[k]] \in {"ready", "blocked"}
    /\ pc[k] = "spend" => tstate[mine[k]] \in {"suspended", "absent"}
    /\ pc[k] = "bracket" => nesting[mine[k]] # 0

(* The elected thread is ready, and there is one if any is.                *)
ElectedReady ==
  IF execute = None THEN Ready(tstate) = {} ELSE tstate[execute] = "ready"

(* The holder is ready, or unlinked and on its way to the system return.   *)
HolderState ==
  current # None => \/ tstate[current] = "ready"
                    \/ /\ tstate[current] = "blocked"
                       /\ pc[Owner[current]] = "sysret"

(* A nested bracket belongs to a suspended thread of a Task that is in it. *)
NestedState ==
  \A t \in Threads :
    nesting[t] # 0 => /\ tstate[t] = "suspended"
                      /\ mine[Owner[t]] = t /\ pc[Owner[t]] = "bracket"

IInv ==
  /\ TypeOK /\ MineIsOwn /\ Occupied /\ PlaceState /\ ElectedReady
  /\ HolderState /\ NestedState
  /\ BatonExclusive /\ NeverIdleWithWork /\ HandoverSignalled
  /\ LockoutIsHolders

(***************************************************************************)
(* The proof: Init establishes IInv, each action preserves it, and the     *)
(* properties follow from it.                                              *)
(***************************************************************************)

(* Init establishes the inductive invariant.                               *)
LEMMA InitIInv == Init => IInv
<1> SUFFICES ASSUME Init PROVE IInv
  OBVIOUS
<1>0. [k \in Tasks |-> (\A t \in Internal : Owner[t] # k)] \in [Tasks -> BOOLEAN]
  OBVIOUS
<1>1. alive \in [Tasks -> BOOLEAN]
  BY <1>0 DEF Init
<1>2. \A k \in Tasks : pc[k] = "out" /\ mine[k] = None
  BY DEF Init
<1>3. \A t \in Threads : tstate[t] = "absent" /\ nesting[t] = 0
  BY DEF Init
<1>4. TypeOK
  <2>1. preempt \in BOOLEAN /\ schedSig \in BOOLEAN /\ ~preempt
    BY Zenon DEF Init
  <2> QED
    BY <1>1, <2>1, BatonAssumption DEF Init, TypeOK, ThreadOrNone, Places
<1>5. ElectedReady /\ HolderState /\ NestedState /\ Occupied /\ LockoutIsHolders
  BY <1>3, BatonAssumption
  DEF Init, ElectedReady, HolderState, NestedState, Occupied, LockoutIsHolders,
      Ready
<1>6. MineIsOwn /\ PlaceState /\ BatonExclusive /\ NeverIdleWithWork
      /\ HandoverSignalled
  BY <1>2
  DEF Init, MineIsOwn, PlaceState, BatonExclusive, NeverIdleWithWork,
      HandoverSignalled, Inside
<1> QED
  BY <1>4, <1>5, <1>6 DEF IInv

(* What the ready list elects: nobody if it is empty, else a ready thread. *)
LEMMA Elected ==
  ASSUME NEW ts \in [Threads -> {"absent", "ready", "suspended", "blocked"}],
         Elect(ts)
  PROVE  /\ execute' \in ThreadOrNone
         /\ execute' = None => Ready(ts) = {}
         /\ execute' # None => ts[execute'] = "ready"
BY BatonAssumption DEF Elect, Ready, Top, ThreadOrNone

(* What _tx_amiga_dispatch_inline() does with holder c and latched signals *)
(* sig: a held baton stays, a free one goes to the elected thread with its *)
(* live Task signalled, and no other signal is lost.                       *)
Handed(c, sig) ==
  /\ current' \in ThreadOrNone /\ runSig' \in [Threads -> BOOLEAN]
  /\ c # None => current' = c
  /\ c = None => current' = execute'
  /\ c = None /\ execute' # None =>
       (alive[Owner[execute']] => runSig'[execute'])
  /\ \A t \in Threads : sig[t] => runSig'[t]

LEMMA Dispatched ==
  ASSUME NEW c \in ThreadOrNone, NEW sig \in [Threads -> BOOLEAN],
         alive \in [Tasks -> BOOLEAN], execute' \in ThreadOrNone,
         DispatchInline(c, sig)
  PROVE  Handed(c, sig)
<1>1. CASE c = None /\ execute' # None
  <2>1. execute' \in Threads
    BY <1>1 DEF ThreadOrNone
  <2>2. current' = execute' /\ runSig' = SignalThread(sig, execute')
    BY <1>1 DEF DispatchInline
  <2>3. CASE alive[Owner[execute']]
    <3>1. runSig' = [sig EXCEPT ![execute'] = TRUE]
      BY <2>2, <2>3 DEF SignalThread
    <3> QED
      BY <1>1, <2>1, <2>2, <3>1 DEF Handed
  <2>4. CASE ~alive[Owner[execute']]
    <3>1. runSig' = sig
      BY <2>2, <2>4 DEF SignalThread
    <3> QED
      BY <1>1, <2>1, <2>2, <2>4, <3>1 DEF Handed
  <2> QED
    BY <2>3, <2>4
<1>2. CASE ~(c = None /\ execute' # None)
  BY <1>2 DEF DispatchInline, Handed
<1> QED
  BY <1>1, <1>2

USE BatonAssumption
DEF IInv, TypeOK, MineIsOwn, Occupied, PlaceState, ElectedReady, HolderState,
    NestedState, BatonExclusive, NeverIdleWithWork, HandoverSignalled,
    LockoutIsHolders, Unnest, Abandon, Lockout, ThreadOrNone, Places, Inside, Ready, App

(* Adoption creates a ready thread and takes a free baton.                  *)
LEMMA AdoptStep ==
  ASSUME IInv, NEW k \in Tasks, NEW t \in Threads, Adopt(k, t)
  PROVE  IInv'
<1>1. tstate' \in [Threads -> {"absent", "ready", "suspended", "blocked"}]
  BY DEF Adopt
<1>2. /\ execute' \in ThreadOrNone
      /\ execute' = None => Ready(tstate') = {}
      /\ execute' # None => tstate'[execute'] = "ready"
  BY <1>1, Elected DEF Adopt
<1> QED
  BY <1>1, <1>2 DEF Adopt, TakeOrPark

(* A resume makes a dormant thread ready and takes a free baton.            *)
LEMMA ResumeStep ==
  ASSUME IInv, NEW k \in Tasks, NEW t \in Threads, Resume(k, t)
  PROVE  IInv'
<1>1. tstate' \in [Threads -> {"absent", "ready", "suspended", "blocked"}]
  BY DEF Resume
<1>2. /\ execute' \in ThreadOrNone
      /\ execute' = None => Ready(tstate') = {}
      /\ execute' # None => tstate'[execute'] = "ready"
  BY <1>1, Elected DEF Resume
<1> QED
  BY <1>1, <1>2 DEF Resume, TakeOrPark

(* The poke touches the scheduler only.                                     *)
LEMMA PokeStep ==
  ASSUME IInv, NEW k \in Tasks, Poke(k)
  PROVE  IInv'
BY DEF Poke

(* A park ends only with the baton in hand.                                 *)
LEMMA ParkWakeStep ==
  ASSUME IInv, NEW k \in Tasks, ParkWake(k)
  PROVE  IInv'
BY DEF ParkWake

(* Going dormant hands the baton on.                                        *)
LEMMA SuspendStep ==
  ASSUME IInv, NEW k \in Tasks, Suspend(k)
  PROVE  IInv'
<1>1. tstate' \in [Threads -> {"absent", "ready", "suspended", "blocked"}]
  BY DEF Suspend
<1>2. /\ execute' \in ThreadOrNone
      /\ execute' = None => Ready(tstate') = {}
      /\ execute' # None => tstate'[execute'] = "ready"
  BY <1>1, Elected DEF Suspend
<1>3. current = mine[k] /\ mine[k] # None
  BY DEF Suspend
<1>4. DispatchInline(None, runSig)
  BY <1>3 DEF Suspend, GiveUp
<1>5. Handed(None, runSig)
  BY <1>2, <1>4, Dispatched
<1> QED
  BY <1>1, <1>2, <1>3, <1>5 DEF Suspend, Handed

(* Orphaning hands the baton on.                                            *)
LEMMA OrphanStep ==
  ASSUME IInv, NEW k \in Tasks, Orphan(k)
  PROVE  IInv'
<1>1. tstate' \in [Threads -> {"absent", "ready", "suspended", "blocked"}]
  BY DEF Orphan
<1>2. /\ execute' \in ThreadOrNone
      /\ execute' = None => Ready(tstate') = {}
      /\ execute' # None => tstate'[execute'] = "ready"
  BY <1>1, Elected DEF Orphan
<1>3. current = mine[k] /\ mine[k] # None
  BY DEF Orphan
<1>4. DispatchInline(None, runSig)
  BY <1>3 DEF Orphan, GiveUp
<1>5. Handed(None, runSig)
  BY <1>2, <1>4, Dispatched
<1> QED
  BY <1>1, <1>2, <1>3, <1>5 DEF Orphan, Handed

(* The signal cleared after a suspend is of a thread off the ready list.    *)
LEMMA SpendStep ==
  ASSUME IInv, NEW k \in Tasks, Spend(k)
  PROVE  IInv'
BY DEF Spend

(* Entering a service raises the lockout on behalf of the holder.           *)
LEMMA EnterServiceStep ==
  ASSUME IInv, NEW k \in Tasks, EnterService(k)
  PROVE  IInv'
BY DEF EnterService

(* Leaving a service lowers it.                                             *)
LEMMA LeaveServiceStep ==
  ASSUME IInv, NEW k \in Tasks, LeaveService(k)
  PROVE  IInv'
<1>1. preempt' \in BOOLEAN /\ ~preempt'
  BY Zenon DEF LeaveService
<1> QED
  BY <1>1 DEF LeaveService, AfterCheck

(* Blocking keeps the baton until the system return.                        *)
LEMMA BlockStep ==
  ASSUME IInv, NEW k \in Tasks, Block(k)
  PROVE  IInv'
<1>1. tstate' \in [Threads -> {"absent", "ready", "suspended", "blocked"}]
  BY DEF Block
<1>2. /\ execute' \in ThreadOrNone
      /\ execute' = None => Ready(tstate') = {}
      /\ execute' # None => tstate'[execute'] = "ready"
  BY <1>1, Elected DEF Block
<1>3. preempt' \in BOOLEAN /\ ~preempt'
  BY Zenon DEF Block
<1> QED
  BY <1>1, <1>2, <1>3 DEF Block

(* Resuming a blocked thread may elect it.                                  *)
LEMMA ResumeOtherStep ==
  ASSUME IInv, NEW k \in Tasks, NEW t \in Threads, ResumeOther(k, t)
  PROVE  IInv'
<1>1. tstate' \in [Threads -> {"absent", "ready", "suspended", "blocked"}]
  BY DEF ResumeOther
<1>2. /\ execute' \in ThreadOrNone
      /\ execute' = None => Ready(tstate') = {}
      /\ execute' # None => tstate'[execute'] = "ready"
  BY <1>1, Elected DEF ResumeOther
<1> QED
  BY <1>1, <1>2 DEF ResumeOther, AfterCheck

(* Relinquishing elects among the most urgent.                              *)
LEMMA RelinquishStep ==
  ASSUME IInv, NEW k \in Tasks, Relinquish(k)
  PROVE  IInv'
BY DEF Relinquish, AfterCheck, Top

(* A created thread starts parked.                                          *)
LEMMA SpawnStep ==
  ASSUME IInv, NEW k \in Tasks, NEW t \in Threads, Spawn(k, t)
  PROVE  IInv'
<1>1. tstate' \in [Threads -> {"absent", "ready", "suspended", "blocked"}]
  BY DEF Spawn
<1>2. /\ execute' \in ThreadOrNone
      /\ execute' = None => Ready(tstate') = {}
      /\ execute' # None => tstate'[execute'] = "ready"
  BY <1>1, Elected DEF Spawn
<1> QED
  BY <1>1, <1>2 DEF Spawn, AfterCheck

(* The system return hands the baton on.                                    *)
LEMMA SystemReturnStep ==
  ASSUME IInv, NEW k \in Tasks, SystemReturn(k)
  PROVE  IInv'
<1>1. current = mine[k] /\ Owner[current] = k /\ current # None
  BY DEF SystemReturn
<1>2. DispatchInline(None, runSig) /\ pc' = [pc EXCEPT ![k] = "park"]
  BY <1>1 DEF SystemReturn
<1>3. Handed(None, runSig)
  BY <1>2, Dispatched DEF SystemReturn
<1> QED
  BY <1>1, <1>2, <1>3 DEF SystemReturn, Handed

(* Opening a bracket hands the baton on.                                    *)
LEMMA BracketReleaseStep ==
  ASSUME IInv, NEW k \in Tasks, BracketRelease(k)
  PROVE  IInv'
<1>1. tstate' \in [Threads -> {"absent", "ready", "suspended", "blocked"}]
  BY DEF BracketRelease
<1>2. /\ execute' \in ThreadOrNone
      /\ execute' = None => Ready(tstate') = {}
      /\ execute' # None => tstate'[execute'] = "ready"
  BY <1>1, Elected DEF BracketRelease
<1>3. current = mine[k] /\ mine[k] # None
  BY DEF BracketRelease
<1>4. DispatchInline(None, runSig)
  BY <1>3 DEF BracketRelease, GiveUp
<1>5. Handed(None, runSig)
  BY <1>2, <1>4, Dispatched
<1> QED
  BY <1>1, <1>2, <1>3, <1>5 DEF BracketRelease, Handed

(* Nesting only counts.                                                     *)
LEMMA BracketNestStep ==
  ASSUME IInv, NEW k \in Tasks, BracketNest(k)
  PROVE  IInv'
BY DEF BracketNest

(* Closing the outermost bracket makes the thread ready.                    *)
LEMMA BracketAcquireStep ==
  ASSUME IInv, NEW k \in Tasks, BracketAcquire(k)
  PROVE  IInv'
<1>1. mine[k] \in Threads /\ nesting[mine[k]] \in 1..MaxNest
  BY DEF BracketAcquire
<1>2. nesting' \in [Threads -> 0..MaxNest]
  BY <1>1 DEF BracketAcquire
<1>3. CASE nesting'[mine[k]] # 0
  BY <1>1, <1>2, <1>3 DEF BracketAcquire
<1>4. CASE nesting'[mine[k]] = 0
  <2>1. tstate' = [tstate EXCEPT ![mine[k]] = "ready"] /\ Elect(tstate')
    BY <1>4 DEF BracketAcquire
  <2>2. tstate' \in [Threads -> {"absent", "ready", "suspended", "blocked"}]
    BY <2>1
  <2>3. /\ execute' \in ThreadOrNone
        /\ execute' = None => Ready(tstate') = {}
        /\ execute' # None => tstate'[execute'] = "ready"
    BY <2>1, <2>2, Elected
  <2>4. Handed(current, runSig)
    BY <1>4, <2>3, Dispatched DEF BracketAcquire
  <2> QED
    BY <1>1, <1>2, <1>4, <2>1, <2>2, <2>3, <2>4 DEF BracketAcquire, Handed
<1> QED
  BY <1>3, <1>4

(* The scheduler dispatches a free baton.                                   *)
LEMMA SchedTestStep ==
  ASSUME IInv, SchedTest
  PROVE  IInv'
<1>1. Handed(current, runSig)
  BY Dispatched DEF SchedTest
<1> QED
  BY <1>1 DEF SchedTest, Handed

(* The scheduler consumes its signal.                                       *)
LEMMA SchedWakeStep ==
  ASSUME IInv, SchedWake
  PROVE  IInv'
<1>1. schedSig' \in BOOLEAN
  BY Zenon DEF SchedWake
<1> QED
  BY <1>1 DEF SchedWake

(* The tick resumes a blocked thread.                                       *)
LEMMA TickStep ==
  ASSUME IInv, NEW t \in Threads, Tick(t)
  PROVE  IInv'
<1>1. tstate' \in [Threads -> {"absent", "ready", "suspended", "blocked"}]
  BY DEF Tick
<1>2. /\ execute' \in ThreadOrNone
      /\ execute' = None => Ready(tstate') = {}
      /\ execute' # None => tstate'[execute'] = "ready"
  BY <1>1, Elected DEF Tick
<1>3. Handed(current, runSig)
  BY <1>2, Dispatched DEF Tick
<1> QED
  BY <1>1, <1>2, <1>3 DEF Tick, Handed

(* A discard takes a dead Task's thread, and its baton and lockout.         *)
LEMMA DiscardStep ==
  ASSUME IInv, NEW t \in App, ~alive[Owner[t]], tstate[t] # "absent", Discard(t)
  PROVE  IInv'
<1>1. tstate' \in [Threads -> {"absent", "ready", "suspended", "blocked"}]
  BY DEF Discard
<1>2. /\ execute' \in ThreadOrNone
      /\ execute' = None => Ready(tstate') = {}
      /\ execute' # None => tstate'[execute'] = "ready"
  BY <1>1, Elected DEF Discard
<1>3. CASE current = t
  <2>1. DispatchInline(None, runSig)
    BY <1>3 DEF Discard, GiveUp
  <2>2. Handed(None, runSig)
    BY <1>2, <2>1, Dispatched DEF Discard
  <2> QED
    BY <1>1, <1>2, <1>3, <2>2 DEF Discard, Handed
<1>4. CASE current # t
  <2>1. DispatchInline(current, runSig)
    BY <1>4 DEF Discard, GiveUp
  <2>2. Handed(current, runSig)
    BY <1>2, <2>1, Dispatched DEF Discard
  <2> QED
    BY <1>1, <1>2, <1>4, <2>2 DEF Discard, Handed
<1> QED
  BY <1>3, <1>4

(* Eviction removes a thread that no Task is using.                        *)
LEMMA EvictStep ==
  ASSUME IInv, NEW k \in Tasks, NEW t \in Threads, Evict(k, t)
  PROVE  IInv'
<1>1. tstate' \in [Threads -> {"absent", "ready", "suspended", "blocked"}]
  BY DEF Evict
<1>2. /\ execute' \in ThreadOrNone
      /\ execute' = None => Ready(tstate') = {}
      /\ execute' # None => tstate'[execute'] = "ready"
  BY <1>1, Elected DEF Evict
<1>3. schedSig' \in BOOLEAN
  BY Zenon DEF Evict
<1>4. execute' # None => execute # None
  BY <1>2 DEF Evict
<1> QED
  BY <1>1, <1>2, <1>3, <1>4 DEF Evict

(* RemTask() leaves the thread behind.                                      *)
LEMMA DieStep ==
  ASSUME IInv, NEW k \in Tasks, Die(k)
  PROVE  IInv'
BY DEF Die

(* A new Task starts outside.                                               *)
LEMMA LaunchStep ==
  ASSUME IInv, NEW k \in Tasks, Launch(k)
  PROVE  IInv'
BY DEF Launch

(* Every step, stuttering included, preserves the invariant.               *)
LEMMA NextIInv == IInv /\ [Next]_vars => IInv'
<1> SUFFICES ASSUME IInv, [Next]_vars PROVE IInv'
  OBVIOUS
<1>1. CASE UNCHANGED vars
  BY <1>1 DEF vars
<1>2. ASSUME NEW k \in Tasks, TaskStep(k) PROVE IInv'
  BY <1>2, AdoptStep, ResumeStep, SpawnStep, ResumeOtherStep, EvictStep, PokeStep,
     ParkWakeStep, SuspendStep, OrphanStep, SpendStep, EnterServiceStep,
     LeaveServiceStep, BlockStep, RelinquishStep, SystemReturnStep,
     BracketReleaseStep, BracketNestStep, BracketAcquireStep DEF TaskStep
<1>3. ASSUME NEW k \in Tasks, Die(k) \/ Launch(k) PROVE IInv'
  BY <1>3, DieStep, LaunchStep
<1>4. CASE SchedTest \/ SchedWake
  BY <1>4, SchedTestStep, SchedWakeStep
<1>5. ASSUME NEW t \in Threads, Tick(t) PROVE IInv'
  BY <1>5, TickStep
<1>6. ASSUME NEW t \in Threads, SweepBase(t) PROVE IInv'
  BY <1>6, DiscardStep DEF SweepBase
<1>7. CASE ReclaimDead
  <2>1. tstate[current] # "absent"
    BY <1>7 DEF ReclaimDead
  <2> QED
    BY <1>7, <2>1, DiscardStep DEF ReclaimDead
<1> QED
  BY <1>1, <1>2, <1>3, <1>4, <1>5, <1>6, <1>7 DEF Next

(* The inductive invariant holds in every reachable state of the port's    *)
(* scheduler.                                                              *)
THEOREM Invariance == Spec => []IInv
<1>1. Init => IInv
  BY InitIInv
<1>2. IInv /\ [Next]_vars => IInv'
  BY NextIInv
<1> QED
  BY <1>1, <1>2, PTL DEF Spec

----------------------------------------------------------------------------
(* At most one live Task runs stack code: the baton excludes, whatever the *)
(* Tasks, threads, owners and priorities are.                              *)
THEOREM Exclusion == Spec => []BatonExclusive
<1>1. IInv => BatonExclusive
  OBVIOUS
<1> QED
  BY <1>1, Invariance, PTL

(* A free baton means that no thread is elected.                           *)
THEOREM NoIdleBaton == Spec => []NeverIdleWithWork
<1>1. IInv => NeverIdleWithWork
  OBVIOUS
<1> QED
  BY <1>1, Invariance, PTL

(* A parked live holder has its wake-up latched.                           *)
THEOREM NoLostHandover == Spec => []HandoverSignalled
<1>1. IInv => HandoverSignalled
  OBVIOUS
<1> QED
  BY <1>1, Invariance, PTL

(* The preemption lockout is the holder's.                                 *)
THEOREM LockoutOwned == Spec => []LockoutIsHolders
<1>1. IInv => LockoutIsHolders
  OBVIOUS
<1> QED
  BY <1>1, Invariance, PTL

(* At most one thread per Task is current or inside a bracket: the first   *)
(* match of tx_amiga_exec_wait_owner_locked() is the only one.             *)
THEOREM OneOwner == Spec => []OneBracketOrBaton
<1>1. IInv => OneBracketOrBaton
  <2> SUFFICES ASSUME IInv PROVE OneBracketOrBaton
    OBVIOUS
  <2>1. current # None => mine[Owner[current]] = current
                          /\ pc[Owner[current]] # "bracket"
    OBVIOUS
  <2> QED
    BY <2>1 DEF OneBracketOrBaton
<1> QED
  BY <1>1, Invariance, PTL

(* Only the Task that holds the baton moves it, as long as it lives.       *)
THEOREM NotTaken == Spec => BatonNotTaken
<1> DEFINE GivenUp ==
      current # None /\ alive[Owner[current]] /\ current' # current
        => /\ pc[Owner[current]] \in {"run", "sysret"}
           /\ pc'[Owner[current]] \in {"spend", "bracket", "park"}
<1>1. IInv /\ [Next]_vars => [GivenUp]_vars
  <2> SUFFICES ASSUME IInv, Next, current # None, alive[Owner[current]],
                      current' # current
               PROVE  GivenUp
    BY DEF vars
  <2>1. ASSUME NEW k \in Tasks, TaskStep(k) PROVE GivenUp
    <3>1. CASE \E t \in Threads : Adopt(k, t) \/ Resume(k, t) \/ Spawn(k, t)
                                  \/ ResumeOther(k, t) \/ Evict(k, t)
      BY <3>1 DEF Adopt, Resume, Spawn, ResumeOther, Evict, TakeOrPark
    <3>2. CASE Poke(k) \/ ParkWake(k) \/ Spend(k) \/ EnterService(k)
               \/ LeaveService(k) \/ Block(k) \/ Relinquish(k) \/ BracketNest(k)
      BY <3>2 DEF Poke, ParkWake, Spend, EnterService, LeaveService, Block,
                  Relinquish, BracketNest
    <3>3. CASE Suspend(k) \/ Orphan(k) \/ BracketRelease(k)
      BY <3>3 DEF Suspend, Orphan, BracketRelease
    <3>4. CASE SystemReturn(k)
      BY <3>4 DEF SystemReturn
    <3>5. CASE BracketAcquire(k)
      BY <3>5 DEF BracketAcquire, DispatchInline
    <3> QED
      BY <2>1, <3>1, <3>2, <3>3, <3>4, <3>5 DEF TaskStep
  <2>2. CASE SchedTest \/ SchedWake
    BY <2>2 DEF SchedTest, SchedWake, DispatchInline
  <2>3. ASSUME NEW t \in Threads, Tick(t) \/ SweepBase(t) PROVE GivenUp
    BY <2>3 DEF Tick, SweepBase, Discard, GiveUp, DispatchInline
  <2>4. CASE ReclaimDead
    BY <2>4 DEF ReclaimDead
  <2>5. ASSUME NEW k \in Tasks, Die(k) \/ Launch(k) PROVE GivenUp
    BY <2>5 DEF Die, Launch
  <2> QED
    BY <2>1, <2>2, <2>3, <2>4, <2>5 DEF Next
<1> QED
  BY <1>1, Invariance, PTL DEF Spec, BatonNotTaken

----------------------------------------------------------------------------
(* A step moves at most one Task into or out of the stack.                 *)
LEMMA OneMoves ==
  ASSUME IInv, [Next]_vars
  PROVE  \/ Running' = Running
         \/ \E k \in Tasks : \A j \in Tasks \ {k} : j \in Running <=> j \in Running'
<1>1. CASE UNCHANGED vars
  BY <1>1 DEF vars, Running
<1>2. ASSUME NEW k \in Tasks, TaskStep(k)
      PROVE  \A j \in Tasks \ {k} : j \in Running <=> j \in Running'
  <2>1. CASE \E t \in Threads : \/ Adopt(k, t) \/ Resume(k, t)
                                \/ ResumeOther(k, t) \/ Evict(k, t)
    BY <2>1 DEF Adopt, Resume, ResumeOther, Evict, TakeOrPark, Running
  <2>2. CASE \E t \in Threads : Spawn(k, t)
    BY <2>2 DEF Spawn, Running
  <2>3. CASE Poke(k) \/ ParkWake(k) \/ Spend(k) \/ EnterService(k)
             \/ LeaveService(k) \/ Block(k) \/ Relinquish(k)
    BY <2>3 DEF Poke, ParkWake, Spend, EnterService, LeaveService, Block,
                Relinquish, Running
  <2>4. CASE Suspend(k) \/ Orphan(k) \/ SystemReturn(k)
    BY <2>4 DEF Suspend, Orphan, SystemReturn, Running
  <2>5. CASE BracketRelease(k) \/ BracketNest(k) \/ BracketAcquire(k)
    BY <2>5 DEF BracketRelease, BracketNest, BracketAcquire, Running
  <2> QED
    BY <1>2, <2>1, <2>2, <2>3, <2>4, <2>5 DEF TaskStep
<1>3. ASSUME NEW k \in Tasks, Die(k) \/ Launch(k)
      PROVE  \A j \in Tasks \ {k} : j \in Running <=> j \in Running'
  BY <1>3 DEF Die, Launch, Running
<1>4. CASE SchedTest \/ SchedWake \/ ReclaimDead
  BY <1>4 DEF SchedTest, SchedWake, ReclaimDead, Discard, Running
<1>5. ASSUME NEW t \in Threads, Tick(t) \/ SweepBase(t)
      PROVE  Running' = Running
  BY <1>5 DEF Tick, SweepBase, Discard, Running
<1> QED
  BY <1>1, <1>2, <1>3, <1>4, <1>5 DEF Next

(* At most one Task is inside.                                             *)
LEMMA AtMostOneRunning ==
  ASSUME IInv
  PROVE  Running \subseteq Tasks /\ \A i, j \in Running : i = j
BY DEF Running

(* The port's scheduler implements Monitor, the abstract promise that one  *)
(* Task at a time is inside the stack and enters only when it is empty.    *)
THEOREM Refinement == Spec => MonitorSpec
<1>1. Init => M!Init
  BY DEF Init, M!Init, Running
<1>2. IInv /\ IInv' /\ [Next]_vars => [M!Next]_Running
  <2>0. SUFFICES ASSUME IInv, IInv', [Next]_vars, Running' # Running
                 PROVE  M!Next
    OBVIOUS
  <2>1. /\ Running \subseteq Tasks /\ \A i, j \in Running : i = j
        /\ Running' \subseteq Tasks /\ \A i, j \in Running' : i = j
    <3>1. Running \subseteq Tasks /\ \A i, j \in Running : i = j
      BY <2>0, AtMostOneRunning
    <3>2. Running' \subseteq Tasks /\ \A i, j \in Running' : i = j
      BY <2>0 DEF Running
    <3> QED
      BY <3>1, <3>2
  <2>2. PICK k \in Tasks :
          \A j \in Tasks \ {k} : j \in Running <=> j \in Running'
    BY <2>0, OneMoves
  <2>3. \/ Running = {k} /\ Running' = {}
        \/ Running = {} /\ Running' = {k}
    <3> DEFINE R == Running
               R1 == Running'
    <3>1. /\ R \subseteq Tasks /\ R1 \subseteq Tasks /\ R # R1
          /\ \A i, j \in R : i = j
          /\ \A i, j \in R1 : i = j
          /\ \A j \in Tasks \ {k} : j \in R <=> j \in R1
      BY <2>0, <2>1, <2>2
    <3>2. (R = {k} /\ R1 = {}) \/ (R = {} /\ R1 = {k})
      <4> HIDE DEF R, R1
      <4>1. CASE k \in R
        BY <3>1, <4>1
      <4>2. CASE k \notin R
        BY <3>1, <4>2
      <4> QED
        BY <4>1, <4>2
    <3> QED
      BY <3>2
  <2> QED
    BY <2>3 DEF M!Next, M!Enter, M!Leave
<1> QED
  BY <1>1, <1>2, Invariance, PTL DEF Spec, MonitorSpec, M!Spec

=============================================================================
