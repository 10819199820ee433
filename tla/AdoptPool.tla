----------------------------- MODULE AdoptPool -----------------------------
(***************************************************************************)
(* The pool of TX_THREAD slots for adopted Exec Tasks (tx_amiga_pool.c),   *)
(* the adoption calls on it (tx_amiga_adopt.c) and the caller records that *)
(* hold handles on slots (netstack_caller.c).                              *)
(*                                                                         *)
(* A Forbid()/Permit() section is one step.  A Task is named by its        *)
(* address; a removed Task's address may be taken by a new Task, which has *)
(* a stamp and signal bits of its own.  The scheduler is abstracted to a   *)
(* holder that any ready thread becomes when there is none: Baton is the   *)
(* detailed one.                                                           *)
(***************************************************************************)
EXTENDS Integers, FiniteSets, FiniteSetsExt

CONSTANTS Addrs,      \* addresses of application Tasks
          Bases,      \* library bases: each has a cached AmiNetCaller
          NSlots,     \* TX_AMIGA_ADOPT_SLOTS
          Reserve,    \* TX_AMIGA_ADOPT_RESERVE
          NWaiters,   \* TX_AMIGA_ADOPT_WAITERS
          NBits,      \* signal bits of a Task
          Stamps,     \* values of _tx_amiga_task_stamp()
          MaxUpsets,  \* how often Tasks are removed or swap stacks
          Stops,      \* the kernel may be stopped
          None

ASSUME AdoptPoolAssumption ==
  /\ IsFiniteSet(Addrs) /\ IsFiniteSet(Bases) /\ Stamps # {}
  /\ NSlots \in Nat /\ Reserve \in 1..(NSlots - 1)
  /\ NWaiters \in Nat /\ NBits \in Nat \ {0} /\ MaxUpsets \in Nat
  /\ None \notin Addrs \cup Bases \cup Stamps \cup Nat
  /\ Addrs \cap Bases = {}
  /\ Stops \in BOOLEAN

Slots == 0..(NSlots - 1)
Bits == 0..(NBits - 1)
Entries == 1..NWaiters

(* An AmiNetCaller: one per base, and one on the stack of each Task.       *)
Callers == Bases \cup Addrs

VARIABLES up,       \* _tx_amiga_kernel_up, and not stopping
          slot,     \* _tx_amiga_adopt_pool
          next,     \* the evictor's round-robin index
          waiters,  \* _tx_amiga_adopt_waiters
          waiting,  \* _tx_amiga_adopt_waiting
          holder,   \* the slot of _tx_thread_current_ptr
          nc,       \* the AmiNetCallers
          sbTask,   \* sb_Task of each base, None when it has none
          owned,    \* bases whose opener is still the Task it was
          refs,     \* bases counted in sb_StackRefs
          lock,     \* owner of ami_ns_lock
          upsets,                    \* counted against MaxUpsets
          alive, stamp, alloc, app,  \* Exec's view of each address
          pc, loc, wsig              \* where a Task is, its locals, its wake-up

taskVars == <<alive, stamp, app, upsets>>
baseVars == <<sbTask, owned, refs>>
vars == <<up, slot, next, waiters, waiting, holder, nc, sbTask, owned, refs,
          lock, upsets, alive, stamp, alloc, app, pc, loc, wsig>>

FreeSlot ==
  [busy |-> FALSE, gen |-> 0, pub |-> FALSE, claimer |-> None, cstamp |-> None,
   task |-> None, run |-> None, tstamp |-> None, state |-> "none",
   cached |-> FALSE]
FreeEntry == [task |-> None, bit |-> None, stamp |-> None]
NoCaller ==
  [live |-> FALSE, adopted |-> FALSE, thread |-> None, gen |-> 0, sig |-> None]
NoLoc ==
  [rec |-> None, res |-> FALSE, slot |-> None, run |-> None, wbit |-> None,
   idx |-> None]

Queueing == {"test", "waiting", "look"}
Adopted == {"parked", "in", "relparked", "relin"}
Places == {"dead", "out", "guest", "resume", "claim", "register", "unreg",
           "create", "stopwake"} \cup Queueing \cup Adopted

OrNone(S) == S \cup {None}

TypeOK ==
  /\ up \in BOOLEAN
  /\ slot \in [Slots ->
       [busy : BOOLEAN, gen : Nat, pub : BOOLEAN, claimer : OrNone(Addrs),
        cstamp : OrNone(Stamps), task : OrNone(Addrs), run : OrNone(Bits),
        tstamp : OrNone(Stamps), state : {"none", "ready", "dormant"},
        cached : BOOLEAN]]
  /\ next \in Slots
  /\ waiters \in [Entries -> [task : OrNone(Addrs), bit : OrNone(Bits),
                              stamp : OrNone(Stamps)]]
  /\ waiting \in 0..NWaiters
  /\ holder \in OrNone(Slots)
  /\ nc \in [Callers -> [live : BOOLEAN, adopted : BOOLEAN,
                         thread : OrNone(Slots), gen : Nat, sig : OrNone(Bits)]]
  /\ sbTask \in [Bases -> OrNone(Addrs)] /\ owned \subseteq Bases
  /\ refs \subseteq Bases
  /\ lock \in OrNone(Addrs) /\ upsets \in 0..MaxUpsets
  /\ alive \in [Addrs -> BOOLEAN] /\ stamp \in [Addrs -> Stamps]
  /\ alloc \in [Addrs -> SUBSET Bits] /\ app \in [Addrs -> SUBSET Bits]
  /\ pc \in [Addrs -> Places] /\ wsig \in [Addrs -> BOOLEAN]
  /\ loc \in [Addrs -> [rec : OrNone(Callers), res : BOOLEAN,
                        slot : OrNone(Slots), run : OrNone(Bits),
                        wbit : OrNone(Bits), idx : OrNone(Entries)]]

Init ==
  /\ up = TRUE /\ next = 0 /\ waiting = 0 /\ holder = None /\ lock = None
  /\ upsets = 0
  /\ slot = [i \in Slots |-> FreeSlot]
  /\ waiters = [e \in Entries |-> FreeEntry]
  /\ nc = [c \in Callers |-> NoCaller]
  /\ sbTask = [b \in Bases |-> None] /\ owned = {} /\ refs = {}
  /\ alive = [a \in Addrs |-> TRUE]
  /\ stamp = [a \in Addrs |-> CHOOSE s \in Stamps : TRUE]
  /\ alloc = [a \in Addrs |-> {}] /\ app = [a \in Addrs |-> {}]
  /\ pc = [a \in Addrs |-> "out"] /\ loc = [a \in Addrs |-> NoLoc]
  /\ wsig = [a \in Addrs |-> FALSE]

----------------------------------------------------------------------------
(* _tx_amiga_adopt_wake_scan() over the table w with counter n, the Tasks  *)
(* having the bits al allocated.                                           *)

Dropped(e, al) ==
  e.task # None /\ (~alive[e.task] \/ e.bit \notin al[e.task])

Signalled(e, al) ==
  e.task # None /\ ~Dropped(e, al) /\ stamp[e.task] = e.stamp

(* The entries' counter after k were cleared; it never wraps.              *)
UncountMutant(n, k) == n

Uncount(n, k) == IF n >= k THEN n - k ELSE 0

Scan(w, n, al, final) ==
  LET gone == {i \in Entries : \/ Dropped(w[i], al)
                               \/ final /\ w[i].task # None}
  IN /\ waiters' = [i \in Entries |-> IF i \in gone THEN FreeEntry ELSE w[i]]
     /\ waiting' = Uncount(n, Cardinality(gone))
     /\ wsig' = [a \in Addrs |->
          \/ wsig[a]
          \/ \E i \in Entries : /\ Signalled(w[i], al) /\ w[i].task = a
                                /\ w[i].bit = loc'[a].wbit]

NoScan == UNCHANGED <<waiters, waiting, wsig>>

(* _tx_amiga_slot_release_locked() of the slots S.                         *)
ReleaseSlots(S) ==
  /\ slot' = [i \in Slots |-> IF i \in S THEN FreeSlot ELSE slot[i]]
  /\ Scan(waiters, waiting, alloc, FALSE)

----------------------------------------------------------------------------
(* Claiming: _tx_amiga_slot_claim_locked(), evict and claim_evict.         *)

LimitMutant(reserved) == NSlots

Limit(reserved) == IF reserved THEN NSlots ELSE NSlots - Reserve

FreeBelow(n) == {i \in Slots : i < n /\ ~slot[i].busy}

EvictableMutant(i) ==
  slot[i].busy /\ slot[i].pub /\ slot[i].cached /\ i # holder

Evictable(i) ==
  /\ slot[i].busy /\ slot[i].pub /\ slot[i].state = "dormant"
  /\ slot[i].cached /\ i # holder

Victims(n) == {k \in 1..n : Evictable((next + k) % n)}

Available(n) == up /\ (FreeBelow(n) # {} \/ Victims(n) # {})

(* The counter is never reset, so a new generation differs from that of    *)
(* every slot and every handle in existence: the least such number.        *)
NewGeneration ==
  LET used == {slot[i].gen : i \in Slots} \cup {nc[c].gen : c \in Callers}
  IN CHOOSE g \in 1..(Cardinality(used) + 1) :
       g \notin used /\ \A h \in 1..(g - 1) : h \in used

ClaimedBy(a) ==
  [FreeSlot EXCEPT !.busy = TRUE, !.gen = NewGeneration, !.claimer = a,
                   !.cstamp = stamp[a]]

(* Task a claims slot i, or gets None.  An eviction discards the victim's  *)
(* thread, drops its signal owner and wakes the waiters of w.              *)
ClaimEvict(a, reserved, w, n, i) ==
  LET lim == Limit(reserved) IN
  IF up /\ FreeBelow(lim) # {}
  THEN /\ i = Min(FreeBelow(lim))
       /\ slot' = [slot EXCEPT ![i] = ClaimedBy(a)]
       /\ waiters' = w /\ waiting' = n /\ UNCHANGED <<next, wsig>>
  ELSE IF up /\ Victims(lim) # {}
  THEN /\ i = (next + Min(Victims(lim))) % lim
       /\ slot' = [slot EXCEPT ![i] = ClaimedBy(a)]
       /\ next' = i /\ Scan(w, n, alloc', FALSE)
  ELSE /\ i = None
       /\ next' = IF up THEN next % lim ELSE next
       /\ waiters' = w /\ waiting' = n /\ UNCHANGED <<slot, wsig>>

(* _tx_amiga_slot_held()                                                   *)
Held(c) ==
  nc[c].thread # None /\ slot[nc[c].thread].busy /\ nc[c].gen # 0
    /\ slot[nc[c].thread].gen = nc[c].gen

FreeBits(a) == Bits \ alloc[a]

Goto(a, p) == pc' = [pc EXCEPT ![a] = p]

(* nc_free_evicted_signal(): the bit an eviction left to its owner.        *)
FreeEvictedMutant(a, c) == alloc[a]

FreeEvicted(a, c) == alloc[a] \ {nc[c].sig}

----------------------------------------------------------------------------
(* Entering.  c is a base of the Task (ami_netstack_enter_cached) or the   *)
(* record on its stack (ami_netstack_enter).  With the kernel down both    *)
(* return an error and change nothing.  Inside ami_ns_lock only records on *)
(* the stack are used (netstack.c).                                        *)

Mine(a, c) == c = a \/ (c \in owned /\ sbTask[c] = a)

(* tx_amiga_caller_is_thread(): the holder's thread has this address.      *)
CallerIsThread(a) == holder # None /\ slot[holder].task = a

Begin(a, c) == [NoLoc EXCEPT !.rec = c, !.res = (lock = a)]

Enter(a, c) ==
  /\ alive[a] /\ pc[a] = "out" /\ Mine(a, c) /\ up
  /\ lock = a => c = a
  /\ IF CallerIsThread(a)
     THEN Goto(a, "guest") /\ UNCHANGED <<nc, loc>>
     ELSE /\ loc' = [loc EXCEPT ![a] = Begin(a, c)]
          /\ Goto(a, IF nc[c].live THEN "resume" ELSE "claim")
          /\ nc' = [nc EXCEPT ![c].live = (c \in Bases)]
  /\ NoScan
  /\ UNCHANGED <<up, slot, next, holder, baseVars, lock, alloc, taskVars>>

(* tx_amiga_adopt_resume() of the cached handle.  A handle the evictor     *)
(* made stale is given up, with the signal it kept, for a fresh adoption.  *)
(* The kernel is up: the base is counted in sb_StackRefs.                  *)
Resume(a) ==
  LET c == loc[a].rec
      i == nc[c].thread IN
  /\ alive[a] /\ pc[a] = "resume"
  /\ \/ /\ Held(c)
        /\ slot' = [slot EXCEPT ![i].state = "ready", ![i].tstamp = stamp[a]]
        /\ loc' = [loc EXCEPT ![a].slot = i, ![a].run = slot[i].run]
        /\ Goto(a, "parked") /\ UNCHANGED <<nc, alloc>>
     \/ /\ ~Held(c)
        /\ alloc' = [alloc EXCEPT ![a] = FreeEvicted(a, c)]
        /\ nc' = [nc EXCEPT ![c] = [NoCaller EXCEPT !.live = TRUE]]
        /\ Goto(a, "claim") /\ UNCHANGED <<slot, loc>>
  /\ NoScan
  /\ UNCHANGED <<up, next, holder, baseVars, lock, taskVars>>

(* Adoption fails: the run signal is freed and the record reset.           *)
Fail(a, bits) ==
  /\ alloc' = [alloc EXCEPT ![a] = @ \ bits]
  /\ nc' = [nc EXCEPT ![loc[a].rec] = NoCaller]
  /\ loc' = [loc EXCEPT ![a] = NoLoc]
  /\ Goto(a, "out")

(* tx_amiga_adopt_thread_break() up to the first look at the pool.         *)
Claim(a) ==
  /\ alive[a] /\ pc[a] = "claim"
  /\ IF ~up \/ FreeBits(a) = {}
     THEN Fail(a, {}) /\ NoScan /\ UNCHANGED <<slot, next>>
     ELSE LET run == Max(FreeBits(a)) IN
          /\ alloc' = [alloc EXCEPT ![a] = @ \cup {run}]
          /\ \E i \in OrNone(Slots) :
               /\ loc' = [loc EXCEPT ![a].run = run, ![a].slot = i]
               /\ ClaimEvict(a, loc[a].res, waiters, waiting, i)
               /\ Goto(a, IF i = None THEN "register" ELSE "create")
          /\ UNCHANGED nc
  /\ UNCHANGED <<up, holder, baseVars, lock, taskVars>>

(* Registering on a full pool, then a last look.                           *)
Register(a) ==
  LET free == {e \in Entries : waiters[e].task = None} IN
  /\ alive[a] /\ pc[a] = "register"
  /\ IF FreeBits(a) = {} \/ free = {}
     THEN Fail(a, {loc[a].run}) /\ NoScan /\ UNCHANGED <<slot, next>>
     ELSE LET bit == Max(FreeBits(a))
              e   == Min(free) IN
          /\ alloc' = [alloc EXCEPT ![a] = @ \cup {bit}]
          /\ \E i \in OrNone(Slots) :
               /\ loc' = [loc EXCEPT ![a].wbit = bit, ![a].idx = e, ![a].slot = i]
               /\ ClaimEvict(a, loc[a].res,
                    [waiters EXCEPT ![e] = [task |-> a, bit |-> bit,
                                            stamp |-> stamp[a]]],
                    waiting + 1, i)
               /\ Goto(a, IF i = None THEN "test" ELSE "unreg")
          /\ UNCHANGED nc
  /\ UNCHANGED <<up, holder, baseVars, lock, taskVars>>

(* One turn of the wait loop: look at the kernel, Wait(), claim.           *)
Test(a) ==
  /\ alive[a] /\ pc[a] = "test"
  /\ Goto(a, IF up THEN "waiting" ELSE "unreg")
  /\ NoScan
  /\ UNCHANGED <<up, slot, next, holder, nc, baseVars, lock, alloc, loc,
                 taskVars>>

WaitWake(a) ==
  /\ alive[a] /\ pc[a] = "waiting" /\ wsig[a]
  /\ wsig' = [wsig EXCEPT ![a] = FALSE]
  /\ Goto(a, "look")
  /\ UNCHANGED <<up, slot, next, waiters, waiting, holder, nc, baseVars,
                 lock, alloc, loc, taskVars>>

Look(a) ==
  /\ alive[a] /\ pc[a] = "look"
  /\ alloc' = alloc
  /\ \E i \in OrNone(Slots) :
       /\ loc' = [loc EXCEPT ![a].slot = i]
       /\ ClaimEvict(a, loc[a].res, waiters, waiting, i)
       /\ Goto(a, IF i = None THEN "test" ELSE "unreg")
  /\ UNCHANGED <<up, holder, nc, baseVars, lock, taskVars>>

(* A break ends a cached caller's wait; ami_netstack_enter() passes none.  *)
Break(a) ==
  /\ alive[a] /\ pc[a] = "waiting" /\ loc[a].rec \in Bases
  /\ Goto(a, "unreg")
  /\ NoScan
  /\ UNCHANGED <<up, slot, next, holder, nc, baseVars, lock, alloc, loc,
                 taskVars>>

(* The entry is cleared only while it still names this Task.               *)
Unreg(a) ==
  LET e == loc[a].idx IN
  /\ alive[a] /\ pc[a] = "unreg"
  /\ IF waiters[e].task = a
     THEN /\ waiters' = [waiters EXCEPT ![e] = FreeEntry]
          /\ waiting' = Uncount(waiting, 1)
     ELSE UNCHANGED <<waiters, waiting>>
  /\ wsig' = [wsig EXCEPT ![a] = FALSE]
  /\ IF loc[a].slot = None
     THEN Fail(a, {loc[a].wbit, loc[a].run})
     ELSE /\ alloc' = [alloc EXCEPT ![a] = @ \ {loc[a].wbit}]
          /\ loc' = [loc EXCEPT ![a].wbit = None, ![a].idx = None]
          /\ Goto(a, "create") /\ UNCHANGED nc
  /\ UNCHANGED <<up, slot, next, holder, baseVars, lock, taskVars>>

(* The create's own Forbid(): recheck the kernel, create, publish.         *)
Create(a) ==
  LET c == loc[a].rec
      i == loc[a].slot IN
  /\ alive[a] /\ pc[a] = "create"
  /\ IF up
     THEN /\ slot' = [slot EXCEPT ![i] =
               [@ EXCEPT !.pub = TRUE, !.claimer = None, !.cstamp = None,
                         !.task = a, !.run = loc[a].run, !.tstamp = stamp[a],
                         !.state = "ready"]]
          /\ nc' = [nc EXCEPT ![c].thread = i, ![c].gen = slot[i].gen]
          /\ Goto(a, "parked") /\ NoScan /\ UNCHANGED <<alloc, loc>>
     ELSE Fail(a, {loc[a].run}) /\ ReleaseSlots({i})
  /\ UNCHANGED <<up, next, holder, baseVars, lock, taskVars>>

(* Baton abstracted: a free baton goes to any ready thread.  Its Task, if  *)
(* it lives, returns from the adoption; a cached caller takes the run      *)
(* signal (tx_amiga_adopt_signal) and may from now on be evicted.          *)
Grant(i) ==
  /\ holder = None /\ slot[i].state = "ready"
  /\ holder' = i
  /\ LET who == {a \in Addrs : pc[a] \in {"parked", "relparked"}
                                /\ loc[a].slot = i} IN
     /\ pc' = [a \in Addrs |-> IF a \notin who THEN pc[a]
                               ELSE IF pc[a] = "parked" THEN "in" ELSE "relin"]
     /\ nc' = [c \in Callers |->
          IF \E a \in who : pc[a] = "parked" /\ loc[a].rec = c
          THEN [nc[c] EXCEPT !.adopted = TRUE,
                             !.sig = IF c \in Bases THEN slot[i].run ELSE None]
          ELSE nc[c]]
     /\ slot' = [slot EXCEPT ![i].cached =
          @ \/ \E a \in who : loc[a].rec \in Bases]
  /\ NoScan
  /\ UNCHANGED <<up, next, baseVars, lock, alloc, loc, taskVars>>

(* A call suspends in NetX Duo: the baton goes, the slot stays.            *)
Block(a) ==
  /\ alive[a] /\ pc[a] = "in"
  /\ holder' = None /\ Goto(a, "parked")
  /\ NoScan
  /\ UNCHANGED <<up, slot, next, nc, baseVars, lock, alloc, loc, taskVars>>

----------------------------------------------------------------------------
(* Leaving and releasing.                                                  *)

(* tx_amiga_orphan_thread() of the Task's slot.                            *)
Orphan(a) ==
  /\ loc' = [loc EXCEPT ![a] = NoLoc]
  /\ ReleaseSlots({loc[a].slot})
  /\ holder' = IF holder = loc[a].slot THEN None ELSE holder
  /\ alloc' = [alloc EXCEPT ![a] = @ \ {loc[a].run}]
  /\ Goto(a, "out")

(* A dormant slot is something a waiter can take.                          *)
WakeOnSuspendMutant == NoScan

WakeOnSuspend ==
  IF waiting # 0 THEN Scan(waiters, waiting, alloc, FALSE) ELSE NoScan

(* ami_netstack_leave_cached(): dormant, the record keeping its handle.    *)
LeaveCached(a) ==
  LET c == loc[a].rec IN
  /\ alive[a] /\ pc[a] = "in" /\ c \in Bases /\ Held(c)
  /\ slot' = [slot EXCEPT ![nc[c].thread].state = "dormant"]
  /\ holder' = IF holder = nc[c].thread THEN None ELSE holder
  /\ nc' = [nc EXCEPT ![c].adopted = FALSE]
  /\ loc' = [loc EXCEPT ![a] = NoLoc]
  /\ Goto(a, "out") /\ WakeOnSuspend
  /\ UNCHANGED <<up, next, baseVars, lock, alloc, taskVars>>

(* ami_netstack_leave()                                                    *)
Leave(a) ==
  /\ alive[a] /\ pc[a] = "in" /\ loc[a].rec = a /\ Held(a)
  /\ Orphan(a)
  /\ nc' = [nc EXCEPT ![a] = NoCaller]
  /\ UNCHANGED <<up, next, baseVars, lock, taskVars>>

(* A Task that was taken for the holder leaves: it had adopted nothing.    *)
LeaveGuest(a) ==
  /\ alive[a] /\ pc[a] = "guest"
  /\ Goto(a, "out") /\ NoScan
  /\ UNCHANGED <<up, slot, next, holder, nc, baseVars, lock, alloc, loc,
                 taskVars>>

(* ami_netstack_release() by the base's own Task, from CloseLibrary(): a   *)
(* valid handle is resumed and, once the Task has the baton, orphaned; a   *)
(* stale one leaves its signal to free.  Then the reference goes.          *)
CloseBase(b) ==
  /\ sbTask' = [sbTask EXCEPT ![b] = None] /\ owned' = owned \ {b}
  /\ refs' = refs \ {b}
  /\ nc' = [nc EXCEPT ![b] = NoCaller]

Release(a, b) ==
  LET i == nc[b].thread IN
  /\ alive[a] /\ pc[a] = "out" /\ b \in owned /\ sbTask[b] = a
  /\ IF nc[b].live /\ Held(b)
     THEN /\ slot' = [slot EXCEPT ![i].state = "ready", ![i].tstamp = stamp[a]]
          /\ loc' = [loc EXCEPT ![a] =
               [NoLoc EXCEPT !.rec = b, !.slot = i, !.run = slot[i].run]]
          /\ Goto(a, "relparked") /\ UNCHANGED <<baseVars, nc, alloc>>
     ELSE /\ CloseBase(b)
          /\ alloc' = IF nc[b].live
                      THEN [alloc EXCEPT ![a] = FreeEvicted(a, b)] ELSE alloc
          /\ UNCHANGED <<slot, loc, pc>>
  /\ NoScan
  /\ UNCHANGED <<up, next, holder, lock, taskVars>>

FinishRelease(a) ==
  /\ alive[a] /\ pc[a] = "relin"
  /\ Orphan(a) /\ CloseBase(loc[a].rec)
  /\ UNCHANGED <<up, next, lock, taskVars>>

Open(a, b) ==
  /\ alive[a] /\ pc[a] = "out" /\ lock # a /\ up /\ b \notin refs
  /\ sbTask' = [sbTask EXCEPT ![b] = a] /\ owned' = owned \cup {b}
  /\ refs' = refs \cup {b}
  /\ NoScan
  /\ UNCHANGED <<up, slot, next, holder, nc, lock, alloc, pc, loc, taskVars>>

(* ami_ns_lock is taken before an adoption and released after it.          *)
Lock(a) ==
  /\ alive[a] /\ pc[a] = "out"
  /\ \/ lock = None /\ lock' = a
     \/ lock = a /\ lock' = None
  /\ NoScan
  /\ UNCHANGED <<up, slot, next, holder, nc, baseVars, alloc, pc, loc,
                 taskVars>>

----------------------------------------------------------------------------
(* tx_amiga_kernel_stop() by the last closer, inside ami_ns_lock and a     *)
(* plain Task again: commit if no thread is left, then wake every waiter   *)
(* for good.                                                               *)
Stop(a) ==
  /\ Stops /\ up /\ alive[a] /\ lock = a /\ pc[a] = "out" /\ refs = {}
  /\ \A i \in Slots : ~slot[i].pub
  /\ up' = FALSE /\ Goto(a, "stopwake")
  /\ NoScan
  /\ UNCHANGED <<slot, next, holder, nc, baseVars, lock, alloc, loc,
                 taskVars>>

StopWakeMutant(a) ==
  /\ alive[a] /\ pc[a] = "stopwake"
  /\ NoScan /\ Goto(a, "out")
  /\ UNCHANGED <<up, slot, next, holder, nc, baseVars, lock, alloc, loc,
                 taskVars>>

StopWake(a) ==
  /\ alive[a] /\ pc[a] = "stopwake"
  /\ loc' = loc /\ Scan(waiters, waiting, alloc, TRUE)
  /\ Goto(a, "out")
  /\ UNCHANGED <<up, slot, next, holder, nc, baseVars, lock, alloc,
                 taskVars>>

----------------------------------------------------------------------------
(* Once a second, from the tick: ami_ns_second_expired().                  *)

(* tx_amiga_adopted_task_dead()                                            *)
TaskDead(i) ==
  LET t == slot[i].task IN
  \/ ~alive[t]
  \/ stamp[t] = slot[i].tstamp /\ slot[i].run \notin alloc[t]

(* tx_amiga_adopt_sweep_unpublished(): its claimer, by address and stamp,  *)
(* is gone.                                                                *)
UnclaimedByAddress(i) ==
  slot[i].busy /\ ~slot[i].pub /\ ~alive[slot[i].claimer]

Unclaimed(i) ==
  /\ slot[i].busy /\ ~slot[i].pub
  /\ ~(alive[slot[i].claimer] /\ stamp[slot[i].claimer] = slot[i].cstamp)

(* bsd_task_sweep() finds these bases, if it gets sb_Lock.                 *)
DeadBases == {b \in Bases : sbTask[b] # None /\ ~alive[sbTask[b]]}

Second(swept) ==
  LET dead == {i \in Slots : i = holder /\ TaskDead(i)}
      gone == dead \cup {i \in Slots : Unclaimed(i)}
              \cup {nc[b].thread : b \in {c \in swept : nc[c].live /\ Held(c)}}
  IN /\ up /\ gone \cup swept # {}
     /\ loc' = loc /\ ReleaseSlots(gone)
     /\ holder' = IF holder \in gone THEN None ELSE holder
     /\ nc' = [c \in Callers |-> IF c \in swept THEN NoCaller ELSE nc[c]]
     /\ sbTask' = [b \in Bases |-> IF b \in swept THEN None ELSE sbTask[b]]
     /\ UNCHANGED <<up, next, owned, refs, lock, alloc, pc, taskVars>>

----------------------------------------------------------------------------
(* External: RemTask() anywhere outside ami_ns_lock, AddTask() at the      *)
(* address, with or without a signal bit of its own, and StackSwap().      *)
Upset == upsets < MaxUpsets /\ upsets' = upsets + 1

Die(a) ==
  /\ Upset /\ alive[a] /\ lock # a
  /\ alive' = [alive EXCEPT ![a] = FALSE]
  /\ alloc' = [alloc EXCEPT ![a] = {}] /\ app' = [app EXCEPT ![a] = {}]
  /\ pc' = [pc EXCEPT ![a] = "dead"] /\ loc' = [loc EXCEPT ![a] = NoLoc]
  /\ wsig' = [wsig EXCEPT ![a] = FALSE]
  /\ nc' = [nc EXCEPT ![a] = NoCaller]
  /\ owned' = {b \in owned : sbTask[b] # a}
  /\ UNCHANGED <<up, slot, next, waiters, waiting, holder, sbTask, refs, lock,
                 stamp>>

Launch(a) ==
  /\ ~alive[a]
  /\ alive' = [alive EXCEPT ![a] = TRUE] /\ Goto(a, "out")
  /\ \E s \in Stamps : stamp' = [stamp EXCEPT ![a] = s]
  /\ \E own \in {{}, {NBits - 1}} : /\ alloc' = [alloc EXCEPT ![a] = own]
                                    /\ app' = [app EXCEPT ![a] = own]
  /\ NoScan
  /\ UNCHANGED <<up, slot, next, holder, nc, baseVars, lock, loc,
                 upsets>>

StackSwap(a) ==
  /\ Upset /\ alive[a] /\ pc[a] = "out"
  /\ \E s \in Stamps \ {stamp[a]} : stamp' = [stamp EXCEPT ![a] = s]
  /\ NoScan
  /\ UNCHANGED <<up, slot, next, holder, nc, baseVars, lock, alive, alloc,
                 app, pc, loc>>

----------------------------------------------------------------------------
Queue(a) == Claim(a) \/ Register(a) \/ Test(a) \/ WaitWake(a) \/ Look(a)
            \/ Unreg(a) \/ Create(a)

TaskStep(a) ==
  \/ Queue(a) \/ Resume(a) \/ Break(a) \/ Block(a) \/ Lock(a)
  \/ LeaveCached(a) \/ Leave(a) \/ LeaveGuest(a) \/ FinishRelease(a)
  \/ Stop(a) \/ StopWake(a)
  \/ Die(a) \/ Launch(a) \/ StackSwap(a)
  \/ \E c \in Callers : Enter(a, c)
  \/ \E b \in Bases : Open(a, b) \/ Release(a, b)

Tick == \E swept \in {{}, DeadBases} : Second(swept)

Next ==
  \/ \E a \in Addrs : TaskStep(a)
  \/ \E i \in Slots : Grant(i)
  \/ Tick

Spec == Init /\ [][Next]_vars

(* A Task that is not waiting for an event keeps running, and the second   *)
(* timer keeps expiring while the kernel is up.                            *)
FairSpec ==
  Spec /\ WF_vars(Tick)
       /\ \A a \in Addrs : WF_vars(Queue(a)) /\ WF_vars(StopWake(a))

----------------------------------------------------------------------------
(* The adoption a live Task is using is never taken from it: the slot it   *)
(* claimed stays claimed for it, and the one it adopted into carries its   *)
(* handle's generation, its address and a thread on ThreadX's lists until  *)
(* it gives it back, whatever the evictor, the tick's sweeps and the other *)
(* Tasks do.  A handle that is still good when its owner comes back names  *)
(* the owner's dormant thread.                                             *)
AdoptionKept ==
  \A a \in Addrs : alive[a] =>
    LET i == loc[a].slot
        c == loc[a].rec IN
    /\ pc[a] \in {"unreg", "create"} /\ i # None
         => slot[i].busy /\ ~slot[i].pub /\ slot[i].claimer = a
    /\ pc[a] \in Adopted
         => /\ nc[c].thread = i /\ Held(c)
            /\ slot[i].task = a /\ slot[i].state = "ready"
    /\ \A b \in owned : sbTask[b] = a /\ nc[b].live /\ b # c /\ Held(b)
         => LET j == nc[b].thread IN
            slot[j].task = a /\ slot[j].state = "dormant"

(* Signal bits are neither leaked nor freed twice: outside the stack a     *)
(* Task has its own bits and one for each cached record, an evicted one    *)
(* included.                                                               *)
SignalsAccounted ==
  \A a \in Addrs :
    alive[a] /\ pc[a] = "out" =>
      LET cached == {b \in owned : sbTask[b] = a /\ nc[b].live}
      IN /\ alloc[a] = app[a] \cup {nc[b].sig : b \in cached}
         /\ Cardinality(alloc[a]) = Cardinality(app[a]) + Cardinality(cached)

(* No wake-up is lost: a Task asleep on a full pool with no signal latched *)
(* has nothing to claim, neither a free slot nor a dormant one to evict.   *)
NoLostWake ==
  \A a \in Addrs : alive[a] /\ pc[a] = "waiting" /\ ~wsig[a]
                    => ~Available(Limit(loc[a].res))

(* "One caller must never park: the one inside ami_ns_lock."  One reserved *)
(* slot is enough.                                                         *)
LockHolderNeverParks ==
  \A a \in Addrs : lock = a => pc[a] \notin {"register"} \cup Queueing

(* _tx_amiga_adopt_waiting counts the registered entries exactly, so the   *)
(* suspend path never skips a wake-up it owes; and a live Task in the wait *)
(* loop is registered at the index it will clear.                          *)
WaitersCounted ==
  /\ waiting = Cardinality({e \in Entries : waiters[e].task # None})
  /\ \A a \in Addrs : alive[a] /\ up /\ pc[a] \in Queueing
                      => waiters[loc[a].idx].task = a

(* After a stop no Task stays asleep on the pool: the final scan wakes it  *)
(* and it sees the kernel gone, although nothing will ever be released.    *)
StopFreesWaiters ==
  \A a \in Addrs : ~up /\ pc[a] \in Queueing ~> pc[a] \notin Queueing

(* A slot whose claimer was removed before it could publish comes back,    *)
(* also when a Task of another stamp has taken the claimer's address.      *)
UnpublishedReturns ==
  \A i \in Slots :
    LET left == /\ slot[i].busy /\ ~slot[i].pub
                /\ \/ ~alive[slot[i].claimer]
                   \/ stamp[slot[i].claimer] # slot[i].cstamp
    IN up /\ left ~> ~up \/ ~left
=============================================================================
