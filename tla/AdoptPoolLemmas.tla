-------------------------- MODULE AdoptPoolLemmas ---------------------------
(***************************************************************************)
(* The pool for any number of Tasks, bases, slots, waiters and signal      *)
(* bits: an adoption is never taken from the Task that uses it, no wake-up *)
(* of a waiter is lost, the counter of waiters is exact, signal bits are   *)
(* neither leaked nor freed twice, and the holder of ami_ns_lock never     *)
(* parks.                                                                  *)
(*                                                                         *)
(* The inductive invariant has a part for each Task and a part for the     *)
(* pool.  They need each other.  The tick's sweep leaves a live Task's     *)
(* slot alone because the slot's run signal is still allocated, so         *)
(* AdoptionKept rests on the accounting of signal bits; that no record     *)
(* but the Task's names its slot rests on the generations; a waiter is     *)
(* woken by every release because it is registered, counted and its bit    *)
(* is allocated.                                                           *)
(***************************************************************************)
EXTENDS AdoptPool, TLAPS

Unadopted == {"dead", "out", "guest", "stopwake"}

(* The Task inside ami_ns_lock lives and does not queue, and adopts with   *)
(* the record on its stack, from the reserve too.                          *)
LockT(a) ==
  /\ lock = a =>
       /\ alive[a] /\ pc[a] \notin {"register"} \cup Queueing
       /\ pc[a] \notin Unadopted \cup {"relparked", "relin"}
            => loc[a].rec = a /\ loc[a].res
  /\ loc[a].res => lock = a

(* Where a Task is and what its locals name.                               *)
PlaceT(a) ==
  /\ alive[a] <=> pc[a] # "dead"
  /\ pc[a] \in Unadopted => loc[a] = NoLoc
  /\ pc[a] \notin Unadopted => Mine(a, loc[a].rec)
  /\ loc[a].rec \in Bases => nc[loc[a].rec].live
  /\ pc[a] \in {"resume", "relparked", "relin"} => loc[a].rec \in Bases
  /\ pc[a] \in {"register"} \cup Queueing => loc[a].slot = None
  /\ pc[a] \in {"create"} \cup Adopted => loc[a].slot \in Slots
  /\ pc[a] \in {"unreg"} \cup Queueing => loc[a].idx \in Entries
  /\ pc[a] = "stopwake" => ~up

(* A live waiter is registered, under the bit it waits for.                *)
QueueT(a) ==
  alive[a] /\ up /\ pc[a] \in Queueing =>
    waiters[loc[a].idx] = [task |-> a, bit |-> loc[a].wbit, stamp |-> stamp[a]]

(* What a live Task has claimed or adopted is its.                         *)
AdoptT(a) ==
  LET i == loc[a].slot
      c == loc[a].rec IN
  alive[a] =>
    /\ pc[a] \in {"unreg", "create"} /\ i # None
         => /\ slot[i].busy /\ ~slot[i].pub /\ slot[i].claimer = a
            /\ slot[i].cstamp = stamp[a]
    /\ pc[a] \in Adopted
         => /\ nc[c].thread = i /\ Held(c)
            /\ slot[i].pub /\ slot[i].task = a /\ slot[i].state = "ready"
            /\ slot[i].tstamp = stamp[a] /\ slot[i].run = loc[a].run
    /\ pc[a] = "in" /\ c \in Bases => nc[c].sig = loc[a].run

(* The bases of a Task whose handle, and signal, are at rest.              *)
Cached(a) == {b \in owned : /\ sbTask[b] = a /\ nc[b].live
                            /\ b # loc[a].rec \/ pc[a] = "resume"}

(* A good handle at rest is the Task's dormant thread.                     *)
HandleT(a) ==
  alive[a] => \A b \in Cached(a) : Held(b) =>
    LET j == nc[b].thread IN
    /\ slot[j].pub /\ slot[j].task = a /\ slot[j].state = "dormant"
    /\ slot[j].run = nc[b].sig

Running == {"register", "unreg", "create"} \cup Queueing \cup Adopted
Waiting == {"unreg"} \cup Queueing

(* The bits of a live Task: its own, one for each handle at rest, the run  *)
(* signal and the wait signal of the adoption under way.                   *)
BitT(a) ==
  alive[a] =>
    /\ \A s \in Bits :
         s \in alloc[a] <=> \/ s \in app[a]
                            \/ \E b \in Cached(a) : s = nc[b].sig
                            \/ pc[a] \in Running /\ s = loc[a].run
                            \/ pc[a] \in Waiting /\ s = loc[a].wbit
    /\ \A b \in Cached(a) : nc[b].sig \in Bits \ app[a]
    /\ \A b, d \in Cached(a) : b # d => nc[b].sig # nc[d].sig
    /\ pc[a] \in Running => /\ loc[a].run \in Bits \ app[a]
                            /\ \A b \in Cached(a) : nc[b].sig # loc[a].run
    /\ pc[a] \in Waiting => /\ loc[a].wbit \in Bits \ app[a]
                            /\ loc[a].wbit # loc[a].run
                            /\ \A b \in Cached(a) : nc[b].sig # loc[a].wbit

(* A Task on its way to sleep, or asleep, with no signal latched.          *)
WakeT(a) ==
  alive[a] /\ pc[a] \in {"test", "waiting"} /\ ~wsig[a]
    => ~Available(Limit(loc[a].res))

TaskInv ==
  \A a \in Addrs : /\ LockT(a) /\ PlaceT(a) /\ QueueT(a) /\ AdoptT(a)
                   /\ HandleT(a) /\ BitT(a)

WakeInv == \A a \in Addrs : WakeT(a)

(* Only the lock's holder has a reserved slot.                             *)
Reserved ==
  \A i \in Slots : i >= NSlots - Reserve /\ slot[i].busy =>
    /\ lock \in Addrs /\ loc[lock].slot = i
    /\ pc[lock] \in {"create", "parked", "in"}

Registered == {e \in Entries : waiters[e].task # None}

Counted == waiting = Cardinality(Registered)

(* Generations name adoptions.                                             *)
GenInv ==
  /\ \A c, d \in Callers : c # d /\ nc[c].gen # 0 => nc[c].gen # nc[d].gen
  /\ \A i \in Slots : slot[i].busy => slot[i].gen # 0
  /\ \A i \in Slots : slot[i].busy /\ ~slot[i].pub =>
       \A c \in Callers : nc[c].gen # slot[i].gen
  /\ \A i, j \in Slots : i # j /\ slot[i].busy /\ slot[j].busy
                          => slot[i].gen # slot[j].gen

HolderInv ==
  holder # None =>
    slot[holder].busy /\ slot[holder].pub /\ slot[holder].state = "ready"

OwnInv ==
  /\ \A b \in owned : sbTask[b] \in Addrs /\ alive[sbTask[b]]
  /\ owned \subseteq refs
  /\ \A b \in Bases \ refs : nc[b] = NoCaller
  /\ \A x \in Addrs : ~nc[x].live

PoolInv == Reserved /\ Counted /\ GenInv /\ HolderInv /\ OwnInv

IInv == TypeOK /\ TaskInv /\ PoolInv /\ WakeInv

(* What the steps need of counting: a set of numbers has a least one, a    *)
(* new generation is in no slot and on no handle, and the registered       *)
(* entries can be counted one by one.  TypeOK implies it: CanCount in      *)
(* AdoptPoolProofs.                                                        *)
LeastNumbers ==
  \A S \in SUBSET Nat : S # {} => \E x \in S : \A y \in S : x <= y

FreshGeneration ==
  /\ NewGeneration \in Nat \ {0}
  /\ \A i \in Slots : slot[i].gen # NewGeneration
  /\ \A c \in Callers : nc[c].gen # NewGeneration

EntriesCounted ==
  \A R \in SUBSET Entries :
    /\ Cardinality(R) \in 0..NWaiters
    /\ Cardinality(R) = 0 => R = {}
    /\ \A e \in Entries \ R : Cardinality(R \cup {e}) = Cardinality(R) + 1
    /\ \A e \in R : Cardinality(R \ {e}) = Cardinality(R) - 1
    /\ \A G \in SUBSET R : Cardinality(R \ G) = Cardinality(R) - Cardinality(G)

Counting == LeastNumbers /\ FreshGeneration /\ EntriesCounted

----------------------------------------------------------------------------
(* The operators of the model.                                             *)
LEMMA MinIn ==
  ASSUME Counting, NEW S \in SUBSET Nat, S # {}
  PROVE  Min(S) \in S /\ \A y \in S : Min(S) <= y
BY Zenon DEF Min, Counting, LeastNumbers

(* The greatest bit is one of the bits.                                    *)
LEMMA MaxIn ==
  ASSUME Counting, NEW n \in Nat, NEW S \in SUBSET (0..(n - 1)), S # {}
  PROVE  Max(S) \in S
<1> DEFINE T == {n - x : x \in S}
<1>1. T \in SUBSET Nat /\ T # {}
  <2>1. \A x \in S : n - x \in Nat
    OBVIOUS
  <2>2. PICK x \in S : TRUE
    BY Zenon
  <2>3. n - x \in T
    BY Zenon, <2>2
  <2> QED
    BY Zenon, <2>1, <2>3
<1>2. PICK t \in T : \A y \in T : t <= y
  BY Zenon, <1>1 DEF Counting, LeastNumbers
<1>3. PICK x \in S : t = n - x
  BY Zenon
<1>4. \A y \in S : x >= y
  BY <1>2, <1>3
<1> QED
  BY Zenon, <1>4 DEF Max

(* Counting up to n on from x meets every remainder.                       *)
LEMMA RoundRobin ==
  ASSUME NEW n \in Nat \ {0}, NEW x \in Nat, NEW i \in 0..(n - 1)
  PROVE  \E k \in 1..n : (x + k) % n = i
<1> DEFINE q == x \div n
           r == x % n
<1>1. q \in Int /\ r \in 0..(n - 1) /\ x = n * q + r
  OBVIOUS
<1>2. \A m \in Int : (n * m + i) % n = i
  OBVIOUS
<1> HIDE DEF q, r
<1>3. CASE i > r
  <2>1. x + (i - r) = n * q + i /\ i - r \in 1..n
    BY <1>1, <1>3
  <2> QED
    BY Zenon, <1>1, <1>2, <2>1
<1>4. CASE i <= r
  <2>1. x + (i - r + n) = n * (q + 1) + i /\ i - r + n \in 1..n
    BY <1>1, <1>4
  <2>2. (n * (q + 1) + i) % n = i
    BY <1>1, <1>2
  <2> QED
    BY ONLY Zenon, <2>1, <2>2
<1> QED
  BY <1>1, <1>3, <1>4

(* The evictor finds a victim below n if there is one, wherever it starts. *)
LEMMA VictimsFound ==
  ASSUME AdoptPoolAssumption, next \in Slots, NEW n \in 1..NSlots
  PROVE  /\ Victims(n) # {} <=> \E i \in 0..(n - 1) : Evictable(i)
         /\ \A k \in Victims(n) : /\ (next + k) % n \in 0..(n - 1)
                                   /\ Evictable((next + k) % n)
<1>1. n \in Nat \ {0} /\ next \in Nat
  BY DEF AdoptPoolAssumption, Slots
<1>2. \A k \in Victims(n) : /\ (next + k) % n \in 0..(n - 1)
                            /\ Evictable((next + k) % n)
  BY <1>1 DEF Victims
<1>3. ASSUME NEW i \in 0..(n - 1), Evictable(i) PROVE Victims(n) # {}
  <2>1. PICK k \in 1..n : (next + k) % n = i
    BY Zenon, <1>1, RoundRobin
  <2> QED
    BY Zenon, <1>3, <2>1 DEF Victims
<1> QED
  BY Zenon, <1>2, <1>3

----------------------------------------------------------------------------
(* The records of the model.                                               *)
SlotRec ==
  [busy : BOOLEAN, gen : Nat, pub : BOOLEAN, claimer : OrNone(Addrs),
   cstamp : OrNone(Stamps), task : OrNone(Addrs), run : OrNone(Bits),
   tstamp : OrNone(Stamps), state : {"none", "ready", "dormant"},
   cached : BOOLEAN]
EntryRec == [task : OrNone(Addrs), bit : OrNone(Bits), stamp : OrNone(Stamps)]
NcRec ==
  [live : BOOLEAN, adopted : BOOLEAN, thread : OrNone(Slots), gen : Nat,
   sig : OrNone(Bits)]
LocRec ==
  [rec : OrNone(Callers), res : BOOLEAN, slot : OrNone(Slots),
   run : OrNone(Bits), wbit : OrNone(Bits), idx : OrNone(Entries)]

(* TypeOK in terms of these records.                                       *)
LEMMA Records ==
  ASSUME TypeOK
  PROVE  /\ FreeSlot \in SlotRec /\ FreeEntry \in EntryRec
         /\ NoCaller \in NcRec /\ NoLoc \in LocRec
         /\ slot \in [Slots -> SlotRec] /\ waiters \in [Entries -> EntryRec]
         /\ nc \in [Callers -> NcRec] /\ loc \in [Addrs -> LocRec]
<1>1. FreeSlot \in SlotRec
  BY Zenon DEF FreeSlot, SlotRec, OrNone
<1>2. FreeEntry \in EntryRec
  BY Zenon DEF FreeEntry, EntryRec, OrNone
<1>3. NoCaller \in NcRec
  BY Zenon DEF NoCaller, NcRec, OrNone
<1>4. NoLoc \in LocRec
  BY Zenon DEF NoLoc, LocRec, OrNone
<1>6. slot \in [Slots -> SlotRec] /\ waiters \in [Entries -> EntryRec]
  BY Zenon DEF TypeOK, SlotRec, EntryRec
<1>7. nc \in [Callers -> NcRec] /\ loc \in [Addrs -> LocRec]
  BY Zenon DEF TypeOK, NcRec, LocRec
<1> QED
  BY Zenon, <1>1, <1>2, <1>3, <1>4, <1>6, <1>7

TableCount(w) == Cardinality({e \in Entries : w[e].task # None})

(* What a scan of the table w, n entries of it registered, leaves.         *)
LEMMA ScanEffect ==
  ASSUME Counting, TypeOK, NEW w \in [Entries -> EntryRec],
         NEW n, n = TableCount(w),
         NEW al, NEW final \in BOOLEAN, Scan(w, n, al, final)
  PROVE  /\ waiters' \in [Entries -> EntryRec] /\ waiting' \in 0..NWaiters
         /\ wsig' \in [Addrs -> BOOLEAN]
         /\ Counted'
         /\ \A e \in Entries : ~final /\ ~Dropped(w[e], al) => waiters'[e] = w[e]
         /\ \A x \in Addrs : wsig[x] => wsig'[x]
         /\ \A x \in Addrs, e \in Entries :
              w[e].task = x /\ Signalled(w[e], al) /\ w[e].bit = loc'[x].wbit => wsig'[x]
<1> DEFINE gone == {i \in Entries : Dropped(w[i], al) \/ (final /\ w[i].task # None)}
           R == {e \in Entries : w[e].task # None}
<1>1. /\ waiters' = [i \in Entries |-> IF i \in gone THEN FreeEntry ELSE w[i]]
      /\ waiting' = Uncount(n, Cardinality(gone))
      /\ wsig' = [a \in Addrs |->
           \/ wsig[a]
           \/ \E i \in Entries : /\ Signalled(w[i], al) /\ w[i].task = a
                                 /\ w[i].bit = loc'[a].wbit]
  BY Zenon DEF Scan
<1>2. waiters' \in [Entries -> EntryRec]
  BY Zenon, <1>1, Records
<1>3. wsig' \in [Addrs -> BOOLEAN]
  BY Zenon, <1>1
<1>4. R \in SUBSET Entries /\ gone \in SUBSET R
  BY Zenon DEF Dropped
<1>5. /\ Cardinality(R) \in 0..NWaiters /\ Cardinality(gone) \in 0..NWaiters
      /\ Cardinality(R \ gone) = Cardinality(R) - Cardinality(gone)
      /\ Cardinality(R \ gone) \in 0..NWaiters
  <2> HIDE DEF R, gone
  <2>1. gone \in SUBSET Entries /\ R \ gone \in SUBSET Entries
    BY Zenon, <1>4
  <2> QED
    BY Zenon, <1>4, <2>1 DEF Counting, EntriesCounted
<1>9. Registered' = R \ gone
  <2>1. \A e \in Entries : waiters'[e].task # None <=> (w[e].task # None /\ e \notin gone)
    BY Zenon, <1>1 DEF FreeEntry
  <2> HIDE DEF gone
  <2> QED
    BY Zenon, <2>1 DEF Registered
<1>10. waiting' = Cardinality(R \ gone)
  <2> HIDE DEF R, gone
  <2>1. n = Cardinality(R)
    BY Zenon DEF R, TableCount
  <2> QED
    BY <1>1, <1>5, <2>1 DEF Uncount
<1>11. Counted' /\ waiting' \in 0..NWaiters
  BY Zenon, <1>5, <1>9, <1>10 DEF Counted
<1>12. \A e \in Entries : ~final /\ ~Dropped(w[e], al) => waiters'[e] = w[e]
  BY Zenon, <1>1
<1>13. \A x \in Addrs : wsig[x] => wsig'[x]
  BY Zenon, <1>1
<1>14. \A x \in Addrs, e \in Entries :
         w[e].task = x /\ Signalled(w[e], al) /\ w[e].bit = loc'[x].wbit => wsig'[x]
  BY Zenon, <1>1
<1> QED
  BY Zenon, <1>2, <1>3, <1>11, <1>12, <1>13, <1>14

(* A claim looks at one slot at least, and without the reserve at the      *)
(* slots below it.                                                         *)
LEMMA LimitRange ==
  \A r \in BOOLEAN : Limit(r) \in 1..NSlots /\ (r \/ Limit(r) = NSlots - Reserve)
BY AdoptPoolAssumption DEF Limit

(* A claim takes a slot that is free or dormant, below its limit, or finds *)
(* nothing available.                                                      *)
ClaimDone(a, res, w, n, i) ==
  /\ next' \in Slots
  /\ \/ waiters' = w /\ waiting' = n /\ wsig' = wsig
     \/ Scan(w, n, alloc', FALSE)
  /\ i # None => /\ i \in Slots /\ i < Limit(res)
                 /\ ~slot[i].busy \/ Evictable(i)
                 /\ slot' = [slot EXCEPT ![i] = ClaimedBy(a)]
  /\ i = None => /\ slot' = slot /\ ~Available(Limit(res))
                 /\ waiters' = w /\ waiting' = n /\ wsig' = wsig

(* ClaimEvict() in terms of its effect.                                    *)
LEMMA ClaimEffect ==
  ASSUME Counting, TypeOK, NEW a \in Addrs, NEW res \in BOOLEAN, NEW i \in OrNone(Slots),
         NEW w \in [Entries -> EntryRec], NEW n, ClaimEvict(a, res, w, n, i)
  PROVE  ClaimDone(a, res, w, n, i)
<1> DEFINE lim == Limit(res)
<1>1. lim \in 1..NSlots /\ lim \in Nat \ {0} /\ NSlots \in Nat /\ next \in Nat
  BY LimitRange, AdoptPoolAssumption DEF TypeOK, Slots
<1>2. \A j \in 0..(lim - 1) : j \in Slots /\ j < lim /\ j # None
  BY <1>1, AdoptPoolAssumption DEF Slots
<1> HIDE DEF lim
<1>3. CASE up /\ FreeBelow(lim) # {}
  <2>1. /\ i = Min(FreeBelow(lim)) /\ slot' = [slot EXCEPT ![i] = ClaimedBy(a)]
        /\ waiters' = w /\ waiting' = n /\ UNCHANGED <<next, wsig>>
    BY Zenon, <1>3 DEF ClaimEvict, lim
  <2>2. FreeBelow(lim) \in SUBSET Nat
    BY AdoptPoolAssumption DEF FreeBelow, Slots
  <2>3. i \in FreeBelow(lim)
    BY Zenon, <1>3, <2>1, <2>2, MinIn
  <2>4. i \in Slots /\ i < lim /\ ~slot[i].busy /\ i # None
    BY <2>3, AdoptPoolAssumption DEF FreeBelow, Slots
  <2> QED
    BY Zenon, <2>1, <2>4 DEF lim, TypeOK, ClaimDone
<1>4. CASE ~(up /\ FreeBelow(lim) # {}) /\ up /\ Victims(lim) # {}
  <2>1. /\ i = (next + Min(Victims(lim))) % lim /\ slot' = [slot EXCEPT ![i] = ClaimedBy(a)]
        /\ next' = i /\ Scan(w, n, alloc', FALSE)
    BY Zenon, <1>4 DEF ClaimEvict, lim
  <2>2. Victims(lim) \in SUBSET Nat
    BY <1>1 DEF Victims
  <2>3. Min(Victims(lim)) \in Victims(lim)
    BY Zenon, <1>4, <2>2, MinIn
  <2>4. i \in 0..(lim - 1) /\ Evictable(i)
    BY Zenon, <1>1, <2>1, <2>3, VictimsFound, AdoptPoolAssumption DEF TypeOK
  <2> QED
    BY Zenon, <1>2, <2>1, <2>4 DEF lim, ClaimDone
<1>5. CASE ~(up /\ FreeBelow(lim) # {}) /\ ~(up /\ Victims(lim) # {})
  <2>1. /\ i = None /\ next' = IF up THEN next % lim ELSE next
        /\ waiters' = w /\ waiting' = n /\ UNCHANGED <<slot, wsig>>
    BY Zenon, <1>5 DEF ClaimEvict, lim
  <2>2. next % lim \in 0..(lim - 1)
    BY <1>1
  <2>3. ~Available(lim)
    BY Zenon, <1>5 DEF Available
  <2> QED
    BY Zenon, <1>2, <2>1, <2>2, <2>3 DEF lim, TypeOK, ClaimDone
<1> QED
  BY Zenon, <1>3, <1>4, <1>5

----------------------------------------------------------------------------
(* A Task that a step does not touch.                                      *)
TaskT(x) == LockT(x) /\ PlaceT(x) /\ QueueT(x) /\ AdoptT(x) /\ HandleT(x) /\ BitT(x)

(* The step leaves the slots alone that x relies on: the one it claimed or *)
(* adopted into, and those of its handles that are still good.             *)
Spared(x) ==
  /\ alive[x] /\ pc[x] \in {"unreg", "create"} \cup Adopted /\ loc[x].slot # None
       => slot'[loc[x].slot] = slot[loc[x].slot]
  /\ \A b \in Cached(x) : alive[x] /\ Held(b)'
       => slot'[nc[b].thread] = slot[nc[b].thread]

(* It leaves the rest of what x relies on alone.                           *)
Untouched(x) ==
  /\ pc'[x] = pc[x] /\ loc'[x] = loc[x] /\ alive'[x] = alive[x]
  /\ stamp'[x] = stamp[x] /\ alloc'[x] = alloc[x] /\ app'[x] = app[x]
  /\ lock' = x <=> lock = x
  /\ up' => up
  /\ \A c \in Callers : Mine(x, c) => nc'[c] = nc[c]
  /\ owned' \subseteq Bases
  /\ \A b \in Bases : (b \in owned' /\ sbTask'[b] = x) <=> (b \in owned /\ sbTask[b] = x)

StillQueued(x) ==
  alive[x] /\ up' /\ pc[x] \in Queueing => waiters'[loc[x].idx] = waiters[loc[x].idx]

(* What holds of such a Task before the step holds of it after.            *)
LEMMA OtherTask ==
  ASSUME TypeOK, NEW x \in Addrs, TaskT(x), Untouched(x), Spared(x), StillQueued(x)
  PROVE  TaskT(x)'
<1>1. loc[x] \in LocRec /\ loc[x].rec \in OrNone(Callers) /\ x \in Callers
  BY Zenon, Records DEF LocRec, Callers
<1>2. \A c : Mine(x, c)' <=> Mine(x, c)
  BY Zenon DEF Untouched, Mine, TypeOK
<1>3. Bases \subseteq Callers /\ \A b \in owned : sbTask[b] = x => Mine(x, b) /\ b \in Callers
  BY Zenon DEF Mine, Callers, TypeOK
<1>4. Cached(x)' = Cached(x) /\ \A b \in Cached(x) : nc'[b] = nc[b]
  <2>1. \A b \in Bases : Mine(x, b) => nc'[b] = nc[b]
    BY Zenon, <1>3 DEF Untouched
  <2>2. \A b \in Bases : b \in Cached(x)' <=> b \in Cached(x)
    BY ZenonT(40), <1>3, <2>1 DEF Untouched, Cached
  <2>3. Cached(x)' \subseteq Bases /\ Cached(x) \subseteq Bases
    BY Zenon DEF Cached, TypeOK, Untouched
  <2> QED
    BY Zenon, <1>3, <2>1, <2>2, <2>3 DEF Cached
<1>5. pc[x] \notin Unadopted => nc'[loc[x].rec] = nc[loc[x].rec]
  BY ZenonT(40), <1>1, <1>3 DEF TaskT, PlaceT, Untouched, Mine
<1>6. LockT(x)' /\ QueueT(x)'
  BY ZenonT(40) DEF TaskT, LockT, QueueT, Untouched, StillQueued
<1>7. PlaceT(x)'
  BY SMTT(30), <1>1, <1>2, <1>5, AdoptPoolAssumption DEF TaskT, PlaceT, Untouched, NoLoc
<1>8. AdoptT(x)'
  <2> DEFINE i == loc[x].slot
             c == loc[x].rec
  <2>1. i' = i /\ c' = c /\ pc'[x] = pc[x] /\ alive'[x] = alive[x]
        /\ stamp'[x] = stamp[x] /\ loc'[x].run = loc[x].run
    BY Zenon DEF Untouched
  <2>2. CASE alive[x] /\ pc[x] \in {"unreg", "create"}
    BY Zenon, <2>1, <2>2 DEF TaskT, AdoptT, Spared, Adopted
  <2>3. CASE alive[x] /\ pc[x] \in Adopted
    <3>1. slot'[i] = slot[i] /\ nc'[c] = nc[c]
      <4>1. i \in Slots /\ pc[x] \notin Unadopted
        BY Zenon, <2>3 DEF TaskT, PlaceT, Adopted, Unadopted
      <4>2. i # None
        BY <4>1, AdoptPoolAssumption DEF Slots
      <4>3. slot'[i] = slot[i]
        BY Zenon, <2>3, <4>2 DEF Spared
      <4> QED
        BY Zenon, <1>5, <4>1, <4>3
    <3>2. /\ nc[c].thread = i /\ Held(c)
          /\ slot[i].pub /\ slot[i].task = x /\ slot[i].state = "ready"
          /\ slot[i].tstamp = stamp[x] /\ slot[i].run = loc[x].run
          /\ pc[x] = "in" /\ c \in Bases => nc[c].sig = loc[x].run
      BY Zenon, <2>3 DEF TaskT, AdoptT
    <3>3. (nc[c].thread = i /\ Held(c))'
      <4>1. Held(c)' <=> /\ nc'[c].thread # None /\ slot'[nc'[c].thread].busy
                         /\ nc'[c].gen # 0 /\ slot'[nc'[c].thread].gen = nc'[c].gen
        BY Zenon, <2>1 DEF Held
      <4>2. slot'[nc'[c].thread] = slot[nc[c].thread]
        BY Zenon, <3>1, <3>2
      <4> QED
        BY Zenon, <2>1, <3>1, <3>2, <4>1, <4>2 DEF Held
    <3> QED
      BY Zenon, <2>1, <2>3, <3>1, <3>2, <3>3 DEF AdoptT, Adopted
  <2>4. CASE ~alive[x] \/ pc[x] \notin {"unreg", "create"} \cup Adopted
    BY Zenon, <2>1, <2>4 DEF AdoptT, Adopted
  <2> QED
    BY Zenon, <2>2, <2>3, <2>4
<1>9. HandleT(x)'
  <2>1. alive'[x] = alive[x] /\ HandleT(x)
    BY Zenon DEF TaskT, Untouched
  <2>2. ASSUME alive[x], NEW b \in Cached(x), Held(b)'
        PROVE  /\ nc'[b] = nc[b] /\ slot'[nc[b].thread] = slot[nc[b].thread]
               /\ Held(b)
    <3>1. nc'[b] = nc[b] /\ slot'[nc[b].thread] = slot[nc[b].thread]
      BY Zenon, <1>4, <2>2 DEF Spared
    <3> QED
      BY ZenonT(40), <2>2, <3>1 DEF Held
  <2>3. ASSUME alive[x], NEW b \in Cached(x), Held(b)'
        PROVE  LET j == nc'[b].thread IN
               /\ slot'[j].pub /\ slot'[j].task = x /\ slot'[j].state = "dormant"
               /\ slot'[j].run = nc'[b].sig
    <3>1. /\ slot[nc[b].thread].pub /\ slot[nc[b].thread].task = x
          /\ slot[nc[b].thread].state = "dormant"
          /\ slot[nc[b].thread].run = nc[b].sig
      BY Zenon, <2>1, <2>2, <2>3 DEF HandleT
    <3>2. nc'[b] = nc[b] /\ slot'[nc[b].thread] = slot[nc[b].thread]
      BY Zenon, <2>2, <2>3
    <3> QED
      BY Zenon, <3>1, <3>2
  <2> QED
    BY Zenon, <1>4, <2>1, <2>3 DEF HandleT
<1>10. BitT(x)'
  <2>1. /\ alive'[x] = alive[x] /\ alloc'[x] = alloc[x] /\ app'[x] = app[x]
        /\ pc'[x] = pc[x] /\ loc'[x] = loc[x] /\ BitT(x)
    BY Zenon DEF TaskT, Untouched
  <2>2. SUFFICES ASSUME alive[x] PROVE BitT(x)'
    BY Zenon, <2>1 DEF BitT
  <2>3. \A s \in Bits :
          s \in alloc'[x] <=> \/ s \in app'[x]
                              \/ \E b \in Cached(x)' : s = nc'[b].sig
                              \/ pc'[x] \in Running /\ s = loc'[x].run
                              \/ pc'[x] \in Waiting /\ s = loc'[x].wbit
    BY <1>4, <2>1, <2>2 DEF BitT
  <2>4. /\ \A b \in Cached(x)' : nc'[b].sig \in Bits \ app'[x]
        /\ \A b, d \in Cached(x)' : b # d => nc'[b].sig # nc'[d].sig
    BY <1>4, <2>1, <2>2 DEF BitT
  <2>5. /\ pc'[x] \in Running => /\ loc'[x].run \in Bits \ app'[x]
                                /\ \A b \in Cached(x)' : nc'[b].sig # loc'[x].run
        /\ pc'[x] \in Waiting => /\ loc'[x].wbit \in Bits \ app'[x]
                                /\ loc'[x].wbit # loc'[x].run
                                /\ \A b \in Cached(x)' : nc'[b].sig # loc'[x].wbit
    BY <1>4, <2>1, <2>2 DEF BitT
  <2> QED
    BY Zenon, <2>3, <2>4, <2>5 DEF BitT, Bits, Running, Waiting, Queueing, Adopted
<1> QED
  BY Zenon, <1>6, <1>7, <1>8, <1>9, <1>10 DEF TaskT

----------------------------------------------------------------------------
(* Frames: what the rest of the invariant needs of a step.                 *)

(* A step of Task a: the other Tasks' places, and their records, stay.     *)
Acts(a) ==
  /\ \A x \in Addrs \ {a} :
       /\ pc'[x] = pc[x] /\ loc'[x] = loc[x] /\ alive'[x] = alive[x]
       /\ stamp'[x] = stamp[x] /\ alloc'[x] = alloc[x] /\ app'[x] = app[x]
       /\ lock' = x <=> lock = x
       /\ \A b \in Bases : (b \in owned' /\ sbTask'[b] = x)
                             <=> (b \in owned /\ sbTask[b] = x)
  /\ up' => up
  /\ owned' \subseteq Bases
  /\ \A c \in Callers : ~Mine(a, c) => nc'[c] = nc[c]

(* A record belongs to one Task.                                           *)
LEMMA MineApart ==
  ASSUME TypeOK, NEW a \in Addrs, NEW x \in Addrs \ {a}, NEW c, Mine(a, c)
  PROVE  ~Mine(x, c)
BY AdoptPoolAssumption DEF Mine, TypeOK

(* A step of one Task leaves the others untouched.                         *)
LEMMA ActsAlone ==
  ASSUME TypeOK, NEW a \in Addrs, Acts(a), NEW x \in Addrs \ {a}
  PROVE  Untouched(x)
BY ZenonT(40), MineApart DEF Acts, Untouched

(* Two good handles on one slot are the same.                              *)
LEMMA HeldDistinct ==
  ASSUME GenInv, NEW c \in Callers, NEW d \in Callers, Held(c), Held(d),
         nc[c].thread = nc[d].thread
  PROVE  c = d
BY Zenon DEF GenInv, Held

(* Task a changes a slot of its own, or frees it.                          *)
LEMMA OwnSpares ==
  ASSUME TypeOK, NEW a \in Addrs, Acts(a), NEW x \in Addrs \ {a}, TaskT(x),
         NEW i \in Slots, \A j \in Slots \ {i} : slot'[j] = slot[j],
         \/ slot[i].pub /\ slot[i].task = a
         \/ ~slot[i].pub /\ slot[i].claimer = a,
         slot'[i].busy => slot'[i].gen = slot[i].gen /\ slot[i].busy
  PROVE  Spared(x)
<1>1. Untouched(x) /\ loc[x] \in LocRec /\ nc \in [Callers -> NcRec]
  BY Zenon, ActsAlone, Records
<1>2. ASSUME alive[x], pc[x] \in {"unreg", "create"} \cup Adopted, loc[x].slot # None
      PROVE  slot'[loc[x].slot] = slot[loc[x].slot]
  <2>1. loc[x].slot # i
    BY SMTT(30), <1>2 DEF TaskT, AdoptT
  <2> QED
    BY ZenonT(40), <1>1, <1>2, <2>1 DEF LocRec, OrNone
<1>3. ASSUME NEW b \in Cached(x), alive[x], Held(b)'
      PROVE  slot'[nc[b].thread] = slot[nc[b].thread]
  <2>1. b \in Callers /\ Mine(x, b)
    BY Zenon DEF Cached, TypeOK, Callers, Mine
  <2>2. nc'[b] = nc[b] /\ nc[b].thread \in Slots
    <3>1. nc'[b] = nc[b]
      BY Zenon, <1>1, <2>1 DEF Untouched
    <3>2. nc[b].thread # None
      BY Zenon, <1>3, <3>1 DEF Held
    <3>3. nc[b].thread \in OrNone(Slots)
      BY Zenon, <1>1, <2>1 DEF NcRec
    <3> QED
      BY Zenon, <3>1, <3>2, <3>3 DEF OrNone
  <2>3. CASE nc[b].thread = i
    <3>1. Held(b)
      BY ZenonT(40), <1>3, <2>2, <2>3 DEF Held
    <3>2. slot[i].pub /\ slot[i].task = x
      BY Zenon, <1>3, <2>3, <3>1 DEF TaskT, HandleT
    <3> QED
      BY Zenon, <3>2
  <2> QED
    BY Zenon, <2>2, <2>3
<1> QED
  BY Zenon, <1>2, <1>3 DEF Spared

(* Task a claims slot i, free or evictable.                                *)
LEMMA ClaimSpares ==
  ASSUME Counting, TypeOK, NEW a \in Addrs, Acts(a), NEW x \in Addrs \ {a}, TaskT(x),
         NEW i \in Slots, ~slot[i].busy \/ Evictable(i),
         slot' = [slot EXCEPT ![i] = ClaimedBy(a)]
  PROVE  Spared(x)
<1>1. Untouched(x) /\ loc[x] \in LocRec /\ nc \in [Callers -> NcRec]
      /\ slot \in [Slots -> SlotRec]
  BY Zenon, ActsAlone, Records
<1>2. ASSUME alive[x], pc[x] \in {"unreg", "create"} \cup Adopted, loc[x].slot # None
      PROVE  slot'[loc[x].slot] = slot[loc[x].slot]
  <2>1. loc[x].slot # i
    BY Zenon, <1>2 DEF TaskT, AdoptT, Evictable, Held
  <2> QED
    BY Zenon, <1>1, <1>2, <2>1 DEF LocRec, OrNone
<1>3. ASSUME NEW b \in Cached(x), alive[x], Held(b)'
      PROVE  slot'[nc[b].thread] = slot[nc[b].thread]
  <2>1. b \in Callers /\ Mine(x, b)
    BY Zenon DEF Cached, TypeOK, Callers, Mine
  <2>2. nc'[b] = nc[b] /\ nc[b].thread \in Slots
    <3>1. nc'[b] = nc[b]
      BY Zenon, <1>1, <2>1 DEF Untouched
    <3>2. nc[b].thread # None
      BY Zenon, <1>3, <3>1 DEF Held
    <3>3. nc[b].thread \in OrNone(Slots)
      BY Zenon, <1>1, <2>1 DEF NcRec
    <3> QED
      BY Zenon, <3>1, <3>2, <3>3 DEF OrNone
  <2>3. nc[b].thread # i
    <3>1. slot'[i] = ClaimedBy(a) /\ ClaimedBy(a).gen = NewGeneration
      BY Zenon, <1>1 DEF ClaimedBy, FreeSlot
    <3>2. nc[b].gen # NewGeneration
      BY Zenon, <2>1 DEF Counting, FreshGeneration
    <3> QED
      BY ZenonT(40), <1>3, <2>2, <3>1, <3>2 DEF Held
  <2> QED
    BY Zenon, <1>1, <2>2, <2>3
<1> QED
  BY Zenon, <1>2, <1>3 DEF Spared

(* What any scan that is not the last leaves to a waiter: its entry, and   *)
(* its signal.                                                             *)
LEMMA ScanWakes ==
  ASSUME Counting, TypeOK, NEW w \in [Entries -> EntryRec],
         NEW n, n = TableCount(w),
         NEW al, Scan(w, n, al, FALSE),
         NEW x \in Addrs, TaskT(x), alive[x], up, pc[x] \in Queueing,
         w[loc[x].idx] = waiters[loc[x].idx], al[x] = alloc[x],
         loc'[x] = loc[x]
  PROVE  waiters'[loc[x].idx] = waiters[loc[x].idx] /\ wsig'[x]
<1> DEFINE e == loc[x].idx
<1>1. e \in Entries /\ w[e].task = x /\ w[e].bit = loc[x].wbit /\ w[e].stamp = stamp[x]
  <2>1. e \in Entries
    BY Zenon DEF TaskT, PlaceT
  <2>2. w[e] = [task |-> x, bit |-> loc[x].wbit, stamp |-> stamp[x]]
    BY Zenon DEF TaskT, QueueT
  <2> QED
    BY <2>1, <2>2
<1>2. loc[x].wbit \in alloc[x]
  BY Zenon DEF TaskT, BitT, Waiting
<1>3. x # None
  BY Zenon, AdoptPoolAssumption
<1>4. ~Dropped(w[e], al) /\ Signalled(w[e], al)
  BY Zenon, <1>1, <1>2, <1>3 DEF Dropped, Signalled
<1>5. /\ \A d \in Entries : ~Dropped(w[d], al) => waiters'[d] = w[d]
      /\ \A y \in Addrs, d \in Entries :
           w[d].task = y /\ Signalled(w[d], al) /\ w[d].bit = loc'[y].wbit => wsig'[y]
  BY ZenonT(40), ScanEffect
<1> QED
  BY SMTT(30), <1>1, <1>4, <1>5

(* Availability does not depend on where the evictor starts.               *)
LEMMA AvailableIs ==
  ASSUME TypeOK, NEW r \in BOOLEAN
  PROVE  Available(Limit(r)) <=>
           up /\ \E i \in Slots : i < Limit(r) /\ (~slot[i].busy \/ Evictable(i))
<1>1. Limit(r) \in 1..NSlots
  BY Zenon, LimitRange
<1>2. \A i \in Int : i \in 0..(Limit(r) - 1) <=> i \in Slots /\ i < Limit(r)
  BY <1>1, AdoptPoolAssumption DEF Slots
<1>3. Victims(Limit(r)) # {} <=> \E i \in 0..(Limit(r) - 1) : Evictable(i)
  BY Zenon, <1>1, VictimsFound, AdoptPoolAssumption DEF TypeOK
<1>4. FreeBelow(Limit(r)) # {} <=> \E i \in Slots : i < Limit(r) /\ ~slot[i].busy
  BY Zenon DEF FreeBelow
<1>5. 0..(Limit(r) - 1) \subseteq Int /\ Slots \subseteq Int
  BY <1>1 DEF Slots
<1> HIDE DEF Limit
<1> QED
  BY Zenon, <1>2, <1>3, <1>4, <1>5 DEF Available

(* The step makes no slot available.                                       *)
NoneFreed ==
  /\ up' => up
  /\ \A i \in Slots : ~slot'[i].busy \/ Evictable(i)' => ~slot[i].busy \/ Evictable(i)

(* Then nothing becomes available to any claim.                            *)
LEMMA NoMoreAvailable ==
  ASSUME TypeOK, TypeOK', NoneFreed, NEW r \in BOOLEAN
  PROVE  Available(Limit(r))' => Available(Limit(r))
<1>1. Available(Limit(r)) <=>
        up /\ \E i \in Slots : i < Limit(r) /\ (~slot[i].busy \/ Evictable(i))
  BY Zenon, AvailableIs
<1>2. (Available(Limit(r)) <=>
        up /\ \E i \in Slots : i < Limit(r) /\ (~slot[i].busy \/ Evictable(i)))'
  BY AvailableIs, PTL
<1>3. Limit(r)' = Limit(r)
  BY Zenon DEF Limit
<1> HIDE DEF Limit, Evictable
<1> QED
  BY Zenon, <1>1, <1>2, <1>3 DEF NoneFreed, Slots

(* A Task asleep stays so rightly when nothing is freed.                   *)
LEMMA WakeKept ==
  ASSUME TypeOK, TypeOK', NoneFreed, NEW x \in Addrs, WakeT(x),
         alive'[x] => alive[x], pc'[x] \in {"test", "waiting"} => pc[x] \in {"test", "waiting"},
         loc'[x].res = loc[x].res, wsig[x] => wsig'[x]
  PROVE  WakeT(x)'
<1>1. loc[x].res \in BOOLEAN
  BY Zenon, Records DEF LocRec
<1>2. Available(Limit(loc[x].res))' => Available(Limit(loc[x].res))
  <2>1. \A r \in BOOLEAN : Available(Limit(r))' => Available(Limit(r))
    BY Zenon, NoMoreAvailable
  <2> QED
    BY Zenon, <1>1, <2>1
<1> QED
  BY Zenon, <1>2 DEF WakeT

(* The pool when slots are only freed or changed in place, and handles     *)
(* only dropped.                                                           *)
LEMMA GenFrame ==
  ASSUME GenInv,
         \A i \in Slots : slot'[i].busy =>
           slot[i].busy /\ slot'[i].gen = slot[i].gen /\ (slot[i].pub => slot'[i].pub),
         \A c \in Callers : nc'[c].gen = nc[c].gen \/ nc'[c].gen = 0
  PROVE  GenInv'
<1>1. \A c, d \in Callers : c # d /\ nc'[c].gen # 0 => nc'[c].gen # nc'[d].gen
  BY DEF GenInv
<1>2. \A i \in Slots : slot'[i].busy => slot'[i].gen # 0
  BY ZenonT(40) DEF GenInv
<1>3. \A i \in Slots : slot'[i].busy /\ ~slot'[i].pub =>
        \A c \in Callers : nc'[c].gen # slot'[i].gen
  BY DEF GenInv
<1>4. \A i, j \in Slots : i # j /\ slot'[i].busy /\ slot'[j].busy
                            => slot'[i].gen # slot'[j].gen
  BY DEF GenInv
<1> QED
  BY Zenon, <1>1, <1>2, <1>3, <1>4 DEF GenInv, Slots, Callers

(* The reserved slots, when none is taken and the holder keeps its place.  *)
LEMMA ReservedFrame ==
  ASSUME Reserved,
         \A i \in Slots : i >= NSlots - Reserve /\ slot'[i].busy => slot[i].busy,
         lock' = lock,
         \A x \in Addrs : lock = x /\ pc[x] \in {"create", "parked", "in"}
                           /\ slot'[loc[x].slot].busy
           => loc'[x].slot = loc[x].slot /\ pc'[x] \in {"create", "parked", "in"}
  PROVE  Reserved'
BY ZenonT(40) DEF Reserved, Slots

(* The baton, when its holder's slot is left alone.                        *)
LEMMA HolderFrame ==
  ASSUME HolderInv, holder' = holder \/ holder' = None,
         holder' # None => slot'[holder] = slot[holder]
  PROVE  HolderInv'
BY ZenonT(40) DEF HolderInv

(* The other Tasks and the pool together make the next state.              *)
LEMMA StepKeeps ==
  ASSUME IInv, TypeOK', NEW a \in Addrs, Acts(a), TaskT(a)',
         \A x \in Addrs \ {a} : Spared(x) /\ StillQueued(x),
         PoolInv', WakeInv'
  PROVE  IInv'
<1>1. ASSUME NEW x \in Addrs PROVE TaskT(x)'
  <2>1. CASE x = a
    BY Zenon, <2>1
  <2>2. CASE x # a
    <3>1. x \in Addrs \ {a} /\ TypeOK /\ TaskT(x)
      BY Zenon, <2>2 DEF IInv, TaskInv, TaskT
    <3>2. Untouched(x)
      BY ZenonT(40), <3>1, ActsAlone
    <3> QED
      BY Zenon, <3>1, <3>2, OtherTask
  <2> QED
    BY Zenon, <2>1, <2>2
<1>2. TaskInv'
  BY Zenon, <1>1 DEF TaskInv, TaskT
<1> QED
  BY Zenon, <1>2 DEF IInv

(* A step that frees no slot wakes no one wrongly, and one that scans      *)
(* wakes everyone.                                                         *)
LEMMA OthersSleep ==
  ASSUME IInv, TypeOK', NEW a \in Addrs, Acts(a), NoneFreed,
         NEW x \in Addrs \ {a}, wsig[x] => wsig'[x]
  PROVE  WakeT(x)'
<1> WakeT(x) /\ TypeOK
  BY Zenon DEF IInv, WakeInv
<1>1. alive'[x] = alive[x] /\ pc'[x] = pc[x] /\ loc'[x] = loc[x]
  BY Zenon DEF Acts
<1> QED
  BY ZenonT(40), <1>1, WakeKept

(* A step with a scan wakes everyone that queues, so no one sleeps wrongly *)
(* after it.                                                               *)
LEMMA OthersWoken ==
  ASSUME Counting, IInv, NEW a \in Addrs, Acts(a),
         NEW w \in [Entries -> EntryRec],
         NEW n, n = TableCount(w),
         NEW al, Scan(w, n, al, FALSE),
         NEW x \in Addrs \ {a}, al[x] = alloc[x],
         alive[x] /\ up /\ pc[x] \in Queueing => w[loc[x].idx] = waiters[loc[x].idx]
  PROVE  StillQueued(x) /\ WakeT(x)'
<1> TaskT(x) /\ TypeOK
  BY ZenonT(40) DEF IInv, TaskInv, TaskT
<1>1. alive'[x] = alive[x] /\ pc'[x] = pc[x] /\ loc'[x] = loc[x] /\ (up' => up)
  BY ZenonT(40) DEF Acts
<1>2. CASE alive[x] /\ up /\ pc[x] \in Queueing
  <2>1. waiters'[loc[x].idx] = waiters[loc[x].idx] /\ wsig'[x]
    BY Zenon, <1>1, <1>2, ScanWakes
  <2> QED
    BY Zenon, <2>1 DEF StillQueued, WakeT
<1>3. CASE ~(alive[x] /\ up /\ pc[x] \in Queueing)
  BY ZenonT(40), <1>1, <1>3 DEF StillQueued, WakeT, Available, Queueing
<1> QED
  BY Zenon, <1>2, <1>3

----------------------------------------------------------------------------
(* The steps that move a Task.                                             *)

(* A step that leaves the slots and the waiters' table alone.              *)
LEMMA QuietStep ==
  ASSUME IInv, TypeOK', NEW a \in Addrs, Acts(a), TaskT(a)', WakeT(a)',
         slot' = slot, waiters' = waiters, waiting' = waiting,
         holder' = holder \/ holder' = None,
         \A x \in Addrs \ {a} : wsig[x] => wsig'[x],
         \A c \in Callers : nc'[c].gen = nc[c].gen \/ nc'[c].gen = 0,
         OwnInv', Reserved'
  PROVE  IInv'
<1> PoolInv
  BY Zenon DEF IInv
<1>1. Counted'
  BY Zenon DEF PoolInv, Counted, Registered, Entries
<1>2. GenInv'
  BY Zenon, GenFrame DEF PoolInv
<1>3. HolderInv'
  BY Zenon, HolderFrame DEF PoolInv
<1>4. NoneFreed
  BY Zenon DEF NoneFreed, PoolInv, HolderInv, Evictable, Acts
<1>5. WakeInv'
  BY Zenon, <1>4, OthersSleep DEF WakeInv
<1>6. \A x \in Addrs \ {a} : Spared(x) /\ StillQueued(x)
  BY Zenon DEF Spared, StillQueued
<1> QED
  BY Zenon, <1>1, <1>2, <1>3, <1>5, <1>6, StepKeeps DEF PoolInv

(* The bits and the handles of a Task that gets, frees and takes up none.  *)
LEMMA BitKept ==
  ASSUME NEW a, BitT(a), alive'[a] => alive[a],
         alloc'[a] = alloc[a], app'[a] = app[a],
         Cached(a)' = Cached(a), \A b \in Cached(a) : nc'[b].sig = nc[b].sig,
         pc'[a] \in Running <=> pc[a] \in Running,
         pc'[a] \in Waiting <=> pc[a] \in Waiting,
         pc[a] \in Running => loc'[a].run = loc[a].run,
         pc[a] \in Waiting => loc'[a].wbit = loc[a].wbit
  PROVE  BitT(a)'
<1> SUFFICES ASSUME alive'[a] PROVE BitT(a)'
  BY Zenon DEF BitT
<1>1. \A s \in Bits :
        s \in alloc'[a] <=> \/ s \in app'[a]
                            \/ \E b \in Cached(a)' : s = nc'[b].sig
                            \/ pc'[a] \in Running /\ s = loc'[a].run
                            \/ pc'[a] \in Waiting /\ s = loc'[a].wbit
  BY DEF BitT
<1>2. /\ \A b \in Cached(a)' : nc'[b].sig \in Bits \ app'[a]
      /\ \A b, d \in Cached(a)' : b # d => nc'[b].sig # nc'[d].sig
      /\ pc'[a] \in Running => /\ loc'[a].run \in Bits \ app'[a]
                               /\ \A b \in Cached(a)' : nc'[b].sig # loc'[a].run
      /\ pc'[a] \in Waiting => /\ loc'[a].wbit \in Bits \ app'[a]
                               /\ loc'[a].wbit # loc'[a].run
                               /\ \A b \in Cached(a)' : nc'[b].sig # loc'[a].wbit
  BY DEF BitT, Waiting, Running
<1> QED
  BY Zenon, <1>1, <1>2 DEF BitT, Bits, Running, Waiting

(* The same for a Task left with its own bits and those of its handles.    *)
LEMMA BitsAtRest ==
  ASSUME NEW a, BitT(a), alive'[a] => alive[a], app'[a] = app[a],
         Cached(a)' = Cached(a), \A b \in Cached(a) : nc'[b].sig = nc[b].sig,
         pc'[a] \notin Running, pc'[a] \notin Waiting,
         \A s \in Bits : s \in alloc'[a] <=>
                           s \in app[a] \/ \E b \in Cached(a) : s = nc[b].sig
  PROVE  BitT(a)'
BY DEF BitT, Bits, Running, Waiting

(* The handles at rest, when those that stay good keep their slots.        *)
LEMMA HandleKept ==
  ASSUME NEW a, HandleT(a), alive'[a] => alive[a],
         \A b \in Cached(a)' : Held(b)' =>
           /\ b \in Cached(a) /\ Held(b) /\ nc'[b].thread = nc[b].thread
           /\ nc'[b].sig = nc[b].sig /\ slot'[nc[b].thread] = slot[nc[b].thread]
  PROVE  HandleT(a)'
BY DEF HandleT

(* A handle at rest is the record of a base of the Task.                   *)
LEMMA CachedCallers ==
  ASSUME TypeOK, NEW a
  PROVE  \A b \in Cached(a) : b \in Bases /\ b \in Callers /\ Mine(a, b)
BY Zenon DEF Cached, TypeOK, Callers, Mine

(* The places a Task moves between with its locals, its slot and its bits  *)
(* unchanged.                                                              *)
Moves ==
  {<<"guest", "out">>, <<"test", "waiting">>, <<"test", "unreg">>,
   <<"waiting", "look">>, <<"waiting", "unreg">>, <<"in", "parked">>}

(* Such a move keeps the invariant.                                        *)
LEMMA MoveStep ==
  ASSUME IInv, NEW a \in Addrs, alive[a], NEW q, <<pc[a], q>> \in Moves,
         Goto(a, q),
         UNCHANGED <<up, slot, next, waiters, waiting, nc, baseVars, lock,
                     alloc, loc, taskVars>>,
         holder' = holder \/ (holder' = None /\ pc[a] = "in"),
         \/ wsig' = wsig
         \/ wsig' = [wsig EXCEPT ![a] = FALSE] /\ q = "look"
  PROVE  IInv'
<1> TypeOK /\ TaskT(a) /\ PoolInv /\ WakeT(a)
  BY Zenon DEF IInv, TaskInv, TaskT, WakeInv
<1>1. UNCHANGED <<up, slot, next, waiters, waiting, nc, sbTask, owned, refs,
                  lock, alloc, loc, alive, stamp, app, upsets>>
  BY Zenon DEF baseVars, taskVars
<1>2. pc \in [Addrs -> Places] /\ pc' = [pc EXCEPT ![a] = q] /\ pc'[a] = q /\ q \in Places
  BY Zenon DEF Goto, TypeOK, Moves, Places, Queueing, Adopted
<1>3. TypeOK'
  <2>1. wsig' \in [Addrs -> BOOLEAN]
    <3>1. wsig \in [Addrs -> BOOLEAN]
      BY Zenon DEF TypeOK
    <3> QED
      BY Zenon, <3>1
  <2>2. pc' \in [Addrs -> Places] /\ holder' \in OrNone(Slots)
    BY Zenon, <1>2 DEF TypeOK, OrNone
  <2> QED
    BY ZenonT(40), <1>1, <2>1, <2>2 DEF TypeOK
<1>4. Acts(a)
  BY <1>1, <1>2 DEF Acts, TypeOK
<1>5. Cached(a)' = Cached(a) /\ \A c : Held(c)' <=> Held(c)
  <2>1. Cached(a)' = Cached(a)
    BY Zenon, <1>1, <1>2 DEF Cached, Moves
  <2>2. \A c : Held(c)' <=> Held(c)
    BY Zenon, <1>1 DEF Held
  <2> QED
    BY Zenon, <2>1, <2>2
<1>6. TaskT(a)'
  <2>1. LockT(a)' /\ PlaceT(a)'
    BY Zenon, <1>1, <1>2 DEF TaskT, LockT, PlaceT, Mine, Moves, Unadopted, Queueing, Adopted
  <2>2. QueueT(a)' /\ AdoptT(a)'
    <3>1. QueueT(a)'
      BY <1>1, <1>2 DEF TaskT, QueueT, Moves, Queueing
    <3>2. \A c : Held(c)' <=> Held(c)
      BY Zenon, <1>5
    <3>3. CASE q = "parked"
      <4>1. pc[a] = "in"
        BY Zenon, <3>3 DEF Moves
      <4> QED
        BY Zenon, <1>1, <1>2, <3>1, <3>2, <3>3, <4>1 DEF TaskT, AdoptT, Adopted
    <3>4. CASE q = "unreg"
      <4>1. loc[a].slot = None
        BY Zenon, <3>4 DEF Moves, TaskT, PlaceT, Queueing
      <4> QED
        BY Zenon, <1>1, <1>2, <3>1, <3>4, <4>1 DEF AdoptT, Adopted
    <3>5. CASE q \in {"out", "waiting", "look"}
      BY Zenon, <1>2, <3>1, <3>5 DEF AdoptT, Adopted
    <3> QED
      BY Zenon, <3>3, <3>4, <3>5 DEF Moves
  <2>3. HandleT(a)'
    BY Zenon, <1>1, <1>5 DEF TaskT, HandleT
  <2>4. BitT(a)'
    <3>1. /\ q \in Running <=> pc[a] \in Running
          /\ q \in Waiting <=> pc[a] \in Waiting
      BY Zenon DEF Moves, Running, Waiting, Queueing, Adopted
    <3> QED
      BY Zenon, <1>1, <1>2, <1>5, <3>1, BitKept DEF TaskT
  <2> QED
    BY Zenon, <2>1, <2>2, <2>3, <2>4 DEF TaskT
<1>7. NoneFreed
  <2>1. ASSUME NEW i \in Slots, Evictable(i)' PROVE Evictable(i)
    <3>1. slot[i].busy /\ slot[i].pub /\ slot[i].state = "dormant" /\ slot[i].cached
      BY Zenon, <1>1, <2>1 DEF Evictable
    <3>2. i # holder
      BY Zenon, <2>1, <3>1 DEF Evictable, PoolInv, HolderInv
    <3> QED
      BY Zenon, <3>1, <3>2 DEF Evictable
  <2> QED
    BY <1>1, <2>1 DEF NoneFreed
<1>8. WakeT(a)'
  <2>1. CASE q = "waiting"
    <3>1. pc[a] = "test" /\ wsig' = wsig
      BY Zenon, <2>1 DEF Moves
    <3> QED
      BY Zenon, <1>1, <1>2, <1>3, <1>7, <3>1, WakeKept
  <2>2. CASE q # "waiting"
    BY Zenon, <1>2, <2>2 DEF WakeT, Moves
  <2> QED
    BY Zenon, <2>1, <2>2
<1>9. OwnInv' /\ Reserved'
  <2>1. OwnInv'
    BY Zenon, <1>1 DEF PoolInv, OwnInv
  <2>2. Reserved'
    BY Zenon, <1>1, <1>2, ReservedFrame DEF PoolInv, Moves
  <2> QED
    BY Zenon, <2>1, <2>2
<1>10. \A x \in Addrs \ {a} : wsig[x] => wsig'[x]
  BY Zenon DEF TypeOK
<1> QED
  BY Zenon, <1>1, <1>3, <1>4, <1>6, <1>8, <1>9, <1>10, QuietStep

(* Taking and releasing ami_ns_lock.                                       *)
LEMMA LockStep ==
  ASSUME IInv, NEW a \in Addrs, Lock(a)
  PROVE  IInv'
<1> TypeOK /\ TaskT(a) /\ PoolInv /\ WakeT(a)
  BY Zenon DEF IInv, TaskInv, TaskT, WakeInv
<1>1. UNCHANGED <<up, slot, next, waiters, waiting, wsig, holder, nc, sbTask, owned,
                  refs, alloc, pc, loc, alive, stamp, app, upsets>>
  BY Zenon DEF Lock, NoScan, baseVars, taskVars
<1>2. /\ alive[a] /\ pc[a] = "out" /\ loc[a] = NoLoc
      /\ (lock = None /\ lock' = a) \/ (lock = a /\ lock' = None)
      /\ a # None /\ None \notin Addrs
  BY Zenon, AdoptPoolAssumption DEF Lock, TaskT, PlaceT, Unadopted
<1>3. TypeOK'
  BY Zenon, <1>1, <1>2 DEF TypeOK, OrNone
<1>4. Acts(a)
  BY ZenonT(40), <1>1, <1>2, AdoptPoolAssumption DEF Acts, TypeOK
<1>5. Cached(a)' = Cached(a) /\ \A c : Held(c)' <=> Held(c)
  BY Zenon, <1>1 DEF Cached, Held
<1>6. TaskT(a)'
  <2>1. LockT(a)'
    <3>1. ~loc[a].res
      BY <1>2 DEF NoLoc
    <3> QED
      BY Zenon, <1>1, <1>2, <3>1 DEF LockT, Unadopted, Queueing
  <2>2. PlaceT(a)' /\ QueueT(a)'
    BY Zenon, <1>1 DEF TaskT, PlaceT, QueueT, Mine
  <2>3. AdoptT(a)'
    BY Zenon, <1>1, <1>2 DEF TaskT, AdoptT, Adopted
  <2>4. HandleT(a)'
    BY Zenon, <1>1, <1>5 DEF TaskT, HandleT
  <2>5. BitT(a)'
    BY Zenon, <1>1, <1>5, BitKept DEF TaskT
  <2> QED
    BY Zenon, <2>1, <2>2, <2>3, <2>4, <2>5 DEF TaskT
<1>7. Reserved' /\ OwnInv'
  BY Zenon, <1>1, <1>2 DEF PoolInv, Reserved, OwnInv
<1>8. WakeT(a)'
  BY Zenon, <1>1, <1>2 DEF WakeT
<1> QED
  BY Zenon, <1>1, <1>3, <1>4, <1>6, <1>7, <1>8, QuietStep

(* The kernel stop commits.                                                *)
LEMMA StopStep ==
  ASSUME IInv, NEW a \in Addrs, Stop(a)
  PROVE  IInv'
<1> TypeOK /\ TaskT(a) /\ PoolInv /\ WakeT(a)
  BY Zenon DEF IInv, TaskInv, TaskT, WakeInv
<1>1. UNCHANGED <<slot, next, waiters, waiting, wsig, holder, nc, sbTask, owned,
                  refs, lock, alloc, loc, alive, stamp, app, upsets>>
  BY Zenon DEF Stop, NoScan, baseVars, taskVars
<1>2. /\ alive[a] /\ pc[a] = "out" /\ loc[a] = NoLoc /\ up /\ up' = FALSE
      /\ pc \in [Addrs -> Places] /\ pc' = [pc EXCEPT ![a] = "stopwake"]
      /\ pc'[a] = "stopwake"
  BY Zenon DEF Stop, Goto, TaskT, PlaceT, Unadopted, TypeOK
<1>3. TypeOK'
  <2>1. up' \in BOOLEAN /\ pc' \in [Addrs -> Places]
    BY Zenon, <1>2 DEF Places
  <2> QED
    BY Zenon, <1>1, <2>1 DEF TypeOK
<1>4. Acts(a)
  BY Zenon, <1>1, <1>2 DEF Acts, TypeOK
<1>5. Cached(a)' = Cached(a) /\ \A c : Held(c)' <=> Held(c)
  BY Zenon, <1>1, <1>2 DEF Cached, Held
<1>6. TaskT(a)'
  <2>1. LockT(a)' /\ PlaceT(a)' /\ QueueT(a)'
    BY Zenon, <1>1, <1>2, AdoptPoolAssumption
    DEF TaskT, LockT, PlaceT, QueueT, Unadopted, Queueing, Adopted
  <2>2. AdoptT(a)'
    BY Zenon, <1>1, <1>2 DEF AdoptT, Adopted
  <2>3. HandleT(a)'
    BY Zenon, <1>1, <1>5 DEF TaskT, HandleT
  <2>4. BitT(a)'
    BY Zenon, <1>1, <1>2, <1>5, BitKept DEF TaskT, Running, Waiting, Queueing, Adopted
  <2> QED
    BY Zenon, <2>1, <2>2, <2>3, <2>4 DEF TaskT
<1>7. Reserved'
  BY Zenon, <1>1, <1>2, ReservedFrame DEF PoolInv
<1>8. OwnInv'
  BY Zenon, <1>1 DEF PoolInv, OwnInv
<1>9. WakeT(a)'
  BY Zenon, <1>2 DEF WakeT
<1> QED
  BY Zenon, <1>1, <1>3, <1>4, <1>6, <1>7, <1>8, <1>9, QuietStep

(* The locals of an adoption that begins.                                  *)
LEMMA BeginIs ==
  ASSUME NEW a \in Addrs, NEW c \in Callers
  PROVE  /\ Begin(a, c) \in LocRec /\ Begin(a, c).rec = c
         /\ Begin(a, c).res <=> lock = a
         /\ Begin(a, c).slot = None
<1>1. PICK l : l = Begin(a, c)
  BY Zenon
<1>2. PICK b \in BOOLEAN : b <=> lock = a
  BY Zenon
<1>3. l = [rec |-> c, res |-> b, slot |-> None, run |-> None, wbit |-> None, idx |-> None]
  BY Zenon, <1>1, <1>2 DEF Begin, NoLoc
<1>4. l \in LocRec
  BY Zenon, <1>3 DEF LocRec, OrNone
<1> QED
  BY <1>1, <1>2, <1>3, <1>4

(* ami_netstack_enter() and ami_netstack_enter_cached() begin.             *)
LEMMA EnterStep ==
  ASSUME IInv, NEW a \in Addrs, NEW c \in Callers, Enter(a, c)
  PROVE  IInv'
<1> TypeOK /\ TaskT(a) /\ PoolInv /\ WakeT(a)
  BY Zenon DEF IInv, TaskInv, TaskT, WakeInv
<1>1. UNCHANGED <<up, slot, next, waiters, waiting, wsig, holder, sbTask, owned,
                  refs, lock, alloc, alive, stamp, app, upsets>>
  BY Zenon DEF Enter, NoScan, baseVars, taskVars
<1>2. /\ alive[a] /\ pc[a] = "out" /\ loc[a] = NoLoc /\ up /\ Mine(a, c)
      /\ lock = a => c = a
      /\ pc \in [Addrs -> Places] /\ loc \in [Addrs -> LocRec] /\ nc \in [Callers -> NcRec]
  BY Zenon, Records DEF Enter, Goto, TaskT, PlaceT, Unadopted, TypeOK
<1>3. CASE CallerIsThread(a)
  <2>1. pc' = [pc EXCEPT ![a] = "guest"] /\ UNCHANGED <<nc, loc>> /\ pc'[a] = "guest"
    BY Zenon, <1>2, <1>3 DEF Enter, Goto
  <2>2. TypeOK'
    BY Zenon, <1>1, <1>2, <2>1 DEF TypeOK, Places
  <2>3. Acts(a)
    BY Zenon, <1>1, <1>2, <2>1 DEF Acts, TypeOK
  <2>4. Cached(a)' = Cached(a) /\ \A d : Held(d)' <=> Held(d)
    BY Zenon, <1>1, <1>2, <2>1 DEF Cached, Held
  <2>5. TaskT(a)'
    <3>1. LockT(a)' /\ PlaceT(a)' /\ QueueT(a)'
      BY Zenon, <1>1, <1>2, <2>1, AdoptPoolAssumption
      DEF TaskT, LockT, PlaceT, QueueT, Unadopted, Queueing, Adopted, NoLoc
    <3>2. AdoptT(a)'
      BY Zenon, <2>1 DEF AdoptT, Adopted
    <3>3. HandleT(a)'
      BY Zenon, <1>1, <2>1, <2>4 DEF TaskT, HandleT
    <3>4. BitT(a)'
      BY Zenon, <1>1, <1>2, <2>1, <2>4, BitKept DEF TaskT, Running, Waiting, Queueing, Adopted
    <3> QED
      BY Zenon, <3>1, <3>2, <3>3, <3>4 DEF TaskT
  <2>6. Reserved' /\ OwnInv' /\ WakeT(a)'
    BY Zenon, <1>1, <1>2, <2>1 DEF PoolInv, Reserved, OwnInv, WakeT
  <2> QED
    BY Zenon, <1>1, <2>1, <2>2, <2>3, <2>5, <2>6, QuietStep
<1>4. CASE ~CallerIsThread(a)
  <2> DEFINE q == IF nc[c].live THEN "resume" ELSE "claim"
             l == Begin(a, c)
  <2>1. /\ loc' = [loc EXCEPT ![a] = l] /\ pc' = [pc EXCEPT ![a] = q]
        /\ nc' = [nc EXCEPT ![c].live = (c \in Bases)]
    BY Zenon, <1>4 DEF Enter, Goto
  <2>2. /\ l \in LocRec /\ l.rec = c /\ (l.res <=> lock = a) /\ l.slot = None
    BY Zenon, BeginIs
  <2> HIDE DEF l
  <2>3. /\ pc'[a] = q /\ loc'[a] = l /\ q \in Places
        /\ \A x \in Addrs \ {a} : pc'[x] = pc[x] /\ loc'[x] = loc[x]
    BY Zenon, <1>2, <2>1 DEF Places
  <2>4. /\ \A d \in Callers \ {c} : nc'[d] = nc[d]
        /\ nc'[c].gen = nc[c].gen /\ nc'[c].thread = nc[c].thread /\ nc'[c].sig = nc[c].sig
        /\ nc'[c].live <=> c \in Bases
    BY Zenon, <1>2, <2>1 DEF NcRec
  <2>5. nc' \in [Callers -> NcRec]
    <3>1. PICK b \in BOOLEAN : b <=> c \in Bases
      BY Zenon
    <3>2. nc' = [nc EXCEPT ![c] = [nc[c] EXCEPT !.live = b]]
      BY Zenon, <1>2, <2>1, <3>1
    <3>3. [nc[c] EXCEPT !.live = b] \in NcRec
      BY Zenon, <1>2 DEF NcRec
    <3> QED
      BY Zenon, <1>2, <3>2, <3>3
  <2>6. TypeOK'
    BY Zenon, <1>1, <1>2, <2>1, <2>2, <2>3, <2>5 DEF TypeOK, NcRec, LocRec
  <2>7. Acts(a)
    BY Zenon, <1>1, <1>2, <2>3, <2>4 DEF Acts, TypeOK
  <2>8. nc[c].live => c \in Bases
    BY Zenon DEF PoolInv, OwnInv, Callers
  <2>9. Cached(a)' = Cached(a) /\ \A d \in Callers : Held(d)' <=> Held(d)
    <3>1. \A b \in Bases : b \in Cached(a)' <=> b \in Cached(a)
      <4>1. \A b \in owned : b \in Bases /\ b \in Callers /\ b # loc[a].rec
        <5>1. loc[a].rec = None /\ None \notin Bases
          BY <1>2, AdoptPoolAssumption DEF NoLoc
        <5>2. owned \subseteq Bases
          BY Zenon DEF TypeOK
        <5> QED
          BY Zenon, <5>1, <5>2 DEF Callers
      <4>2. \A b \in owned \ {c} : b \in Cached(a)' <=> b \in Cached(a)
        BY Zenon, <1>1, <2>2, <2>3, <2>4, <4>1 DEF Cached
      <4>3. c \in owned => (c \in Cached(a)' <=> c \in Cached(a))
        BY Zenon, <1>1, <2>2, <2>3, <2>4, <4>1 DEF Cached
      <4> QED
        BY Zenon, <1>1, <4>2, <4>3 DEF Cached
    <3>2. \A d \in Callers : Held(d)' <=> Held(d)
      BY ZenonT(40), <1>1, <2>4 DEF Held
    <3> QED
      BY Zenon, <1>1, <3>1, <3>2 DEF Cached, TypeOK
  <2>10. TaskT(a)'
    <3>1. LockT(a)' /\ QueueT(a)' /\ AdoptT(a)'
      BY Zenon, <1>1, <1>2, <2>2, <2>3, <2>8, AdoptPoolAssumption
      DEF TaskT, LockT, QueueT, AdoptT, Unadopted, Queueing, Adopted, NoLoc
    <3>2. PlaceT(a)'
      BY Zenon, <1>1, <1>2, <2>2, <2>3, <2>4, <2>8, AdoptPoolAssumption
      DEF PlaceT, Unadopted, Queueing, Adopted, Mine
    <3>3. HandleT(a)'
      <4>1. \A b \in Cached(a) : nc'[b].thread = nc[b].thread /\ nc'[b].sig = nc[b].sig
                                /\ b \in Callers
        BY Zenon, <2>4, CachedCallers
      <4> QED
        BY Zenon, <1>1, <2>9, <4>1, HandleKept DEF TaskT
    <3>4. BitT(a)'
      <4>1. \A b \in Cached(a) : nc'[b].sig = nc[b].sig
        BY Zenon, <2>4, CachedCallers
      <4>2. pc[a] \notin Running \cup Waiting /\ pc'[a] \notin Running \cup Waiting
        BY Zenon, <1>2, <2>3 DEF Running, Waiting, Queueing, Adopted
      <4> QED
        BY Zenon, <1>1, <2>9, <4>1, <4>2, BitKept DEF TaskT
    <3> QED
      BY Zenon, <3>1, <3>2, <3>3, <3>4 DEF TaskT
  <2>11. Reserved' /\ WakeT(a)'
    BY Zenon, <1>1, <1>2, <2>3 DEF PoolInv, Reserved, WakeT
  <2>12. OwnInv'
    <3>1. OwnInv
      BY Zenon DEF PoolInv
    <3>2. c \in Bases => c \in refs
      BY Zenon, <1>2, <3>1, AdoptPoolAssumption DEF Mine, OwnInv
    <3>3. \A b \in Bases \ refs' : nc'[b] = NoCaller
      BY Zenon, <1>1, <2>4, <3>1, <3>2 DEF OwnInv, Callers
    <3>4. \A x \in Addrs : ~nc'[x].live
      BY Zenon, <2>4, <3>1, AdoptPoolAssumption DEF OwnInv, Callers
    <3> QED
      BY Zenon, <1>1, <3>1, <3>3, <3>4 DEF OwnInv
  <2> QED
    BY Zenon, <1>1, <2>4, <2>6, <2>7, <2>10, <2>11, <2>12, QuietStep
<1> QED
  BY Zenon, <1>3, <1>4

(* A Task inside the stack came with a record of its own.                  *)
LEMMA RecIsCaller ==
  ASSUME TypeOK, NEW a \in Addrs, TaskT(a), pc[a] \notin Unadopted
  PROVE  /\ loc[a].rec \in Callers /\ Mine(a, loc[a].rec)
         /\ loc[a].rec \in Bases \/ loc[a].rec = a
BY Zenon DEF TaskT, PlaceT, Mine, TypeOK, Callers

(* The bits an adoption under way has got.                                 *)
Got(a) == {s \in Bits : \/ pc[a] \in Running /\ s = loc[a].run
                        \/ pc[a] \in Waiting /\ s = loc[a].wbit}

(* A failed adoption, and one that ends, leaves its Task as it was before  *)
(* it; a release also takes the base from it.                              *)
LEMMA FailTask ==
  ASSUME IInv, NEW a \in Addrs, alive[a],
         pc[a] \in {"claim", "register", "unreg", "create", "in", "relin"},
         NEW bits, bits \cap Bits = Got(a), Fail(a, bits),
         UNCHANGED <<up, lock, alive, stamp, app>>,
         \/ UNCHANGED <<sbTask, owned, refs>>
         \/ /\ loc[a].rec \in Bases
            /\ sbTask' = [sbTask EXCEPT ![loc[a].rec] = None]
            /\ owned' = owned \ {loc[a].rec} /\ refs' = refs \ {loc[a].rec},
         \A b \in Cached(a) : Held(b) =>
           slot'[nc[b].thread] = slot[nc[b].thread] \/ ~slot'[nc[b].thread].busy,
         \A b \in Cached(a) : Held(b)' => Held(b)
  PROVE  /\ TaskT(a)' /\ OwnInv' /\ Acts(a) /\ pc'[a] = "out" /\ loc'[a] = NoLoc
         /\ nc' \in [Callers -> NcRec] /\ loc' \in [Addrs -> LocRec]
         /\ alloc' \in [Addrs -> SUBSET Bits] /\ pc' \in [Addrs -> Places]
         /\ sbTask' \in [Bases -> OrNone(Addrs)]
         /\ owned' \subseteq Bases /\ refs' \subseteq Bases
         /\ \A c \in Callers : nc'[c].gen = nc[c].gen \/ nc'[c].gen = 0
<1> DEFINE c == loc[a].rec
<1>1. TypeOK /\ TaskT(a) /\ PoolInv /\ OwnInv
  BY Zenon DEF IInv, TaskInv, TaskT, PoolInv
<1>2. c \in Callers /\ Mine(a, c) /\ (c \in Bases \/ c = a)
  <2>1. pc[a] \notin Unadopted
    BY Zenon DEF Unadopted
  <2> QED
    BY Zenon, <1>1, <2>1, RecIsCaller
<1> HIDE DEF c
<1>3. /\ pc \in [Addrs -> Places] /\ loc \in [Addrs -> LocRec] /\ nc \in [Callers -> NcRec]
      /\ alloc \in [Addrs -> SUBSET Bits] /\ NoCaller \in NcRec /\ NoLoc \in LocRec
  BY Zenon, <1>1, Records DEF TypeOK
<1>4. /\ alloc' = [alloc EXCEPT ![a] = @ \ bits] /\ nc' = [nc EXCEPT ![c] = NoCaller]
      /\ loc' = [loc EXCEPT ![a] = NoLoc] /\ pc' = [pc EXCEPT ![a] = "out"]
  BY Zenon DEF Fail, Goto, c
<1>5. /\ nc' \in [Callers -> NcRec] /\ loc' \in [Addrs -> LocRec]
      /\ alloc' \in [Addrs -> SUBSET Bits] /\ pc' \in [Addrs -> Places]
  BY Zenon, <1>2, <1>3, <1>4 DEF Places
<1>6. /\ pc'[a] = "out" /\ loc'[a] = NoLoc /\ nc'[c] = NoCaller
      /\ alloc'[a] = alloc[a] \ bits
      /\ \A d \in Callers \ {c} : nc'[d] = nc[d]
      /\ ~NoCaller.live /\ NoCaller.gen = 0 /\ NoLoc.rec = None /\ NoLoc.res = FALSE
  BY Zenon, <1>2, <1>3, <1>4 DEF NoCaller, NoLoc
<1>0. /\ sbTask' \in [Bases -> OrNone(Addrs)] /\ owned' \subseteq owned
      /\ refs' \subseteq refs /\ owned \subseteq Bases /\ refs \subseteq Bases
      /\ owned \ {c} \subseteq owned' /\ refs \ {c} \subseteq refs'
      /\ owned' \subseteq refs' /\ \A b \in owned' : sbTask'[b] = sbTask[b]
      /\ c \in Bases => c \in owned /\ sbTask[c] = a
  <2>1. sbTask \in [Bases -> OrNone(Addrs)] /\ owned \subseteq Bases /\ refs \subseteq Bases
        /\ owned \subseteq refs
    BY Zenon, <1>1 DEF TypeOK, OwnInv
  <2>2. c \in Bases => c \in owned /\ sbTask[c] = a
    BY Zenon, <1>2, AdoptPoolAssumption DEF Mine
  <2>3. CASE UNCHANGED <<sbTask, owned, refs>>
    BY Zenon, <2>1, <2>2, <2>3
  <2>4. CASE /\ c \in Bases /\ sbTask' = [sbTask EXCEPT ![c] = None]
             /\ owned' = owned \ {c} /\ refs' = refs \ {c}
    BY Zenon, <2>1, <2>2, <2>4 DEF OrNone
  <2> QED
    BY Zenon, <2>3, <2>4 DEF c
<1>7. Acts(a)
  <2>1. ASSUME NEW x \in Addrs \ {a}, NEW b \in Bases
        PROVE  (b \in owned' /\ sbTask'[b] = x) <=> (b \in owned /\ sbTask[b] = x)
    <3>1. CASE b = c
      <4>1. sbTask[c] = a /\ a # x
        BY Zenon, <1>0, <2>1, <3>1
      <4>2. c \in owned' => sbTask'[c] = sbTask[c]
        BY Zenon, <1>0
      <4> QED
        BY Zenon, <3>1, <4>1, <4>2
    <3>2. CASE b # c
      BY Zenon, <1>0, <3>2
    <3> QED
      BY Zenon, <3>1, <3>2
  <2>2. ASSUME NEW x \in Addrs \ {a}
        PROVE  pc'[x] = pc[x] /\ loc'[x] = loc[x] /\ alloc'[x] = alloc[x]
    BY Zenon, <1>3, <1>4
  <2> QED
    BY ZenonT(40), <1>0, <1>2, <1>6, <2>1, <2>2 DEF Acts
<1>8. OwnInv'
  <2>1. \A b \in owned' : sbTask'[b] \in Addrs /\ alive'[sbTask'[b]]
    BY Zenon, <1>1, <1>0 DEF OwnInv
  <2>2. \A b \in Bases \ refs' : nc'[b] = NoCaller
    BY ZenonT(40), <1>1, <1>0, <1>6 DEF OwnInv, Callers
  <2>3. \A x \in Addrs : ~nc'[x].live
    BY Zenon, <1>1, <1>6 DEF OwnInv, Callers
  <2> QED
    BY Zenon, <1>0, <2>1, <2>2, <2>3 DEF OwnInv
<1>9. Cached(a)' = Cached(a) /\ \A b \in Cached(a) : nc'[b] = nc[b]
  <2>1. \A b \in owned : b # None /\ b \in Callers
    BY <1>1, AdoptPoolAssumption DEF TypeOK, Callers
  <2>2. \A b \in Cached(a) : b # c
    BY Zenon DEF Cached, c
  <2>3. \A b \in owned : b \in Cached(a)' <=> b \in Cached(a)
    BY Zenon, <1>0, <1>6, <2>1, <2>2 DEF Cached, c
  <2>4. Cached(a)' \subseteq owned /\ Cached(a) \subseteq owned
    BY Zenon, <1>0 DEF Cached
  <2> QED
    BY Zenon, <1>6, <2>1, <2>2, <2>3, <2>4
<1>10. TaskT(a)'
  <2>1. LockT(a)' /\ PlaceT(a)' /\ QueueT(a)'
    BY Zenon, <1>1, <1>6, AdoptPoolAssumption
    DEF TaskT, LockT, PlaceT, QueueT, Unadopted, Queueing, Adopted
  <2>2. AdoptT(a)'
    BY Zenon, <1>6 DEF AdoptT, Adopted
  <2>3. HandleT(a)'
    <3>1. \A b \in Cached(a)' : Held(b)' =>
           /\ b \in Cached(a) /\ Held(b) /\ nc'[b].thread = nc[b].thread
           /\ nc'[b].sig = nc[b].sig /\ slot'[nc[b].thread] = slot[nc[b].thread]
      BY ZenonT(40), <1>9 DEF Held
    <3> QED
      BY Zenon, <1>1, <3>1, HandleKept DEF TaskT
  <2>4. BitT(a)'
    <3>1. BitT(a) /\ alloc[a] \subseteq Bits
      BY Zenon, <1>1 DEF TaskT, TypeOK
    <3>2. \A s \in Bits :
            s \in alloc'[a] <=> s \in app[a] \/ \E b \in Cached(a) : s = nc[b].sig
      BY SMTT(30), <1>6, <3>1 DEF BitT, Got
    <3>3. pc'[a] \notin Running /\ pc'[a] \notin Waiting
      BY Zenon, <1>6 DEF Running, Waiting, Queueing, Adopted
    <3> QED
      BY Zenon, <1>6, <1>9, <3>1, <3>2, <3>3, BitsAtRest
  <2> QED
    BY Zenon, <2>1, <2>2, <2>3, <2>4 DEF TaskT
<1>11. owned' \subseteq Bases /\ refs' \subseteq Bases
  BY Zenon, <1>0
<1>12. \A d \in Callers : nc'[d].gen = nc[d].gen \/ nc'[d].gen = 0
  BY Zenon, <1>6
<1> QED
  BY Zenon, <1>0, <1>5, <1>6, <1>7, <1>8, <1>10, <1>11, <1>12

(* Failing before anything was claimed or registered.                      *)
LEMMA FailStep ==
  ASSUME IInv, NEW a \in Addrs, alive[a],
         NEW bits, \/ pc[a] = "claim" /\ bits = {}
                   \/ pc[a] = "register" /\ bits = {loc[a].run},
         Fail(a, bits), NoScan,
         UNCHANGED <<up, slot, next, holder, baseVars, lock, taskVars>>
  PROVE  IInv'
<1> TypeOK /\ TaskT(a) /\ PoolInv /\ Reserved
  BY Zenon DEF IInv, TaskInv, TaskT, PoolInv
<1>1. UNCHANGED <<up, slot, next, waiters, waiting, wsig, holder, sbTask, owned,
                  refs, lock, alive, stamp, app, upsets>>
  BY Zenon DEF NoScan, baseVars, taskVars
<1>2. bits \cap Bits = Got(a)
  BY Zenon DEF Got, Running, Waiting, Queueing, Adopted, TaskT, BitT
<1>3. \A b \in Cached(a) : Held(b)' => Held(b)
  <2>1. \A b \in Cached(a) : b # loc[a].rec /\ b \in Callers
    BY Zenon, CachedCallers DEF Cached
  <2>2. \A b \in Cached(a) : nc'[b] = nc[b]
    BY Zenon, <2>1 DEF Fail, TypeOK
  <2> QED
    BY Zenon, <1>1, <2>2 DEF Held
<1>4. /\ TaskT(a)' /\ OwnInv' /\ Acts(a) /\ pc'[a] = "out" /\ loc'[a] = NoLoc
      /\ nc' \in [Callers -> NcRec] /\ loc' \in [Addrs -> LocRec]
      /\ alloc' \in [Addrs -> SUBSET Bits] /\ pc' \in [Addrs -> Places]
      /\ \A c \in Callers : nc'[c].gen = nc[c].gen \/ nc'[c].gen = 0
  BY Zenon, <1>1, <1>2, <1>3, FailTask
<1>5. TypeOK'
  BY Zenon, <1>1, <1>4 DEF TypeOK, NcRec, LocRec
<1>6. Reserved'
  <2>1. \A x \in Addrs : lock = x /\ pc[x] \in {"create", "parked", "in"} => x # a
    BY Zenon
  <2> QED
    BY Zenon, <1>1, <1>4, <2>1, ReservedFrame DEF Acts
<1>7. WakeT(a)'
  BY Zenon, <1>4 DEF WakeT
<1> QED
  BY Zenon, <1>1, <1>4, <1>5, <1>6, <1>7, QuietStep

(* OpenLibrary().                                                          *)
LEMMA OpenStep ==
  ASSUME IInv, NEW a \in Addrs, NEW b \in Bases, Open(a, b)
  PROVE  IInv'
<1> TypeOK /\ TaskT(a) /\ PoolInv /\ OwnInv /\ Reserved
  BY Zenon DEF IInv, TaskInv, TaskT, PoolInv
<1>1. UNCHANGED <<up, slot, next, waiters, waiting, wsig, holder, nc, lock, alloc,
                  pc, loc, alive, stamp, app, upsets>>
  BY Zenon DEF Open, NoScan, taskVars
<1>2. /\ alive[a] /\ pc[a] = "out" /\ loc[a] = NoLoc /\ b \notin refs /\ b \notin owned
      /\ sbTask' = [sbTask EXCEPT ![b] = a] /\ owned' = owned \cup {b}
      /\ refs' = refs \cup {b} /\ nc[b] = NoCaller /\ ~nc[b].live
      /\ sbTask \in [Bases -> OrNone(Addrs)]
  <2>1. loc[a] = NoLoc /\ sbTask \in [Bases -> OrNone(Addrs)]
    BY Zenon DEF Open, TaskT, PlaceT, Unadopted, TypeOK
  <2>2. b \notin refs /\ b \notin owned /\ nc[b] = NoCaller /\ ~NoCaller.live
    BY Zenon DEF Open, OwnInv, NoCaller
  <2> QED
    BY Zenon, <2>1, <2>2 DEF Open
<1>3. TypeOK'
  BY Zenon, <1>1, <1>2 DEF TypeOK, OrNone
<1>4. Acts(a)
  BY Zenon, <1>1, <1>2 DEF Acts, TypeOK
<1>5. OwnInv'
  BY ZenonT(40), <1>1, <1>2 DEF OwnInv, TypeOK
<1>6. Cached(a)' = Cached(a) /\ \A c : Held(c)' <=> Held(c)
  <2>1. \A d : d \in Cached(a)' <=> d \in Cached(a)
    BY Zenon, <1>1, <1>2 DEF Cached, TypeOK
  <2> QED
    BY Zenon, <1>1, <2>1 DEF Held, Cached
<1>7. TaskT(a)'
  <2>1. LockT(a)' /\ QueueT(a)' /\ AdoptT(a)'
    BY Zenon, <1>1, <1>2 DEF TaskT, LockT, QueueT, AdoptT, Adopted, Queueing
  <2>2. PlaceT(a)'
    BY Zenon, <1>1, <1>2 DEF TaskT, PlaceT, Unadopted
  <2>3. HandleT(a)'
    BY Zenon, <1>1, <1>6, HandleKept DEF TaskT
  <2>4. BitT(a)'
    BY Zenon, <1>1, <1>6, BitKept DEF TaskT
  <2> QED
    BY Zenon, <2>1, <2>2, <2>3, <2>4 DEF TaskT
<1>8. Reserved' /\ WakeT(a)'
  BY Zenon, <1>1, <1>2 DEF Reserved, WakeT
<1> QED
  BY Zenon, <1>1, <1>3, <1>4, <1>5, <1>7, <1>8, QuietStep

(* StackSwap() by a Task outside the stack.                                *)
LEMMA StackSwapStep ==
  ASSUME IInv, NEW a \in Addrs, StackSwap(a)
  PROVE  IInv'
<1> TypeOK /\ TaskT(a) /\ PoolInv /\ OwnInv /\ Reserved
  BY Zenon DEF IInv, TaskInv, TaskT, PoolInv
<1>1. UNCHANGED <<up, slot, next, waiters, waiting, wsig, holder, nc, sbTask, owned,
                  refs, lock, alloc, pc, loc, alive, app>>
  BY Zenon DEF StackSwap, NoScan, baseVars
<1>2. /\ alive[a] /\ pc[a] = "out" /\ loc[a] = NoLoc
      /\ stamp' \in [Addrs -> Stamps] /\ \A x \in Addrs \ {a} : stamp'[x] = stamp[x]
      /\ upsets' \in 0..MaxUpsets
  <2>1. alive[a] /\ pc[a] = "out" /\ loc[a] = NoLoc
    BY Zenon DEF StackSwap, TaskT, PlaceT, Unadopted
  <2>2. stamp' \in [Addrs -> Stamps] /\ \A x \in Addrs \ {a} : stamp'[x] = stamp[x]
    BY ZenonT(40) DEF StackSwap, TypeOK
  <2>3. upsets' \in 0..MaxUpsets
    BY AdoptPoolAssumption DEF StackSwap, Upset, TypeOK
  <2> QED
    BY Zenon, <2>1, <2>2, <2>3
<1>3. TypeOK'
  BY Zenon, <1>1, <1>2 DEF TypeOK
<1>4. Acts(a)
  BY Zenon, <1>1, <1>2 DEF Acts, TypeOK
<1>5. OwnInv'
  BY Zenon, <1>1 DEF OwnInv
<1>6. Cached(a)' = Cached(a) /\ \A c : Held(c)' <=> Held(c)
  BY Zenon, <1>1 DEF Held, Cached
<1>7. TaskT(a)'
  <2>1. LockT(a)' /\ QueueT(a)' /\ AdoptT(a)'
    BY Zenon, <1>1, <1>2 DEF TaskT, LockT, QueueT, AdoptT, Adopted, Queueing
  <2>2. PlaceT(a)'
    BY Zenon, <1>1, <1>2 DEF TaskT, PlaceT, Unadopted
  <2>3. HandleT(a)'
    BY Zenon, <1>1, <1>6, HandleKept DEF TaskT
  <2>4. BitT(a)'
    BY Zenon, <1>1, <1>6, BitKept DEF TaskT
  <2> QED
    BY Zenon, <2>1, <2>2, <2>3, <2>4 DEF TaskT
<1>8. Reserved' /\ WakeT(a)'
  BY Zenon, <1>1, <1>2 DEF Reserved, WakeT
<1> QED
  BY Zenon, <1>1, <1>3, <1>4, <1>5, <1>7, <1>8, QuietStep

(* AddTask() at an address that was free.                                  *)
LEMMA LaunchStep ==
  ASSUME IInv, NEW a \in Addrs, Launch(a)
  PROVE  IInv'
<1> TypeOK /\ TaskT(a) /\ PoolInv /\ OwnInv /\ Reserved
  BY Zenon DEF IInv, TaskInv, TaskT, PoolInv
<1>1. UNCHANGED <<up, slot, next, waiters, waiting, wsig, holder, nc, sbTask, owned,
                  refs, lock, loc, upsets>>
  BY Zenon DEF Launch, NoScan, baseVars
<1>2. PICK own \in SUBSET Bits : /\ alloc' = [alloc EXCEPT ![a] = own]
                                 /\ app' = [app EXCEPT ![a] = own]
  <2>1. NBits - 1 \in Bits
    BY AdoptPoolAssumption DEF Bits
  <2> QED
    BY Zenon, <2>1 DEF Launch
<1>3. /\ ~alive[a] /\ pc[a] = "dead" /\ loc[a] = NoLoc /\ lock # a
      /\ alive' = [alive EXCEPT ![a] = TRUE] /\ pc' = [pc EXCEPT ![a] = "out"]
      /\ stamp' \in [Addrs -> Stamps] /\ \A x \in Addrs \ {a} : stamp'[x] = stamp[x]
  BY DEF Launch, Goto, TaskT, PlaceT, LockT, Unadopted, TypeOK
<1>4. TypeOK'
  <2>1. alive' \in [Addrs -> BOOLEAN]
    <3>1. alive \in [Addrs -> BOOLEAN]
      BY Zenon DEF TypeOK
    <3> QED
      BY Zenon, <1>3, <3>1
  <2>2. pc' \in [Addrs -> Places] /\ alloc' \in [Addrs -> SUBSET Bits]
        /\ app' \in [Addrs -> SUBSET Bits]
    BY Zenon, <1>2, <1>3 DEF TypeOK, Places
  <2> QED
    BY Zenon, <1>1, <1>3, <2>1, <2>2 DEF TypeOK
<1>5. Acts(a)
  BY Zenon, <1>1, <1>2, <1>3 DEF Acts, TypeOK
<1>6. OwnInv'
  BY Zenon, <1>1, <1>3 DEF OwnInv, TypeOK
<1>7. /\ pc'[a] = "out" /\ alive'[a] /\ alloc'[a] = own /\ app'[a] = own
  BY Zenon, <1>2, <1>3 DEF TypeOK
<1>8. Cached(a)' = {}
  BY ZenonT(40), <1>1, <1>3, <1>7 DEF Cached, OwnInv
<1>9. TaskT(a)'
  <2>1. LockT(a)' /\ QueueT(a)' /\ AdoptT(a)'
    BY Zenon, <1>1, <1>3, <1>7 DEF TaskT, LockT, QueueT, AdoptT, Adopted, Queueing
  <2>2. PlaceT(a)'
    BY Zenon, <1>1, <1>3, <1>7, AdoptPoolAssumption
    DEF TaskT, PlaceT, Unadopted, Queueing, Adopted, NoLoc
  <2>3. HandleT(a)'
    BY Zenon, <1>8 DEF HandleT
  <2>4. BitT(a)'
    BY Zenon, <1>7, <1>8 DEF BitT, Running, Waiting, Queueing, Adopted
  <2> QED
    BY Zenon, <2>1, <2>2, <2>3, <2>4 DEF TaskT
<1>10. Reserved'
  BY Zenon, <1>1, <1>3, <1>5, ReservedFrame DEF Acts
<1>11. WakeT(a)'
  BY Zenon, <1>7 DEF WakeT
<1> QED
  BY Zenon, <1>1, <1>4, <1>5, <1>6, <1>9, <1>10, <1>11, QuietStep

(* RemTask(): slots, entries and records of bases stay behind.             *)
LEMMA DieStep ==
  ASSUME IInv, NEW a \in Addrs, Die(a)
  PROVE  IInv'
<1> TypeOK /\ TaskT(a) /\ PoolInv /\ OwnInv /\ Reserved
  BY Zenon DEF IInv, TaskInv, TaskT, PoolInv
<1>1. UNCHANGED <<up, slot, next, waiters, waiting, holder, sbTask, refs, lock, stamp>>
  BY Zenon DEF Die
<1>2. /\ lock # a /\ upsets' \in 0..MaxUpsets
      /\ alive' = [alive EXCEPT ![a] = FALSE]
      /\ alloc' = [alloc EXCEPT ![a] = {}] /\ app' = [app EXCEPT ![a] = {}]
      /\ pc' = [pc EXCEPT ![a] = "dead"] /\ loc' = [loc EXCEPT ![a] = NoLoc]
      /\ wsig' = [wsig EXCEPT ![a] = FALSE]
      /\ nc' = [nc EXCEPT ![a] = NoCaller]
      /\ owned' = {b \in owned : sbTask[b] # a}
  <2>1. upsets' \in 0..MaxUpsets
    BY AdoptPoolAssumption DEF Die, Upset, TypeOK
  <2> QED
    BY Zenon, <2>1 DEF Die
<1>3. /\ loc \in [Addrs -> LocRec] /\ nc \in [Callers -> NcRec]
      /\ NoCaller \in NcRec /\ NoLoc \in LocRec /\ a \in Callers
      /\ ~NoCaller.live /\ NoCaller.gen = 0 /\ NoLoc.rec = None /\ NoLoc.res = FALSE
  BY Zenon, Records DEF Callers, NoCaller, NoLoc
<1>4. TypeOK'
  <2>1. alive' \in [Addrs -> BOOLEAN] /\ wsig' \in [Addrs -> BOOLEAN]
    <3>1. alive \in [Addrs -> BOOLEAN] /\ wsig \in [Addrs -> BOOLEAN]
      BY Zenon DEF TypeOK
    <3> QED
      BY Zenon, <1>2, <3>1
  <2>2. pc' \in [Addrs -> Places] /\ alloc' \in [Addrs -> SUBSET Bits]
        /\ app' \in [Addrs -> SUBSET Bits]
    BY Zenon, <1>2 DEF TypeOK, Places
  <2>3. loc' \in [Addrs -> LocRec] /\ nc' \in [Callers -> NcRec] /\ owned' \subseteq Bases
    BY Zenon, <1>2, <1>3 DEF TypeOK
  <2> QED
    BY Zenon, <1>1, <1>2, <2>1, <2>2, <2>3 DEF TypeOK, LocRec, NcRec
<1>5. /\ pc'[a] = "dead" /\ ~alive'[a] /\ loc'[a] = NoLoc
      /\ nc'[a] = NoCaller /\ \A c \in Callers \ {a} : nc'[c] = nc[c]
  BY Zenon, <1>2, <1>3 DEF TypeOK
<1>6. Acts(a)
  BY ZenonT(40), <1>1, <1>2, <1>5 DEF Acts, TypeOK, Mine
<1>7. OwnInv'
  BY ZenonT(40), <1>1, <1>2, <1>3, <1>5, AdoptPoolAssumption DEF OwnInv, TypeOK, Callers
<1>8. TaskT(a)'
  BY Zenon, <1>1, <1>2, <1>3, <1>5, AdoptPoolAssumption
  DEF TaskT, LockT, PlaceT, QueueT, AdoptT, HandleT, BitT, Unadopted, Queueing, Adopted
<1>9. Reserved'
  BY ZenonT(40), <1>1, <1>2, <1>6, ReservedFrame DEF Acts
<1>10. WakeT(a)' /\ \A x \in Addrs \ {a} : wsig[x] => wsig'[x]
  BY Zenon, <1>2, <1>5 DEF WakeT, TypeOK
<1>11. \A c \in Callers : nc'[c].gen = nc[c].gen \/ nc'[c].gen = 0
  BY Zenon, <1>3, <1>5
<1> QED
  BY Zenon, <1>1, <1>4, <1>6, <1>7, <1>8, <1>9, <1>10, <1>11, QuietStep

----------------------------------------------------------------------------
(* Handles taken up and given up.                                          *)

(* The last scan of a stop.                                                *)
LEMMA StopWakeStep ==
  ASSUME Counting, IInv, NEW a \in Addrs, StopWake(a)
  PROVE  IInv'
<1> TypeOK /\ TaskT(a) /\ PoolInv /\ OwnInv /\ Reserved /\ Counted
  BY Zenon DEF IInv, TaskInv, TaskT, PoolInv
<1>1. UNCHANGED <<up, slot, next, holder, nc, sbTask, owned, refs, lock, alloc, loc,
                  alive, stamp, app, upsets>>
  BY Zenon DEF StopWake, baseVars, taskVars
<1>2. /\ alive[a] /\ pc[a] = "stopwake" /\ ~up /\ loc[a] = NoLoc
      /\ pc \in [Addrs -> Places] /\ pc' = [pc EXCEPT ![a] = "out"] /\ pc'[a] = "out"
  BY Zenon DEF StopWake, Goto, TaskT, PlaceT, Unadopted, TypeOK
<1>3. /\ waiters' \in [Entries -> EntryRec] /\ waiting' \in 0..NWaiters
      /\ wsig' \in [Addrs -> BOOLEAN] /\ Counted'
  <2>1. waiters \in [Entries -> EntryRec] /\ Scan(waiters, waiting, alloc, TRUE)
    BY Zenon, Records DEF StopWake
  <2>2. waiting = TableCount(waiters) /\ TRUE \in BOOLEAN
    BY Zenon DEF Counted, Registered, TableCount
  <2> QED
    BY Zenon, <2>1, <2>2, ScanEffect
<1>4. TypeOK'
  BY Zenon, <1>1, <1>2, <1>3 DEF TypeOK, Places, EntryRec
<1>5. Acts(a)
  BY Zenon, <1>1, <1>2 DEF Acts, TypeOK
<1>6. Cached(a)' = Cached(a) /\ \A c : Held(c)' <=> Held(c)
  BY Zenon, <1>1, <1>2 DEF Held, Cached
<1>7. TaskT(a)'
  <2>1. LockT(a)' /\ QueueT(a)' /\ AdoptT(a)'
    BY Zenon, <1>1, <1>2 DEF TaskT, LockT, QueueT, AdoptT, Adopted, Queueing, Unadopted
  <2>2. PlaceT(a)'
    BY Zenon, <1>1, <1>2, AdoptPoolAssumption
    DEF TaskT, PlaceT, Unadopted, Queueing, Adopted, NoLoc
  <2>3. HandleT(a)'
    BY Zenon, <1>1, <1>6, HandleKept DEF TaskT
  <2>4. BitT(a)'
    BY Zenon, <1>1, <1>2, <1>6, BitKept DEF TaskT, Running, Waiting, Queueing, Adopted
  <2> QED
    BY Zenon, <2>1, <2>2, <2>3, <2>4 DEF TaskT
<1>8. PoolInv'
  <2>1. Reserved'
    BY Zenon, <1>1, <1>2, ReservedFrame
  <2>2. GenInv' /\ HolderInv'
    BY Zenon, <1>1, GenFrame, HolderFrame DEF PoolInv
  <2>3. OwnInv'
    BY Zenon, <1>1 DEF OwnInv
  <2> QED
    BY Zenon, <1>3, <2>1, <2>2, <2>3 DEF PoolInv
<1>9. WakeInv' /\ \A x \in Addrs \ {a} : Spared(x) /\ StillQueued(x)
  BY Zenon, <1>1, <1>2 DEF WakeInv, WakeT, Available, Spared, StillQueued
<1> QED
  BY Zenon, <1>4, <1>5, <1>7, <1>8, <1>9, StepKeeps

(* A Task takes up a good handle of its own: by resume, or by release.     *)
LEMMA TakeUp ==
  ASSUME IInv, NEW a \in Addrs, alive[a],
         NEW c \in Cached(a), Held(c),
         NEW l \in LocRec, l.rec = c, l.slot = nc[c].thread,
         l.run = slot[nc[c].thread].run, l.res => lock = a,
         \/ pc[a] = "resume" /\ loc[a].rec = c /\ Goto(a, "parked")
         \/ pc[a] = "out" /\ Goto(a, "relparked"),
         slot' = [slot EXCEPT ![nc[c].thread].state = "ready",
                              ![nc[c].thread].tstamp = stamp[a]],
         loc' = [loc EXCEPT ![a] = l],
         UNCHANGED <<up, next, waiters, waiting, wsig, holder, nc, sbTask, owned,
                     refs, lock, alloc, alive, stamp, app, upsets>>
  PROVE  IInv'
<1> DEFINE i == nc[c].thread
<1> TypeOK /\ TaskT(a) /\ PoolInv /\ OwnInv /\ Reserved /\ GenInv /\ HolderInv
  BY Zenon DEF IInv, TaskInv, TaskT, PoolInv
<1>1. /\ slot \in [Slots -> SlotRec] /\ nc \in [Callers -> NcRec]
      /\ loc \in [Addrs -> LocRec] /\ pc \in [Addrs -> Places]
      /\ stamp \in [Addrs -> Stamps]
  BY Zenon, Records DEF TypeOK
<1>2. /\ c \in Callers /\ c \in Bases /\ Mine(a, c) /\ i \in Slots /\ nc[c].live
      /\ slot[i].busy /\ slot[i].gen = nc[c].gen /\ i # None
      /\ slot[i].pub /\ slot[i].task = a /\ slot[i].state = "dormant"
      /\ slot[i].run = nc[c].sig
  <2>1. c \in Callers /\ c \in Bases /\ Mine(a, c) /\ nc[c].live
    BY Zenon, CachedCallers DEF Cached
  <2>2. i \in Slots /\ slot[i].busy /\ slot[i].gen = nc[c].gen /\ i # None
    BY Zenon, <1>1, <2>1 DEF Held, NcRec, OrNone
  <2>3. slot[i].pub /\ slot[i].task = a /\ slot[i].state = "dormant" /\ slot[i].run = nc[c].sig
    BY Zenon DEF TaskT, HandleT
  <2> QED
    BY Zenon, <2>1, <2>2, <2>3
<1> HIDE DEF i
<1>3. PICK q \in {"parked", "relparked"} :
        /\ pc' = [pc EXCEPT ![a] = q]
        /\ (pc[a] = "resume" /\ loc[a].rec = c) \/ (pc[a] = "out" /\ q = "relparked")
  BY Zenon DEF Goto
<1>4. /\ \A j \in Slots \ {i} : slot'[j] = slot[j]
      /\ slot'[i].state = "ready" /\ slot'[i].tstamp = stamp[a]
      /\ slot'[i].busy /\ slot'[i].gen = slot[i].gen
      /\ slot'[i].pub /\ slot'[i].task = slot[i].task
      /\ slot'[i].run = slot[i].run
      /\ slot' \in [Slots -> SlotRec]
  <2>1. PICK r : r = [[slot[i] EXCEPT !.state = "ready"] EXCEPT !.tstamp = stamp[a]]
    BY Zenon
  <2>2. slot' = [slot EXCEPT ![i] = r]
    BY Zenon, <1>1, <1>2, <2>1 DEF i
  <2>3. slot[i] \in SlotRec /\ stamp[a] \in OrNone(Stamps)
    BY Zenon, <1>1, <1>2 DEF OrNone
  <2>4. r \in SlotRec /\ r.state = "ready" /\ r.tstamp = stamp[a]
        /\ r.busy /\ r.gen = slot[i].gen /\ r.pub
        /\ r.task = slot[i].task /\ r.run = slot[i].run
    BY Zenon, <1>2, <2>1, <2>3 DEF SlotRec
  <2>5. slot'[i] = r /\ (\A j \in Slots \ {i} : slot'[j] = slot[j])
        /\ slot' \in [Slots -> SlotRec]
    BY <1>1, <1>2, <2>2, <2>4
  <2> QED
    BY Zenon, <2>4, <2>5
<1>5. /\ pc'[a] = q /\ loc'[a] = l /\ pc' \in [Addrs -> Places] /\ loc' \in [Addrs -> LocRec]
      /\ \A x \in Addrs \ {a} : pc'[x] = pc[x] /\ loc'[x] = loc[x]
  BY Zenon, <1>1, <1>3 DEF Places, Adopted
<1>6. TypeOK'
  BY Zenon, <1>4, <1>5 DEF TypeOK, SlotRec, LocRec
<1>7. Acts(a)
  BY Zenon, <1>5 DEF Acts, TypeOK
<1>8. \A d \in Callers : Held(d)' <=> Held(d)
  <2>1. ASSUME NEW d \in Callers, nc[d].thread \in Slots PROVE Held(d)' <=> Held(d)
    <3>1. CASE nc[d].thread = i
      <4>1. Held(d) <=> nc[d].gen # 0 /\ slot[i].gen = nc[d].gen
        BY Zenon, <1>2, <3>1 DEF Held
      <4>2. nc'[d] = nc[d]
        BY Zenon
      <4>3. Held(d)' <=> nc[d].gen # 0 /\ slot'[i].gen = nc[d].gen
        BY ZenonT(30), <1>2, <1>4, <3>1, <4>2 DEF Held
      <4> QED
        BY Zenon, <1>4, <4>1, <4>3
    <3>2. CASE nc[d].thread # i
      BY ZenonT(40), <1>4, <2>1, <3>2 DEF Held
    <3> QED
      BY Zenon, <3>1, <3>2
  <2> QED
    BY Zenon, <1>1, <2>1 DEF Held, NcRec, OrNone
<1>9. Cached(a)' = Cached(a) \ {c}
  <2>1. \A b \in owned : b \in Cached(a)' <=> b \in Cached(a) /\ b # c
    <3>1. loc[a].rec = c \/ (loc[a].rec = None /\ pc[a] = "out")
      BY <1>3 DEF TaskT, PlaceT, Unadopted, NoLoc
    <3>2. \A b \in owned : b # None
      BY Zenon, AdoptPoolAssumption DEF TypeOK
    <3> QED
      BY ZenonT(40), <1>3, <1>5, <3>1, <3>2 DEF Cached
  <2> QED
    BY Zenon, <2>1 DEF Cached
<1>10. TaskT(a)'
  <2>1. LockT(a)' /\ QueueT(a)'
    BY Zenon, <1>2, <1>3, <1>5, AdoptPoolAssumption
    DEF TaskT, LockT, QueueT, Adopted, Queueing, Unadopted
  <2>2. PlaceT(a)'
    BY Zenon, <1>2, <1>5, <1>3, AdoptPoolAssumption
    DEF TaskT, PlaceT, Unadopted, Queueing, Adopted, Mine, i
  <2>3. AdoptT(a)'
    <3>1. Held(c)'
      BY Zenon, <1>2, <1>8
    <3>2. loc'[a].slot = i /\ loc'[a].rec = c /\ loc'[a].run = slot[i].run /\ pc'[a] = q
          /\ nc'[c].thread = i /\ stamp'[a] = stamp[a]
      BY Zenon, <1>5 DEF i
    <3> QED
      BY ZenonT(40), <1>2, <1>3, <1>4, <3>1, <3>2 DEF AdoptT
  <2>4. HandleT(a)'
    <3>1. \A b \in Cached(a)' : Held(b)' =>
           /\ b \in Cached(a) /\ Held(b) /\ slot'[nc[b].thread] = slot[nc[b].thread]
      <4>1. SUFFICES ASSUME NEW b \in Cached(a), b # c, Held(b)'
                     PROVE  Held(b) /\ slot'[nc[b].thread] = slot[nc[b].thread]
        BY Zenon, <1>9
      <4>2. b \in Callers /\ Held(b)
        BY Zenon, <1>8, <4>1, CachedCallers
      <4>3. nc[b].thread \in Slots /\ nc[b].thread # i
        BY ZenonT(40), <1>1, <1>2, <4>1, <4>2, HeldDistinct DEF Held, NcRec, OrNone, i
      <4> QED
        BY Zenon, <1>4, <4>2, <4>3
    <3> QED
      BY Zenon, <3>1, HandleKept DEF TaskT
  <2>5. BitT(a)'
    <3>1. BitT(a) /\ c \in Cached(a) /\ l.run = nc[c].sig
      BY Zenon, <1>2 DEF TaskT, i
    <3>2. pc[a] \notin Running /\ pc[a] \notin Waiting /\ q \in Running /\ q \notin Waiting
      BY Zenon, <1>3 DEF Running, Waiting, Queueing, Adopted
    <3>3. \A s \in Bits :
            s \in alloc[a] <=> s \in app[a] \/ (\E b \in Cached(a)' : s = nc[b].sig) \/ s = l.run
      BY ZenonT(40), <1>9, <3>1, <3>2 DEF BitT
    <3>4. /\ \A b \in Cached(a)' : nc[b].sig \in Bits \ app[a] /\ nc[b].sig # l.run
          /\ \A b, d \in Cached(a)' : b # d => nc[b].sig # nc[d].sig
          /\ l.run \in Bits \ app[a]
      BY <1>9, <3>1 DEF BitT
    <3> QED
      BY Zenon, <1>5, <3>2, <3>3, <3>4 DEF BitT, Bits, Running, Waiting
  <2> QED
    BY Zenon, <2>1, <2>2, <2>3, <2>4, <2>5 DEF TaskT
<1>11. PoolInv'
  <2>1. Reserved'
    <3>1. \A x \in Addrs : pc[x] \in {"create", "parked", "in"} => x # a
      BY Zenon, <1>3
    <3>2. \A j \in Slots : slot'[j].busy => slot[j].busy
      BY Zenon, <1>2, <1>4
    <3> QED
      BY Zenon, <1>5, <3>1, <3>2, ReservedFrame
  <2>2. GenInv'
    <3>1. \A j \in Slots : slot'[j].busy =>
            slot[j].busy /\ slot'[j].gen = slot[j].gen /\ (slot[j].pub => slot'[j].pub)
      BY Zenon, <1>2, <1>4
    <3> QED
      BY Zenon, <3>1, GenFrame
  <2>3. HolderInv'
    BY ZenonT(40), <1>2, <1>4 DEF HolderInv, TypeOK, OrNone
  <2>4. OwnInv' /\ Counted'
    BY Zenon DEF OwnInv, PoolInv, Counted, Registered, Entries
  <2> QED
    BY Zenon, <2>1, <2>2, <2>3, <2>4 DEF PoolInv
<1>12. NoneFreed
  BY Zenon, <1>2, <1>4 DEF NoneFreed, Evictable
<1>13. WakeInv'
  <2>1. WakeT(a)'
    BY Zenon, <1>5 DEF WakeT
  <2> QED
    BY Zenon, <1>6, <1>7, <1>12, <2>1, OthersSleep DEF WakeInv
<1>14. ASSUME NEW x \in Addrs \ {a} PROVE Spared(x) /\ StillQueued(x)
  <2>1. TaskT(x)
    BY Zenon DEF IInv, TaskInv, TaskT
  <2>2. Spared(x)
    BY Zenon, <1>2, <1>4, <1>7, <2>1, OwnSpares
  <2> QED
    BY Zenon, <2>2 DEF StillQueued
<1> QED
  BY Zenon, <1>6, <1>7, <1>10, <1>11, <1>13, <1>14, StepKeeps

(* Giving up a handle at rest frees its signal, and no other.              *)
LEMMA BitDropped ==
  ASSUME TypeOK, NEW a \in Addrs, NEW c, BitT(a), alive[a],
         Cached(a)' = Cached(a) \ {c},
         \A b \in Cached(a)' : nc'[b].sig = nc[b].sig,
         alloc'[a] = IF c \in Cached(a) THEN FreeEvicted(a, c) ELSE alloc[a],
         app'[a] = app[a],
         pc[a] \notin Running \cup Waiting, pc'[a] \notin Running \cup Waiting
  PROVE  BitT(a)'
<1>1. \A s \in Bits :
        s \in alloc'[a] <=> s \in app[a] \/ \E b \in Cached(a)' : s = nc[b].sig
  <2>1. CASE c \in Cached(a)
    BY <2>1 DEF BitT, FreeEvicted
  <2>2. CASE c \notin Cached(a)
    BY Zenon, <2>2 DEF BitT
  <2> QED
    BY Zenon, <2>1, <2>2
<1>2. /\ \A b \in Cached(a)' : nc[b].sig \in Bits \ app[a]
      /\ \A b, d \in Cached(a)' : b # d => nc[b].sig # nc[d].sig
  BY Zenon DEF BitT
<1> QED
  BY <1>1, <1>2 DEF BitT, Bits, Running, Waiting

(* tx_amiga_adopt_resume(), the handle good or stale.                      *)
LEMMA ResumeStep ==
  ASSUME IInv, NEW a \in Addrs, Resume(a)
  PROVE  IInv'
<1> DEFINE c == loc[a].rec
           i == nc[c].thread
<1> TypeOK /\ TaskT(a) /\ PoolInv /\ OwnInv /\ Reserved
  BY Zenon DEF IInv, TaskInv, TaskT, PoolInv
<1>1. UNCHANGED <<up, next, waiters, waiting, wsig, holder, sbTask, owned, refs, lock,
                  alive, stamp, app, upsets>>
  BY Zenon DEF Resume, NoScan, baseVars, taskVars
<1>2. /\ alive[a] /\ pc[a] = "resume" /\ c \in Bases /\ c \in Callers /\ nc[c].live
      /\ c \in Cached(a) /\ Mine(a, c) /\ lock # a /\ c \in refs /\ c \in owned
  <2>1. alive[a] /\ pc[a] = "resume" /\ c \in Bases /\ nc[c].live /\ Mine(a, c)
    BY Zenon DEF Resume, TaskT, PlaceT, Unadopted
  <2>2. c # a /\ c \in owned /\ sbTask[c] = a
    BY Zenon, <2>1, AdoptPoolAssumption DEF Mine
  <2>3. lock # a
    BY Zenon, <2>1, <2>2 DEF TaskT, LockT, Unadopted
  <2> QED
    BY Zenon, <2>1, <2>2, <2>3 DEF Cached, Callers, OwnInv
<1>3. /\ slot \in [Slots -> SlotRec] /\ nc \in [Callers -> NcRec]
      /\ loc \in [Addrs -> LocRec] /\ pc \in [Addrs -> Places]
      /\ alloc \in [Addrs -> SUBSET Bits]
  BY Zenon, Records DEF TypeOK
<1>4. CASE Held(c)
  <2>1. /\ slot' = [slot EXCEPT ![i].state = "ready", ![i].tstamp = stamp[a]]
        /\ loc' = [loc EXCEPT ![a].slot = i, ![a].run = slot[i].run]
        /\ Goto(a, "parked") /\ UNCHANGED <<nc, alloc>>
    BY Zenon, <1>4 DEF Resume
  <2>2. PICK l : l = [[loc[a] EXCEPT !.slot = i] EXCEPT !.run = slot[i].run]
    BY Zenon
  <2>3. loc' = [loc EXCEPT ![a] = l]
    BY Zenon, <1>3, <2>1, <2>2
  <2>4. i \in Slots /\ slot[i].run \in OrNone(Bits) /\ loc[a] \in LocRec
        /\ i \in OrNone(Slots)
    <3>1. i \in Slots
      BY Zenon, <1>2, <1>3, <1>4 DEF Held, NcRec, OrNone
    <3> QED
      BY Zenon, <1>3, <3>1 DEF SlotRec, OrNone
  <2>5. /\ l \in LocRec /\ l.rec = c /\ l.slot = i /\ l.run = slot[i].run
        /\ l.res => lock = a
    <3>1. loc[a].res => lock = a
      BY Zenon DEF TaskT, LockT
    <3>2. l \in LocRec /\ l.rec = c /\ l.slot = i /\ l.run = slot[i].run /\ l.res = loc[a].res
      BY Zenon, <2>2, <2>4 DEF LocRec
    <3> QED
      BY Zenon, <3>1, <3>2
  <2> QED
    BY ZenonT(60), <1>1, <1>2, <1>4, <2>1, <2>3, <2>5, TakeUp
<1>5. CASE ~Held(c)
  <2> DEFINE r == [NoCaller EXCEPT !.live = TRUE]
  <2>1. /\ alloc' = [alloc EXCEPT ![a] = FreeEvicted(a, c)]
        /\ nc' = [nc EXCEPT ![c] = r]
        /\ pc' = [pc EXCEPT ![a] = "claim"] /\ UNCHANGED <<slot, loc>>
    BY Zenon, <1>5 DEF Resume, Goto
  <2>2. r \in NcRec /\ r.live /\ r.gen = 0
    BY Zenon DEF NoCaller, NcRec, OrNone
  <2> HIDE DEF r
  <2>3. /\ pc'[a] = "claim" /\ nc'[c] = r /\ \A d \in Callers \ {c} : nc'[d] = nc[d]
        /\ alloc'[a] = FreeEvicted(a, c)
        /\ \A x \in Addrs \ {a} : pc'[x] = pc[x] /\ alloc'[x] = alloc[x]
    BY Zenon, <1>2, <1>3, <2>1
  <2>4. TypeOK'
    <3>1. /\ pc' \in [Addrs -> Places] /\ nc' \in [Callers -> NcRec]
          /\ alloc' \in [Addrs -> SUBSET Bits]
      BY Zenon, <1>2, <1>3, <2>1, <2>2 DEF Places, FreeEvicted
    <3> QED
      BY Zenon, <1>1, <2>1, <3>1 DEF TypeOK, NcRec
  <2>5. Acts(a)
    BY Zenon, <1>1, <1>2, <2>1, <2>3 DEF Acts, TypeOK
  <2>6. Cached(a)' = Cached(a) \ {c} /\ \A b \in Cached(a) \ {c} : nc'[b] = nc[b]
    <3>1. \A b \in Cached(a) \ {c} : nc'[b] = nc[b]
      BY Zenon, <2>3, CachedCallers
    <3>2. \A b \in owned : b \in Callers
      BY Zenon DEF TypeOK, Callers
    <3>3. \A b \in owned : b \in Cached(a)' <=> b \in Cached(a) /\ b # c
      BY Zenon, <1>1, <1>2, <2>1, <2>3, <3>2 DEF Cached
    <3> QED
      BY ZenonT(40), <1>1, <3>1, <3>3 DEF Cached
  <2>7. TaskT(a)'
    <3>1. LockT(a)' /\ QueueT(a)' /\ AdoptT(a)'
      BY Zenon, <1>1, <1>2, <2>1, <2>3 DEF TaskT, LockT, QueueT, AdoptT, Adopted, Queueing
    <3>2. PlaceT(a)'
      BY Zenon, <1>1, <1>2, <2>1, <2>2, <2>3
      DEF TaskT, PlaceT, Unadopted, Queueing, Adopted, Mine
    <3>3. HandleT(a)'
      BY Zenon, <1>1, <2>1, <2>6, HandleKept DEF TaskT, Held
    <3>4. BitT(a)'
      <4>1. pc[a] \notin Running \cup Waiting /\ pc'[a] \notin Running \cup Waiting
        BY Zenon, <1>2, <2>3 DEF Running, Waiting, Queueing, Adopted
      <4> QED
        BY Zenon, <1>1, <1>2, <2>3, <2>6, <4>1, BitDropped DEF TaskT
    <3> QED
      BY Zenon, <3>1, <3>2, <3>3, <3>4 DEF TaskT
  <2>8. OwnInv'
    BY Zenon, <1>1, <1>2, <2>3, AdoptPoolAssumption DEF OwnInv, Callers
  <2>9. Reserved'
    BY Zenon, <1>1, <1>2, <2>1, <2>3, ReservedFrame
  <2>10. WakeT(a)' /\ \A d \in Callers : nc'[d].gen = nc[d].gen \/ nc'[d].gen = 0
    BY Zenon, <2>2, <2>3 DEF WakeT
  <2> QED
    BY Zenon, <1>1, <2>1, <2>4, <2>5, <2>7, <2>8, <2>9, <2>10, QuietStep
<1> QED
  BY Zenon, <1>4, <1>5

(* ami_netstack_release() up to the baton.                                 *)
LEMMA ReleaseStep ==
  ASSUME IInv, NEW a \in Addrs, NEW c \in Bases, Release(a, c)
  PROVE  IInv'
<1> DEFINE i == nc[c].thread
<1> TypeOK /\ TaskT(a) /\ PoolInv /\ OwnInv /\ Reserved
  BY Zenon DEF IInv, TaskInv, TaskT, PoolInv
<1>1. UNCHANGED <<up, next, waiters, waiting, wsig, holder, lock, alive, stamp, app, upsets>>
  BY Zenon DEF Release, NoScan, taskVars
<1>2. /\ alive[a] /\ pc[a] = "out" /\ loc[a] = NoLoc /\ c \in Callers
      /\ c \in owned /\ sbTask[c] = a /\ Mine(a, c)
      /\ c \in Cached(a) <=> nc[c].live
  <2>1. alive[a] /\ pc[a] = "out" /\ loc[a] = NoLoc /\ c \in owned /\ sbTask[c] = a
    BY Zenon DEF Release, TaskT, PlaceT, Unadopted
  <2>2. c # NoLoc.rec
    BY Zenon, AdoptPoolAssumption DEF NoLoc
  <2> QED
    BY Zenon, <2>1, <2>2 DEF Cached, Callers, Mine
<1>3. /\ slot \in [Slots -> SlotRec] /\ nc \in [Callers -> NcRec] /\ NoCaller \in NcRec
      /\ loc \in [Addrs -> LocRec] /\ pc \in [Addrs -> Places]
      /\ alloc \in [Addrs -> SUBSET Bits]
  BY Zenon, Records DEF TypeOK
<1>4. CASE nc[c].live /\ Held(c)
  <2> DEFINE l == [NoLoc EXCEPT !.rec = c, !.slot = i, !.run = slot[i].run]
  <2>1. /\ slot' = [slot EXCEPT ![i].state = "ready", ![i].tstamp = stamp[a]]
        /\ loc' = [loc EXCEPT ![a] = l]
        /\ Goto(a, "relparked") /\ UNCHANGED <<sbTask, owned, refs, nc, alloc>>
    BY Zenon, <1>4 DEF Release, baseVars
  <2>2. PICK m : m = l
    BY Zenon
  <2>3. i \in OrNone(Slots) /\ slot[i].run \in OrNone(Bits)
    BY Zenon, <1>2, <1>3, <1>4 DEF Held, NcRec, OrNone, SlotRec
  <2>4. /\ m \in LocRec /\ m.rec = c /\ m.slot = i /\ m.run = slot[i].run
        /\ ~m.res
    <3>1. m = [rec |-> c, res |-> FALSE, slot |-> i, run |-> slot[i].run,
               wbit |-> None, idx |-> None]
      BY Zenon, <2>2 DEF NoLoc
    <3> HIDE DEF l, i
    <3> QED
      BY Zenon, <1>2, <2>3, <3>1 DEF LocRec, OrNone
  <2>5. loc' = [loc EXCEPT ![a] = m]
    BY Zenon, <2>1, <2>2
  <2> HIDE DEF l
  <2> QED
    BY ZenonT(30), <1>1, <1>2, <1>4, <2>1, <2>4, <2>5, TakeUp
<1>5. CASE ~(nc[c].live /\ Held(c))
  <2>1. /\ sbTask' = [sbTask EXCEPT ![c] = None] /\ owned' = owned \ {c}
        /\ refs' = refs \ {c} /\ nc' = [nc EXCEPT ![c] = NoCaller]
        /\ alloc' = IF nc[c].live THEN [alloc EXCEPT ![a] = FreeEvicted(a, c)] ELSE alloc
        /\ UNCHANGED <<slot, loc, pc>>
    BY Zenon, <1>5 DEF Release, CloseBase
  <2>2. ~NoCaller.live /\ NoCaller.gen = 0
    BY Zenon DEF NoCaller
  <2>3. /\ nc'[c] = NoCaller /\ \A d \in Callers \ {c} : nc'[d] = nc[d]
        /\ alloc'[a] = IF c \in Cached(a) THEN FreeEvicted(a, c) ELSE alloc[a]
        /\ \A x \in Addrs \ {a} : alloc'[x] = alloc[x]
        /\ \A b \in Bases \ {c} : sbTask'[b] = sbTask[b]
    BY Zenon, <1>2, <1>3, <2>1 DEF TypeOK
  <2>4. TypeOK'
    <3>1. /\ nc' \in [Callers -> NcRec] /\ alloc' \in [Addrs -> SUBSET Bits]
          /\ sbTask' \in [Bases -> OrNone(Addrs)] /\ owned' \subseteq Bases
          /\ refs' \subseteq Bases
      BY Zenon, <1>2, <1>3, <2>1 DEF FreeEvicted, OrNone, TypeOK
    <3> QED
      BY Zenon, <1>1, <2>1, <3>1 DEF TypeOK, NcRec
  <2>5. Acts(a)
    BY ZenonT(40), <1>1, <1>2, <2>1, <2>3 DEF Acts, TypeOK
  <2>6. Cached(a)' = Cached(a) \ {c} /\ \A b \in Cached(a) \ {c} : nc'[b] = nc[b]
    <3>1. \A b \in Cached(a) \ {c} : nc'[b] = nc[b]
      BY Zenon, <2>3, CachedCallers
    <3>2. \A b \in owned : b \in Callers /\ b \in Bases
      BY Zenon DEF TypeOK, Callers
    <3>3. \A b \in owned : b \in Cached(a)' <=> b \in Cached(a) /\ b # c
      BY Zenon, <1>1, <1>2, <2>1, <2>2, <2>3, <3>2 DEF Cached
    <3>4. Cached(a)' \subseteq owned /\ Cached(a) \subseteq owned
      BY Zenon, <2>1 DEF Cached
    <3> QED
      BY Zenon, <3>1, <3>3, <3>4
  <2>7. TaskT(a)'
    <3>1. LockT(a)' /\ QueueT(a)' /\ AdoptT(a)'
      BY Zenon, <1>1, <1>2, <2>1 DEF TaskT, LockT, QueueT, AdoptT, Adopted, Queueing
    <3>2. PlaceT(a)'
      <4>1. pc'[a] = "out" /\ alive'[a] /\ loc'[a] = NoLoc /\ NoLoc.rec \notin Bases
        BY Zenon, <1>1, <1>2, <2>1, AdoptPoolAssumption DEF NoLoc
      <4> QED
        BY Zenon, <4>1 DEF PlaceT, Unadopted, Queueing, Adopted
    <3>3. HandleT(a)'
      BY Zenon, <1>1, <2>1, <2>6, HandleKept DEF TaskT, Held
    <3>4. BitT(a)'
      <4>1. pc[a] \notin Running \cup Waiting /\ pc'[a] \notin Running \cup Waiting
        BY Zenon, <1>2, <2>1 DEF Running, Waiting, Queueing, Adopted
      <4> QED
        BY ZenonT(40), <1>1, <1>2, <2>3, <2>6, <4>1, BitDropped DEF TaskT
    <3> QED
      BY Zenon, <3>1, <3>2, <3>3, <3>4 DEF TaskT
  <2>8. OwnInv'
    BY <1>1, <1>2, <2>1, <2>3, AdoptPoolAssumption DEF OwnInv, Callers, TypeOK
  <2>9. Reserved' /\ WakeT(a)'
    BY Zenon, <1>1, <1>2, <2>1 DEF Reserved, WakeT
  <2>10. \A d \in Callers : nc'[d].gen = nc[d].gen \/ nc'[d].gen = 0
    BY Zenon, <2>2, <2>3
  <2> QED
    BY Zenon, <1>1, <2>1, <2>4, <2>5, <2>7, <2>8, <2>9, <2>10, QuietStep
<1> QED
  BY Zenon, <1>4, <1>5

----------------------------------------------------------------------------
(* Claims.                                                                 *)

(* A claimed slot is busy, unpublished and the claimer's, with a new       *)
(* generation.                                                             *)
LEMMA ClaimedIs ==
  ASSUME Counting, TypeOK, NEW a \in Addrs
  PROVE  LET r == ClaimedBy(a) IN
         /\ r \in SlotRec /\ r.busy /\ ~r.pub /\ r.claimer = a /\ r.cstamp = stamp[a]
         /\ r.gen = NewGeneration
<1>1. ClaimedBy(a) \in SlotRec
  <2>1. NewGeneration \in Nat /\ stamp[a] \in Stamps
    BY Zenon DEF Counting, FreshGeneration, TypeOK
  <2>2. PICK r : r = ClaimedBy(a)
    BY Zenon
  <2>3. r = [busy |-> TRUE, gen |-> NewGeneration, pub |-> FALSE, claimer |-> a,
             cstamp |-> stamp[a], task |-> None, run |-> None, tstamp |-> None,
             state |-> "none", cached |-> FALSE]
    BY Zenon, <2>2 DEF ClaimedBy, FreeSlot
  <2> QED
    BY <2>1, <2>2, <2>3 DEF SlotRec, OrNone
<1> QED
  BY Zenon, <1>1 DEF ClaimedBy, FreeSlot

(* The generations after a claim.                                          *)
LEMMA GenClaimed ==
  ASSUME GenInv, NEW i \in Slots, \A j \in Slots \ {i} : slot'[j] = slot[j],
         NEW g, g # 0, slot'[i].gen = g, slot'[i].busy, ~slot'[i].pub,
         \A j \in Slots : slot[j].gen # g, \A c \in Callers : nc[c].gen # g,
         nc' = nc
  PROVE  GenInv'
<1>1. \A j \in Slots : slot'[j].busy => slot'[j].gen # 0
  BY Zenon DEF GenInv
<1>2. \A j \in Slots : slot'[j].busy /\ ~slot'[j].pub =>
        \A c \in Callers : nc[c].gen # slot'[j].gen
  BY DEF GenInv
<1>3. \A j, k \in Slots : j # k /\ slot'[j].busy /\ slot'[k].busy
                            => slot'[j].gen # slot'[k].gen
  BY DEF GenInv
<1> QED
  BY Zenon, <1>1, <1>2, <1>3 DEF GenInv, Slots, Callers

(* A look at the pool, whether it claims a slot or not.                    *)
LEMMA ClaimStepped ==
  ASSUME Counting, IInv, NEW a \in Addrs, alive[a], pc[a] \in {"claim", "register", "look"},
         NEW i \in OrNone(Slots),
         NEW w \in [Entries -> EntryRec],
         NEW n, n = TableCount(w), n \in 0..NWaiters,
         ClaimEvict(a, loc[a].res, w, n, i),
         \A x \in Addrs \ {a} : alive[x] /\ up /\ pc[x] \in Queueing
                                 => w[loc[x].idx] = waiters[loc[x].idx],
         NEW q, Goto(a, q),
         i # None => q = IF pc[a] = "claim" THEN "create" ELSE "unreg",
         i = None => q = IF pc[a] = "claim" THEN "register" ELSE "test",
         loc' \in [Addrs -> LocRec], \A x \in Addrs \ {a} : loc'[x] = loc[x],
         loc'[a].slot = i, loc'[a].rec = loc[a].rec, loc'[a].res = loc[a].res,
         alloc' \in [Addrs -> SUBSET Bits], \A x \in Addrs \ {a} : alloc'[x] = alloc[x],
         UNCHANGED <<up, holder, nc, sbTask, owned, refs, lock, alive, stamp, app, upsets>>,
         LockT(a)', PlaceT(a)', BitT(a)',
         i = None /\ waiters' = w => QueueT(a)'
  PROVE  IInv'
<1> DEFINE res == loc[a].res
<1> TypeOK /\ TaskT(a) /\ PoolInv /\ OwnInv /\ Reserved /\ GenInv /\ HolderInv
  BY Zenon DEF IInv, TaskInv, TaskT, PoolInv
<1>1. /\ slot \in [Slots -> SlotRec] /\ nc \in [Callers -> NcRec]
      /\ loc \in [Addrs -> LocRec] /\ pc \in [Addrs -> Places] /\ res \in BOOLEAN
  BY Zenon, Records DEF TypeOK, LocRec
<1>2. /\ next' \in Slots
      /\ \/ waiters' = w /\ waiting' = n /\ wsig' = wsig
         \/ Scan(w, n, alloc', FALSE)
      /\ i # None => /\ i \in Slots /\ i < Limit(res)
                     /\ ~slot[i].busy \/ Evictable(i)
                     /\ slot' = [slot EXCEPT ![i] = ClaimedBy(a)]
      /\ i = None => /\ slot' = slot /\ ~Available(Limit(res))
                     /\ waiters' = w /\ waiting' = n /\ wsig' = wsig
  <2>1. ClaimEvict(a, res, w, n, i)
    BY Zenon
  <2> HIDE DEF res
  <2>2. ClaimDone(a, res, w, n, i)
    BY Zenon, <1>1, <2>1, ClaimEffect
  <2> QED
    BY Zenon, <2>2 DEF ClaimDone
<1> HIDE DEF res
<1>3. /\ waiters' \in [Entries -> EntryRec] /\ waiting' \in 0..NWaiters
      /\ wsig' \in [Addrs -> BOOLEAN] /\ Counted'
  <2>1. CASE waiters' = w /\ waiting' = n /\ wsig' = wsig
    BY Zenon, <2>1 DEF TypeOK, Counted, Registered, Entries, TableCount
  <2>2. CASE Scan(w, n, alloc', FALSE)
    <3>1. FALSE \in BOOLEAN
      BY Zenon
    <3> QED
      BY Zenon, <2>2, <3>1, ScanEffect
  <2> QED
    BY Zenon, <1>2, <2>1, <2>2
<1>4. /\ pc'[a] = q /\ q \in {"create", "unreg", "register", "test"}
      /\ \A x \in Addrs \ {a} : pc'[x] = pc[x]
      /\ pc' \in [Addrs -> Places]
  <2>1. q \in {"create", "unreg", "register", "test"}
    BY Zenon
  <2> QED
    BY Zenon, <1>1, <2>1 DEF Goto, Places, Queueing
<1>5. LET r == ClaimedBy(a) IN
      /\ r \in SlotRec /\ r.busy /\ ~r.pub /\ r.claimer = a /\ r.cstamp = stamp[a]
      /\ r.gen = NewGeneration
  BY Zenon, ClaimedIs
<1>6. i # None => /\ slot'[i] \in SlotRec /\ slot'[i].busy /\ ~slot'[i].pub
                  /\ slot'[i].claimer = a /\ slot'[i].cstamp = stamp[a]
                  /\ slot'[i].gen = NewGeneration
                  /\ \A j \in Slots \ {i} : slot'[j] = slot[j]
  BY ZenonT(40), <1>1, <1>2, <1>5
<1>7. slot' \in [Slots -> SlotRec]
  BY Zenon, <1>1, <1>2, <1>5
<1>8. TypeOK'
  BY Zenon, <1>2, <1>3, <1>4, <1>7 DEF TypeOK, SlotRec, LocRec, EntryRec
<1>9. Acts(a)
  BY Zenon, <1>4 DEF Acts, TypeOK
<1>10. /\ NewGeneration \in Nat \ {0}
       /\ \A j \in Slots : slot[j].gen # NewGeneration
       /\ \A c \in Callers : nc[c].gen # NewGeneration
  BY Zenon DEF Counting, FreshGeneration
<1>11. Cached(a)' = Cached(a)
  BY Zenon, <1>4 DEF Cached
<1>12. TaskT(a)'
  <2>1. QueueT(a)'
    <3>1. CASE i = None
      BY Zenon, <1>2, <3>1
    <3>2. CASE i # None
      BY Zenon, <1>4, <3>2 DEF QueueT, Queueing
    <3> QED
      BY Zenon, <3>1, <3>2
  <2>2. AdoptT(a)'
    <3>1. q \notin Adopted /\ q # "in"
      BY Zenon, <1>4 DEF Adopted
    <3>2. stamp'[a] = stamp[a] /\ loc'[a].slot = i
      BY Zenon
    <3> QED
      BY Zenon, <1>4, <1>6, <3>1, <3>2 DEF AdoptT
  <2>3. HandleT(a)'
    <3>1. ASSUME NEW b \in Cached(a), Held(b)'
          PROVE  Held(b) /\ slot'[nc[b].thread] = slot[nc[b].thread]
      <4>1. b \in Callers /\ nc'[b] = nc[b]
        BY Zenon, CachedCallers
      <4>2. nc[b].thread \in Slots
        BY ZenonT(40), <1>1, <3>1, <4>1 DEF Held, NcRec, OrNone
      <4>3. slot'[nc[b].thread] = slot[nc[b].thread]
        <5>1. CASE i = None
          BY Zenon, <1>2, <5>1
        <5>2. CASE i # None
          <6>1. nc[b].thread # i
            BY SMTT(30), <1>6, <1>10, <3>1, <4>1, <5>2 DEF Held
          <6> QED
            BY Zenon, <1>6, <4>2, <5>2, <6>1
        <5> QED
          BY Zenon, <5>1, <5>2
      <4> QED
        BY Zenon, <3>1, <4>1, <4>3 DEF Held
    <3> QED
      BY Zenon, <1>11, <3>1, HandleKept DEF TaskT
  <2> QED
    BY Zenon, <2>1, <2>2, <2>3 DEF TaskT
<1>13. PoolInv'
  <2>1. Reserved'
    <3>1. ASSUME NEW j \in Slots, j >= NSlots - Reserve, slot'[j].busy
          PROVE  /\ lock \in Addrs /\ loc'[lock].slot = j
                 /\ pc'[lock] \in {"create", "parked", "in"}
      <4>1. CASE i # None /\ j = i
        <5>1. res
          <6>1. i < Limit(res) /\ i >= NSlots - Reserve
            BY Zenon, <1>2, <3>1, <4>1
          <6>2. NSlots - Reserve \in Int /\ i \in Int
            BY <1>2, <4>1, AdoptPoolAssumption DEF Slots
          <6>3. res \/ Limit(res) = NSlots - Reserve
            BY Zenon, <1>1, LimitRange
          <6> QED
            BY <6>1, <6>2, <6>3
        <5>2. lock = a
          BY Zenon, <5>1 DEF TaskT, LockT, res
        <5>3. pc[a] = "claim"
          BY Zenon, <5>2 DEF TaskT, LockT, Queueing
        <5> QED
          BY Zenon, <1>4, <4>1, <5>2, <5>3
      <4>2. CASE ~(i # None /\ j = i)
        <5>1. slot'[j] = slot[j]
          BY Zenon, <1>2, <1>6, <4>2
        <5>2. /\ lock \in Addrs /\ loc[lock].slot = j
              /\ pc[lock] \in {"create", "parked", "in"}
          BY Zenon, <3>1, <5>1 DEF Reserved
        <5> QED
          BY Zenon, <1>4, <5>2
      <4> QED
        BY Zenon, <4>1, <4>2
    <3> QED
      BY Zenon, <3>1 DEF Reserved, Slots
  <2>2. GenInv'
    <3>1. CASE i = None
      BY Zenon, <1>2, <3>1, GenFrame
    <3>2. CASE i # None
      <4>1. i \in Slots /\ \A j \in Slots \ {i} : slot'[j] = slot[j]
        BY Zenon, <1>2, <1>6, <3>2
      <4>2. slot'[i].busy /\ ~slot'[i].pub /\ slot'[i].gen = NewGeneration
        BY Zenon, <1>6, <3>2
      <4> QED
        BY ZenonT(30), <1>10, <4>1, <4>2, GenClaimed
    <3> QED
      BY Zenon, <3>1, <3>2
  <2>3. HolderInv'
    <3>1. holder # None => holder \in Slots
      BY Zenon DEF TypeOK, OrNone
    <3>2. holder # None /\ i # None => holder # i
      BY Zenon, <1>2 DEF HolderInv, Evictable
    <3> QED
      BY Zenon, <1>2, <1>6, <3>1, <3>2, HolderFrame
  <2>4. OwnInv'
    BY Zenon DEF OwnInv
  <2> QED
    BY Zenon, <1>3, <2>1, <2>2, <2>3, <2>4 DEF PoolInv
<1>14. NoneFreed
  BY ZenonT(60), <1>2, <1>6 DEF NoneFreed, Evictable
<1>15. WakeT(a)'
  <2>1. CASE i = None
    <3>1. ~Available(Limit(res)) /\ res \in BOOLEAN
      BY Zenon, <1>1, <1>2, <2>1
    <3>2. ~Available(Limit(res))'
      <4>1. \A r \in BOOLEAN : Available(Limit(r))' => Available(Limit(r))
        BY Zenon, <1>8, <1>14, NoMoreAvailable
      <4> QED
        BY Zenon, <3>1, <4>1 DEF res
    <3> QED
      BY Zenon, <3>2 DEF WakeT, res
  <2>2. CASE i # None
    BY Zenon, <1>4, <2>2 DEF WakeT
  <2> QED
    BY Zenon, <2>1, <2>2
<1>16. ASSUME NEW x \in Addrs \ {a} PROVE Spared(x) /\ StillQueued(x) /\ WakeT(x)'
  <2>1. TaskT(x)
    BY Zenon DEF IInv, TaskInv, TaskT
  <2>2. Spared(x)
    <3>1. CASE i = None
      BY Zenon, <1>2, <3>1 DEF Spared
    <3>2. CASE i # None
      BY ZenonT(40), <1>2, <1>9, <2>1, <3>2, ClaimSpares
    <3> QED
      BY Zenon, <3>1, <3>2
  <2>3. CASE waiters' = w /\ wsig' = wsig
    <3>1. StillQueued(x)
      BY Zenon, <1>9, <2>3 DEF StillQueued, Acts
    <3> QED
      BY Zenon, <1>8, <1>9, <1>14, <2>2, <2>3, <3>1, OthersSleep
  <2>4. CASE Scan(w, n, alloc', FALSE)
    <3>1. alloc'[x] = alloc[x]
      BY Zenon
    <3>2. alive[x] /\ up /\ pc[x] \in Queueing => w[loc[x].idx] = waiters[loc[x].idx]
      BY Zenon
    <3>3. StillQueued(x) /\ WakeT(x)'
      BY Zenon, <1>9, <2>4, <3>1, <3>2, OthersWoken
    <3> QED
      BY Zenon, <2>2, <3>3
  <2> QED
    BY Zenon, <1>2, <2>3, <2>4
<1>17. WakeInv'
  BY Zenon, <1>15, <1>16 DEF WakeInv
<1> QED
  BY Zenon, <1>8, <1>9, <1>12, <1>13, <1>16, <1>17, StepKeeps

(* A fresh signal bit, the run signal first and then the wait signal.      *)
LEMMA BitGot ==
  ASSUME NEW a, BitT(a), alive[a], NEW s \in Bits, s \notin alloc[a],
         alloc'[a] = alloc[a] \cup {s}, app'[a] = app[a],
         Cached(a)' = Cached(a), \A b \in Cached(a) : nc'[b].sig = nc[b].sig,
         \/ /\ pc[a] \notin Running \cup Waiting
            /\ pc'[a] \in Running /\ pc'[a] \notin Waiting /\ loc'[a].run = s
         \/ /\ pc[a] \in Running /\ pc[a] \notin Waiting
            /\ pc'[a] \in Running /\ pc'[a] \in Waiting
            /\ loc'[a].run = loc[a].run /\ loc'[a].wbit = s
  PROVE  BitT(a)'
<1>1. \A t \in Bits :
        t \in alloc'[a] <=> \/ t \in app'[a]
                            \/ \E b \in Cached(a)' : t = nc'[b].sig
                            \/ pc'[a] \in Running /\ t = loc'[a].run
                            \/ pc'[a] \in Waiting /\ t = loc'[a].wbit
  <2>1. \A t \in Bits : t \in alloc'[a] <=> t \in alloc[a] \/ t = s
    BY Zenon
  <2> QED
    BY <2>1 DEF BitT
<1>2. s \notin app[a] /\ (\A b \in Cached(a) : nc[b].sig # s)
      /\ (pc[a] \in Running => loc[a].run # s)
  BY Zenon DEF BitT
<1>3. /\ \A b \in Cached(a)' : nc'[b].sig \in Bits \ app'[a]
      /\ \A b, d \in Cached(a)' : b # d => nc'[b].sig # nc'[d].sig
      /\ pc'[a] \in Running => /\ loc'[a].run \in Bits \ app'[a]
                               /\ \A b \in Cached(a)' : nc'[b].sig # loc'[a].run
      /\ pc'[a] \in Waiting => /\ loc'[a].wbit \in Bits \ app'[a]
                               /\ loc'[a].wbit # loc'[a].run
                               /\ \A b \in Cached(a)' : nc'[b].sig # loc'[a].wbit
  BY <1>2 DEF BitT
<1> QED
  BY Zenon, <1>1, <1>3 DEF BitT, Bits, Running, Waiting

(* AllocSignal() returns a bit that is free.                               *)
LEMMA FreshBit ==
  ASSUME Counting, TypeOK, NEW a \in Addrs, FreeBits(a) # {}
  PROVE  Max(FreeBits(a)) \in Bits /\ Max(FreeBits(a)) \notin alloc[a]
<1>1. FreeBits(a) \in SUBSET (0..(NBits - 1)) /\ NBits \in Nat
  BY Zenon, AdoptPoolAssumption DEF FreeBits, Bits
<1>2. Max(FreeBits(a)) \in FreeBits(a)
  BY Zenon, <1>1, MaxIn
<1> QED
  BY Zenon, <1>2 DEF FreeBits

(* The reserve is free while the lock's holder looks for a slot.           *)
LEMMA LockHolderClaims ==
  ASSUME IInv, NEW a \in Addrs, lock = a, pc[a] = "claim", up
  PROVE  Available(Limit(loc[a].res))
<1> TypeOK /\ TaskT(a) /\ Reserved
  BY Zenon DEF IInv, TaskInv, TaskT, PoolInv
<1>1. loc[a].res
  BY Zenon DEF TaskT, LockT, Unadopted
<1>2. Limit(loc[a].res) = NSlots
  BY Zenon, <1>1 DEF Limit
<1>3. NSlots - 1 \in Slots /\ NSlots - 1 >= NSlots - Reserve /\ NSlots - 1 < NSlots
  BY AdoptPoolAssumption DEF Slots
<1>4. ~slot[NSlots - 1].busy
  BY Zenon, <1>3 DEF Reserved
<1>5. FreeBelow(NSlots) # {}
  BY Zenon, <1>3, <1>4 DEF FreeBelow
<1> QED
  BY Zenon, <1>2, <1>5 DEF Available

(* The first look at the pool.                                             *)
LEMMA ClaimStep ==
  ASSUME Counting, IInv, NEW a \in Addrs, Claim(a)
  PROVE  IInv'
<1> TypeOK /\ TaskT(a) /\ PoolInv
  BY Zenon DEF IInv, TaskInv, TaskT, PoolInv
<1>1. alive[a] /\ pc[a] = "claim"
  BY Zenon DEF Claim
<1>2. UNCHANGED <<up, holder, sbTask, owned, refs, lock, alive, stamp, app, upsets>>
  BY Zenon DEF Claim, baseVars, taskVars
<1>3. CASE ~up \/ FreeBits(a) = {}
  <2>1. Fail(a, {}) /\ NoScan /\ UNCHANGED <<slot, next>>
    BY Zenon, <1>3 DEF Claim
  <2> QED
    BY Zenon, <1>1, <1>2, <2>1, FailStep DEF baseVars, taskVars
<1>4. CASE up /\ FreeBits(a) # {}
  <2> DEFINE s == Max(FreeBits(a))
  <2>1. alloc' = [alloc EXCEPT ![a] = @ \cup {s}] /\ nc' = nc
    BY Zenon, <1>4 DEF Claim
  <2>2. PICK i \in OrNone(Slots) :
          /\ loc' = [loc EXCEPT ![a].run = s, ![a].slot = i]
          /\ ClaimEvict(a, loc[a].res, waiters, waiting, i)
          /\ Goto(a, IF i = None THEN "register" ELSE "create")
    BY Zenon, <1>4 DEF Claim
  <2>3. s \in Bits /\ s \notin alloc[a]
    BY Zenon, <1>4, FreshBit
  <2> HIDE DEF s
  <2>4. /\ loc \in [Addrs -> LocRec] /\ pc \in [Addrs -> Places]
        /\ alloc \in [Addrs -> SUBSET Bits] /\ waiters \in [Entries -> EntryRec]
        /\ waiting \in 0..NWaiters /\ waiting = TableCount(waiters)
    BY Zenon, Records DEF TypeOK, PoolInv, Counted, Registered, TableCount
  <2> DEFINE q == IF i = None THEN "register" ELSE "create"
  <2>5. PICK l : l = [[loc[a] EXCEPT !.run = s] EXCEPT !.slot = i]
    BY Zenon
  <2>6. loc' = [loc EXCEPT ![a] = l]
    BY Zenon, <2>2, <2>4, <2>5
  <2>7. l \in LocRec /\ l.run = s /\ l.slot = i /\ l.rec = loc[a].rec /\ l.res = loc[a].res
    <3>1. loc[a] \in LocRec /\ s \in OrNone(Bits)
      BY Zenon, <2>3, <2>4 DEF OrNone
    <3> QED
      BY Zenon, <2>5, <3>1 DEF LocRec
  <2>8. /\ loc'[a] = l /\ loc' \in [Addrs -> LocRec]
        /\ \A x \in Addrs \ {a} : loc'[x] = loc[x]
        /\ alloc' \in [Addrs -> SUBSET Bits] /\ alloc'[a] = alloc[a] \cup {s}
        /\ \A x \in Addrs \ {a} : alloc'[x] = alloc[x]
        /\ pc'[a] = q
    <3>1. pc'[a] = q
      BY Zenon, <2>2, <2>4 DEF Goto
    <3>2. /\ loc'[a] = l /\ loc' \in [Addrs -> LocRec]
          /\ \A x \in Addrs \ {a} : loc'[x] = loc[x]
      BY Zenon, <2>4, <2>6, <2>7
    <3>3. /\ alloc' \in [Addrs -> SUBSET Bits] /\ alloc'[a] = alloc[a] \cup {s}
          /\ \A x \in Addrs \ {a} : alloc'[x] = alloc[x]
      BY Zenon, <2>1, <2>3, <2>4
    <3> QED
      BY Zenon, <3>1, <3>2, <3>3
  <2>9. Cached(a)' = Cached(a)
    BY ZenonT(40), <1>1, <1>2, <2>1, <2>7, <2>8 DEF Cached
  <2>10. LockT(a)'
    <3>1. lock = a => i # None
      <4>1. loc[a].res \in BOOLEAN
        BY Zenon, <2>4 DEF LocRec
      <4>2. ClaimDone(a, loc[a].res, waiters, waiting, i)
        BY Zenon, <2>2, <2>4, <4>1, ClaimEffect
      <4> QED
        BY Zenon, <1>1, <1>4, <4>2, LockHolderClaims DEF ClaimDone
    <3> QED
      BY Zenon, <1>1, <1>2, <2>7, <2>8, <3>1 DEF TaskT, LockT, Unadopted, Queueing
  <2>11. PlaceT(a)'
    BY Zenon, <1>1, <1>2, <2>1, <2>7, <2>8
    DEF TaskT, PlaceT, Unadopted, Queueing, Adopted, Mine, OrNone
  <2>12. BitT(a)'
    <3>1. pc[a] \notin Running \cup Waiting /\ q \in Running /\ q \notin Waiting
      BY Zenon, <1>1 DEF Running, Waiting, Queueing, Adopted
    <3> HIDE DEF q
    <3> QED
      BY Zenon, <1>1, <1>2, <2>1, <2>3, <2>7, <2>8, <2>9, <3>1, BitGot DEF TaskT
  <2>13. QueueT(a)'
    BY Zenon, <2>8 DEF QueueT, Queueing
  <2>14. Goto(a, q) /\ (i # None => q = "create") /\ (i = None => q = "register")
    BY Zenon, <2>2
  <2> HIDE DEF q
  <2> QED
    BY <1>1, <1>2, <2>1, <2>2, <2>4, <2>7, <2>8, <2>10, <2>11, <2>12, <2>13, <2>14,
       ClaimStepped
<1> QED
  BY Zenon, <1>3, <1>4

(* A look at the pool after a wake-up.                                     *)
LEMMA LookStep ==
  ASSUME Counting, IInv, NEW a \in Addrs, Look(a)
  PROVE  IInv'
<1> TypeOK /\ TaskT(a) /\ PoolInv
  BY Zenon DEF IInv, TaskInv, TaskT, PoolInv
<1>1. alive[a] /\ pc[a] = "look" /\ alloc' = alloc /\ nc' = nc
  BY Zenon DEF Look
<1>2. UNCHANGED <<up, holder, sbTask, owned, refs, lock, alive, stamp, app, upsets>>
  BY Zenon DEF Look, baseVars, taskVars
<1>3. PICK i \in OrNone(Slots) :
        /\ loc' = [loc EXCEPT ![a].slot = i]
        /\ ClaimEvict(a, loc[a].res, waiters, waiting, i)
        /\ Goto(a, IF i = None THEN "test" ELSE "unreg")
  BY Zenon DEF Look
<1>4. /\ loc \in [Addrs -> LocRec] /\ pc \in [Addrs -> Places]
      /\ alloc \in [Addrs -> SUBSET Bits] /\ waiters \in [Entries -> EntryRec]
      /\ waiting \in 0..NWaiters /\ waiting = TableCount(waiters)
  BY Zenon, Records DEF TypeOK, PoolInv, Counted, Registered, TableCount
<1> DEFINE q == IF i = None THEN "test" ELSE "unreg"
<1>5. PICK l : l = [loc[a] EXCEPT !.slot = i]
  BY Zenon
<1>6. loc' = [loc EXCEPT ![a] = l]
  BY Zenon, <1>3, <1>4, <1>5
<1>7. /\ l \in LocRec /\ l.slot = i /\ l.rec = loc[a].rec /\ l.res = loc[a].res
      /\ l.run = loc[a].run /\ l.wbit = loc[a].wbit /\ l.idx = loc[a].idx
  <2>1. loc[a] \in LocRec
    BY Zenon, <1>4
  <2> QED
    BY Zenon, <1>5, <2>1 DEF LocRec
<1>8. /\ loc'[a] = l /\ loc' \in [Addrs -> LocRec]
      /\ \A x \in Addrs \ {a} : loc'[x] = loc[x]
      /\ pc'[a] = q
  BY ZenonT(40), <1>3, <1>4, <1>6, <1>7 DEF Goto
<1>9. Cached(a)' = Cached(a)
  BY Zenon, <1>1, <1>2, <1>7, <1>8 DEF Cached
<1>10. LockT(a)'
  BY Zenon, <1>1, <1>2, <1>7, <1>8 DEF TaskT, LockT, Unadopted, Queueing
<1>11. PlaceT(a)'
  BY Zenon, <1>1, <1>2, <1>7, <1>8
  DEF TaskT, PlaceT, Unadopted, Queueing, Adopted, Mine, OrNone
<1>12. BitT(a)'
  <2>1. pc[a] \in Running /\ pc[a] \in Waiting /\ q \in Running /\ q \in Waiting
    BY Zenon, <1>1 DEF Running, Waiting, Queueing, Adopted
  <2> HIDE DEF q
  <2> QED
    BY Zenon, <1>1, <1>2, <1>7, <1>8, <1>9, <2>1, BitKept DEF TaskT
<1>13. waiters' = waiters => QueueT(a)'
  BY Zenon, <1>1, <1>2, <1>7, <1>8 DEF TaskT, QueueT, Queueing
<1>14. Goto(a, q) /\ (i # None => q = "unreg") /\ (i = None => q = "test")
  BY Zenon, <1>3
<1> HIDE DEF q
<1> QED
  BY <1>1, <1>2, <1>3, <1>4, <1>7, <1>8, <1>10, <1>11, <1>12, <1>13, <1>14, ClaimStepped

----------------------------------------------------------------------------
(* The waiters' table.                                                     *)

(* Registering a Task in a free entry, and clearing its entry.             *)
LEMMA TableAdd ==
  ASSUME Counting, TypeOK, NEW e \in Entries, waiters[e].task = None,
         NEW r \in EntryRec, r.task # None, waiting = TableCount(waiters)
  PROVE  LET w == [waiters EXCEPT ![e] = r] IN
         /\ w \in [Entries -> EntryRec]
         /\ waiting + 1 = TableCount(w) /\ waiting + 1 \in 0..NWaiters
<1> DEFINE w == [waiters EXCEPT ![e] = r]
           R == {d \in Entries : waiters[d].task # None}
           T == {d \in Entries : w[d].task # None}
<1>1. waiters \in [Entries -> EntryRec] /\ w \in [Entries -> EntryRec]
  BY Zenon, Records
<1>2. T = R \cup {e} /\ e \notin R
  BY Zenon, <1>1
<1>3. R \in SUBSET Entries /\ T \in SUBSET Entries
  BY Zenon
<1>4. /\ Cardinality(R) \in 0..NWaiters /\ Cardinality(T) \in 0..NWaiters
      /\ Cardinality(T) = Cardinality(R) + 1
  <2> HIDE DEF R, T
  <2> QED
    BY Zenon, <1>2, <1>3 DEF Counting, EntriesCounted
<1>6. waiting = Cardinality(R) /\ TableCount(w) = Cardinality(T)
  BY Zenon DEF TableCount
<1> HIDE DEF R, T, w
<1> QED
  BY Zenon, <1>1, <1>4, <1>6 DEF w

(* Clearing an entry counts it out.                                        *)
LEMMA TableClear ==
  ASSUME Counting, TypeOK, NEW e \in Entries, waiters[e].task # None,
         waiters' = [waiters EXCEPT ![e] = FreeEntry],
         waiting = TableCount(waiters), waiting' = Uncount(waiting, 1)
  PROVE  /\ waiters' \in [Entries -> EntryRec]
         /\ Counted' /\ waiting' \in 0..NWaiters
<1> DEFINE R == {d \in Entries : waiters[d].task # None}
<1>1. waiters \in [Entries -> EntryRec] /\ waiters' \in [Entries -> EntryRec]
  BY Zenon, Records
<1>2. Registered' = R \ {e} /\ e \in R
  BY Zenon, <1>1 DEF Registered, FreeEntry, Entries
<1>3. R \in SUBSET Entries
  BY Zenon
<1>4. /\ Cardinality(R) \in 0..NWaiters /\ Cardinality(R \ {e}) \in 0..NWaiters
      /\ Cardinality(R \ {e}) = Cardinality(R) - 1
  <2> HIDE DEF R
  <2>1. R \ {e} \in SUBSET Entries
    BY Zenon, <1>3
  <2> QED
    BY Zenon, <1>2, <1>3, <2>1 DEF Counting, EntriesCounted
<1>6. waiting = Cardinality(R)
  BY Zenon DEF TableCount
<1> HIDE DEF R
<1> QED
  BY <1>1, <1>2, <1>4, <1>6 DEF Counted, Uncount

(* Registering on a full pool, with the last look.                         *)
LEMMA RegisterStep ==
  ASSUME Counting, IInv, NEW a \in Addrs, Register(a)
  PROVE  IInv'
<1> DEFINE free == {d \in Entries : waiters[d].task = None}
<1> TypeOK /\ TaskT(a) /\ PoolInv
  BY Zenon DEF IInv, TaskInv, TaskT, PoolInv
<1>1. alive[a] /\ pc[a] = "register"
  BY Zenon DEF Register
<1>2. UNCHANGED <<up, holder, sbTask, owned, refs, lock, alive, stamp, app, upsets>>
  BY Zenon DEF Register, baseVars, taskVars
<1>3. CASE FreeBits(a) = {} \/ free = {}
  <2>1. Fail(a, {loc[a].run}) /\ NoScan /\ UNCHANGED <<slot, next>>
    BY Zenon, <1>3 DEF Register
  <2> QED
    BY Zenon, <1>1, <1>2, <2>1, FailStep DEF baseVars, taskVars
<1>4. CASE FreeBits(a) # {} /\ free # {}
  <2> DEFINE s == Max(FreeBits(a))
             e == Min(free)
             r == [task |-> a, bit |-> s, stamp |-> stamp[a]]
             w == [waiters EXCEPT ![e] = r]
  <2>1. alloc' = [alloc EXCEPT ![a] = @ \cup {s}] /\ nc' = nc
    BY Zenon, <1>4 DEF Register
  <2>2. PICK i \in OrNone(Slots) :
          /\ loc' = [loc EXCEPT ![a].wbit = s, ![a].idx = e, ![a].slot = i]
          /\ ClaimEvict(a, loc[a].res, w, waiting + 1, i)
          /\ Goto(a, IF i = None THEN "test" ELSE "unreg")
    BY Zenon, <1>4 DEF Register
  <2>3. s \in Bits /\ s \notin alloc[a]
    BY Zenon, <1>4, FreshBit
  <2>4. e \in Entries /\ waiters[e].task = None
    <3>1. free \in SUBSET Nat
      BY DEF Entries
    <3>2. e \in free
      BY Zenon, <1>4, <3>1, MinIn
    <3> QED
      BY Zenon, <3>2
  <2> HIDE DEF s, e
  <2>5. /\ loc \in [Addrs -> LocRec] /\ pc \in [Addrs -> Places]
        /\ alloc \in [Addrs -> SUBSET Bits] /\ waiters \in [Entries -> EntryRec]
        /\ waiting = TableCount(waiters) /\ stamp[a] \in Stamps
    BY Zenon, Records DEF TypeOK, PoolInv, Counted, Registered, TableCount
  <2>6. r \in EntryRec /\ r.task # None /\ r.task = a
    BY Zenon, <2>3, <2>5, AdoptPoolAssumption DEF EntryRec, OrNone
  <2>7. /\ w \in [Entries -> EntryRec] /\ waiting + 1 = TableCount(w)
        /\ waiting + 1 \in 0..NWaiters /\ w[e] = r
        /\ \A d \in Entries \ {e} : w[d] = waiters[d]
    <3>1. /\ w \in [Entries -> EntryRec] /\ waiting + 1 = TableCount(w)
          /\ waiting + 1 \in 0..NWaiters
      <4> HIDE DEF r
      <4> QED
        BY Zenon, <2>4, <2>5, <2>6, TableAdd
    <3> HIDE DEF r
    <3> QED
      BY Zenon, <2>4, <2>5, <3>1
  <2> DEFINE q == IF i = None THEN "test" ELSE "unreg"
  <2>8. PICK l : l = [[[loc[a] EXCEPT !.wbit = s] EXCEPT !.idx = e] EXCEPT !.slot = i]
    BY Zenon
  <2>9. loc' = [loc EXCEPT ![a] = l]
    BY Zenon, <2>2, <2>5, <2>8
  <2>10. /\ l \in LocRec /\ l.wbit = s /\ l.slot = i /\ l.idx = e
         /\ l.rec = loc[a].rec /\ l.res = loc[a].res /\ l.run = loc[a].run
    <3>1. loc[a] \in LocRec /\ s \in OrNone(Bits) /\ e \in OrNone(Entries)
      BY Zenon, <2>3, <2>4, <2>5 DEF OrNone
    <3> QED
      BY Zenon, <2>8, <3>1 DEF LocRec
  <2>11. /\ loc'[a] = l /\ loc' \in [Addrs -> LocRec]
         /\ \A x \in Addrs \ {a} : loc'[x] = loc[x]
         /\ alloc' \in [Addrs -> SUBSET Bits] /\ alloc'[a] = alloc[a] \cup {s}
         /\ \A x \in Addrs \ {a} : alloc'[x] = alloc[x]
         /\ pc'[a] = q
    <3>1. pc'[a] = q
      BY Zenon, <2>2, <2>5 DEF Goto
    <3>2. /\ loc'[a] = l /\ loc' \in [Addrs -> LocRec]
          /\ \A x \in Addrs \ {a} : loc'[x] = loc[x]
      BY Zenon, <2>5, <2>9, <2>10
    <3>3. /\ alloc' \in [Addrs -> SUBSET Bits] /\ alloc'[a] = alloc[a] \cup {s}
          /\ \A x \in Addrs \ {a} : alloc'[x] = alloc[x]
      BY Zenon, <2>1, <2>3, <2>5
    <3> QED
      BY Zenon, <3>1, <3>2, <3>3
  <2>12. Cached(a)' = Cached(a)
    BY Zenon, <1>1, <1>2, <2>1, <2>10, <2>11 DEF Cached
  <2>13. LockT(a)'
    BY Zenon, <1>1, <1>2, <2>10, <2>11 DEF TaskT, LockT
  <2>14. PlaceT(a)'
    BY ZenonT(40), <1>1, <1>2, <2>1, <2>4, <2>10, <2>11
    DEF TaskT, PlaceT, Unadopted, Queueing, Adopted, Mine, OrNone
  <2>15. BitT(a)'
    <3>1. /\ pc[a] \in Running /\ pc[a] \notin Waiting /\ q \in Running /\ q \in Waiting
      BY Zenon, <1>1 DEF Running, Waiting, Queueing, Adopted
    <3> HIDE DEF q
    <3> QED
      BY ZenonT(40), <1>1, <1>2, <2>1, <2>3, <2>10, <2>11, <2>12, <3>1, BitGot DEF TaskT
  <2>16. waiters' = w => QueueT(a)'
    <3> HIDE DEF w
    <3> QED
      BY Zenon, <1>2, <2>7, <2>10, <2>11 DEF QueueT
  <2>17. Goto(a, q) /\ (i # None => q = "unreg") /\ (i = None => q = "test")
    BY Zenon, <2>2
  <2>18. ASSUME NEW x \in Addrs \ {a}, alive[x], up, pc[x] \in Queueing
         PROVE  w[loc[x].idx] = waiters[loc[x].idx]
    <3>1. TaskT(x)
      BY Zenon DEF IInv, TaskInv, TaskT
    <3>2. loc[x].idx \in Entries /\ waiters[loc[x].idx].task = x /\ x # None
      BY <2>18, <3>1, AdoptPoolAssumption DEF TaskT, PlaceT, QueueT
    <3> HIDE DEF w
    <3> QED
      BY Zenon, <2>4, <2>7, <3>2
  <2> HIDE DEF q, w
  <2> QED
    BY <1>1, <1>2, <2>1, <2>2, <2>7, <2>10, <2>11, <2>13, <2>14, <2>15, <2>16, <2>17,
       <2>18, ClaimStepped
<1> QED
  BY Zenon, <1>3, <1>4

(* A step that leaves the slots alone, and the entries of the others.      *)
LEMMA TableStep ==
  ASSUME IInv, TypeOK', NEW a \in Addrs, Acts(a), TaskT(a)', WakeT(a)',
         slot' = slot, holder' = holder, Counted',
         \A x \in Addrs \ {a} : (wsig[x] => wsig'[x]) /\ StillQueued(x),
         \A c \in Callers : nc'[c].gen = nc[c].gen \/ nc'[c].gen = 0,
         OwnInv', Reserved'
  PROVE  IInv'
<1> PoolInv
  BY Zenon DEF IInv
<1>1. GenInv'
  BY Zenon, GenFrame DEF PoolInv
<1>2. HolderInv'
  BY Zenon, HolderFrame DEF PoolInv
<1>3. NoneFreed
  BY Zenon DEF NoneFreed, Evictable, Acts
<1>4. WakeInv'
  BY Zenon, <1>3, OthersSleep DEF WakeInv
<1>5. \A x \in Addrs \ {a} : Spared(x) /\ StillQueued(x)
  BY Zenon DEF Spared
<1> QED
  BY Zenon, <1>1, <1>2, <1>4, <1>5, StepKeeps DEF PoolInv

(* Leaving the table, with a slot or without.                              *)
LEMMA UnregStep ==
  ASSUME Counting, IInv, NEW a \in Addrs, Unreg(a)
  PROVE  IInv'
<1> DEFINE e == loc[a].idx
<1> TypeOK /\ TaskT(a) /\ PoolInv /\ Reserved /\ OwnInv
  BY Zenon DEF IInv, TaskInv, TaskT, PoolInv
<1>1. alive[a] /\ pc[a] = "unreg" /\ e \in Entries /\ a # None
  BY Zenon, AdoptPoolAssumption DEF Unreg, TaskT, PlaceT
<1>2. UNCHANGED <<up, slot, next, holder, sbTask, owned, refs, lock, alive, stamp,
                  app, upsets>>
  BY Zenon DEF Unreg, baseVars, taskVars
<1>3. IF waiters[e].task = a
      THEN waiters' = [waiters EXCEPT ![e] = FreeEntry] /\ waiting' = Uncount(waiting, 1)
      ELSE waiters' = waiters /\ waiting' = waiting
  BY Zenon DEF Unreg
<1>4. wsig' = [wsig EXCEPT ![a] = FALSE]
  BY Zenon DEF Unreg
<1> HIDE DEF e
<1>5. waiters' \in [Entries -> EntryRec] /\ waiting' \in 0..NWaiters /\ Counted'
  <2>1. waiting = TableCount(waiters) /\ waiters \in [Entries -> EntryRec]
        /\ waiting \in 0..NWaiters
    BY Zenon, Records DEF PoolInv, Counted, Registered, TableCount, TypeOK
  <2>2. CASE waiters[e].task = a
    BY Zenon, <1>1, <1>3, <2>1, <2>2, TableClear
  <2>3. CASE waiters[e].task # a
    BY Zenon, <1>3, <2>1, <2>3 DEF PoolInv, Counted, Registered, Entries
  <2> QED
    BY Zenon, <2>2, <2>3
<1>6. wsig' \in [Addrs -> BOOLEAN]
  <2>1. wsig \in [Addrs -> BOOLEAN]
    BY Zenon DEF TypeOK
  <2> QED
    BY Zenon, <1>4, <2>1
<1>7. ASSUME NEW x \in Addrs \ {a} PROVE (wsig[x] => wsig'[x]) /\ StillQueued(x)
  <2>1. TaskT(x) /\ wsig'[x] = wsig[x]
    BY Zenon, <1>4 DEF IInv, TaskInv, TaskT, TypeOK
  <2>2. ASSUME alive[x], up, pc[x] \in Queueing
        PROVE  waiters'[loc[x].idx] = waiters[loc[x].idx]
    <3>1. loc[x].idx \in Entries /\ waiters[loc[x].idx].task = x
      BY <2>1, <2>2 DEF TaskT, PlaceT, QueueT
    <3>2. waiters \in [Entries -> EntryRec]
      BY Zenon, Records
    <3> QED
      BY <1>1, <1>3, <3>1, <3>2
  <2> QED
    BY Zenon, <1>2, <2>1, <2>2 DEF StillQueued
<1>8. BitT(a) /\ pc[a] \in Running /\ pc[a] \in Waiting /\ alloc[a] \subseteq Bits
  BY Zenon, <1>1 DEF TaskT, Running, Waiting, TypeOK
<1>9. \A x \in Addrs : lock = x /\ pc[x] \in {"create", "parked", "in"} => x # a
  BY Zenon, <1>1
<1>10. CASE loc[a].slot = None
  <2> DEFINE bits == {loc[a].wbit, loc[a].run}
  <2>1. Fail(a, bits)
    BY Zenon, <1>10 DEF Unreg
  <2>2. bits \cap Bits = Got(a)
    BY Zenon, <1>1, <1>8 DEF Got, BitT
  <2> HIDE DEF bits
  <2>3. \A b \in Cached(a) : Held(b)' => Held(b)
    <3>1. \A b \in Cached(a) : b # loc[a].rec /\ b \in Callers
      BY Zenon, <1>1, CachedCallers DEF Cached
    <3>2. \A b \in Cached(a) : nc'[b] = nc[b]
      BY Zenon, <2>1, <3>1 DEF Fail, TypeOK
    <3> QED
      BY Zenon, <1>2, <3>2 DEF Held
  <2>4. /\ TaskT(a)' /\ OwnInv' /\ Acts(a) /\ pc'[a] = "out" /\ loc'[a] = NoLoc
        /\ nc' \in [Callers -> NcRec] /\ loc' \in [Addrs -> LocRec]
        /\ alloc' \in [Addrs -> SUBSET Bits] /\ pc' \in [Addrs -> Places]
        /\ \A c \in Callers : nc'[c].gen = nc[c].gen \/ nc'[c].gen = 0
    BY Zenon, <1>1, <1>2, <2>1, <2>2, <2>3, FailTask
  <2>5. TypeOK'
    BY Zenon, <1>2, <1>5, <1>6, <2>4 DEF TypeOK, NcRec, LocRec, EntryRec
  <2>6. Reserved'
    BY ZenonT(40), <1>2, <1>9, <2>4, ReservedFrame DEF Acts
  <2>7. WakeT(a)'
    BY Zenon, <2>4 DEF WakeT
  <2> QED
    BY Zenon, <1>2, <1>5, <1>7, <2>4, <2>5, <2>6, <2>7, TableStep
<1>11. CASE loc[a].slot # None
  <2>1. /\ alloc' = [alloc EXCEPT ![a] = @ \ {loc[a].wbit}]
        /\ loc' = [loc EXCEPT ![a].wbit = None, ![a].idx = None]
        /\ pc' = [pc EXCEPT ![a] = "create"] /\ nc' = nc
    BY Zenon, <1>11 DEF Unreg, Goto
  <2>2. /\ loc \in [Addrs -> LocRec] /\ pc \in [Addrs -> Places]
        /\ alloc \in [Addrs -> SUBSET Bits]
    BY Zenon, Records DEF TypeOK
  <2>3. PICK l : l = [[loc[a] EXCEPT !.wbit = None] EXCEPT !.idx = None]
    BY Zenon
  <2>4. loc' = [loc EXCEPT ![a] = l]
    BY Zenon, <2>1, <2>2, <2>3
  <2>5. /\ l \in LocRec /\ l.slot = loc[a].slot /\ l.rec = loc[a].rec
        /\ l.res = loc[a].res /\ l.run = loc[a].run
    <3>1. loc[a] \in LocRec
      BY Zenon, <2>2
    <3> QED
      BY Zenon, <2>3, <3>1 DEF LocRec, OrNone
  <2>6. /\ loc'[a] = l /\ loc' \in [Addrs -> LocRec]
        /\ \A x \in Addrs \ {a} : loc'[x] = loc[x]
    BY Zenon, <2>2, <2>4, <2>5
  <2>7. /\ alloc' \in [Addrs -> SUBSET Bits] /\ alloc'[a] = alloc[a] \ {loc[a].wbit}
        /\ \A x \in Addrs \ {a} : alloc'[x] = alloc[x] /\ pc'[x] = pc[x]
        /\ pc'[a] = "create" /\ pc' \in [Addrs -> Places]
    BY Zenon, <2>1, <2>2 DEF Places
  <2>8. TypeOK'
    BY Zenon, <1>2, <1>5, <1>6, <2>1, <2>6, <2>7 DEF TypeOK, LocRec, EntryRec
  <2>9. Acts(a)
    BY Zenon, <1>2, <2>1, <2>6, <2>7 DEF Acts, TypeOK
  <2>10. Cached(a)' = Cached(a)
    BY <1>1, <1>2, <2>1, <2>5, <2>6, <2>7 DEF Cached
  <2>11. TaskT(a)'
    <3>1. LockT(a)' /\ QueueT(a)'
      BY Zenon, <1>1, <1>2, <2>5, <2>6, <2>7 DEF TaskT, LockT, QueueT, Unadopted, Queueing
    <3>2. PlaceT(a)'
      <4>1. l.slot \in Slots
        BY Zenon, <1>11, <2>5 DEF LocRec, OrNone
      <4> QED
        BY <1>1, <1>2, <2>1, <2>5, <2>6, <2>7, <4>1
        DEF TaskT, PlaceT, Unadopted, Queueing, Adopted, Mine
    <3>3. AdoptT(a)'
      <4>1. /\ slot[l.slot].busy /\ ~slot[l.slot].pub /\ slot[l.slot].claimer = a
            /\ slot[l.slot].cstamp = stamp[a]
        BY Zenon, <1>1, <1>11, <2>5 DEF TaskT, AdoptT
      <4> QED
        BY Zenon, <1>2, <2>6, <2>7, <4>1 DEF AdoptT, Adopted
    <3>4. HandleT(a)'
      BY Zenon, <1>2, <2>1, <2>10, HandleKept DEF TaskT, Held
    <3>5. BitT(a)'
      <4>1. pc'[a] \in Running /\ pc'[a] \notin Waiting
        BY Zenon, <2>7 DEF Running, Waiting, Queueing, Adopted
      <4>2. \A s \in Bits : s \in alloc'[a] <=>
              s \in app[a] \/ (\E b \in Cached(a) : s = nc[b].sig) \/ s = loc[a].run
        BY ZenonT(40), <1>1, <1>8, <2>7 DEF BitT
      <4>3. /\ \A b \in Cached(a) : nc[b].sig \in Bits \ app[a]
            /\ \A b, d \in Cached(a) : b # d => nc[b].sig # nc[d].sig
            /\ loc[a].run \in Bits \ app[a]
            /\ \A b \in Cached(a) : nc[b].sig # loc[a].run
        BY Zenon, <1>1, <1>8 DEF BitT
      <4> QED
        BY <1>2, <2>1, <2>5, <2>6, <2>10, <4>1, <4>2, <4>3 DEF BitT, Bits, Running, Waiting
    <3> QED
      BY Zenon, <3>1, <3>2, <3>3, <3>4, <3>5 DEF TaskT
  <2>12. OwnInv' /\ WakeT(a)'
    BY Zenon, <1>2, <2>1, <2>7 DEF OwnInv, WakeT
  <2>13. Reserved'
    BY Zenon, <1>2, <1>9, <2>6, <2>7, ReservedFrame
  <2> QED
    BY Zenon, <1>2, <1>5, <1>7, <2>1, <2>8, <2>9, <2>11, <2>12, <2>13, TableStep
<1> QED
  BY Zenon, <1>10, <1>11

----------------------------------------------------------------------------
(* Slots given back, and published.                                        *)

(* The generations after a create: the handle gets that of the claimed     *)
(* slot.                                                                   *)
LEMMA NcGrown ==
  ASSUME GenInv, NEW c \in Callers, NEW i \in Slots, slot[i].busy, ~slot[i].pub,
         \A d \in Callers \ {c} : nc'[d] = nc[d], nc'[c].gen = slot[i].gen,
         \A j \in Slots \ {i} : slot'[j] = slot[j],
         slot'[i].busy, slot'[i].pub, slot'[i].gen = slot[i].gen
  PROVE  GenInv'
<1>1. \A d, f \in Callers : d # f /\ nc'[d].gen # 0 => nc'[d].gen # nc'[f].gen
  BY DEF GenInv
<1>2. \A j \in Slots : slot'[j].busy => slot'[j].gen # 0
  BY DEF GenInv
<1>3. \A j \in Slots : slot'[j].busy /\ ~slot'[j].pub =>
        \A d \in Callers : nc'[d].gen # slot'[j].gen
  BY DEF GenInv
<1>4. \A j, k \in Slots : j # k /\ slot'[j].busy /\ slot'[k].busy
                            => slot'[j].gen # slot'[k].gen
  BY DEF GenInv
<1> QED
  BY Zenon, <1>1, <1>2, <1>3, <1>4 DEF GenInv, Slots, Callers

(* The Task gives its slot back, and every waiter is woken.                *)
LEMMA GiveBack ==
  ASSUME Counting, IInv, NEW a \in Addrs, Acts(a), TaskT(a)',
         pc'[a] = "out", UNCHANGED <<lock, up>>,
         NEW i \in Slots, loc[a].slot = i,
         \/ slot[i].pub /\ slot[i].task = a
         \/ ~slot[i].pub /\ slot[i].claimer = a,
         ReleaseSlots({i}),
         nc' \in [Callers -> NcRec], loc' \in [Addrs -> LocRec],
         alloc' \in [Addrs -> SUBSET Bits], pc' \in [Addrs -> Places],
         sbTask' \in [Bases -> OrNone(Addrs)], refs' \subseteq Bases,
         UNCHANGED <<alive, stamp, app, upsets, next>>,
         holder' = holder \/ holder' = None, holder' # i,
         \A c \in Callers : nc'[c].gen = nc[c].gen \/ nc'[c].gen = 0,
         OwnInv'
  PROVE  IInv'
<1> TypeOK /\ PoolInv /\ Reserved /\ GenInv /\ HolderInv /\ Counted
  BY Zenon DEF IInv, PoolInv
<1>1. /\ slot \in [Slots -> SlotRec] /\ waiters \in [Entries -> EntryRec]
      /\ FreeSlot \in SlotRec /\ ~FreeSlot.busy
  BY Zenon, Records DEF FreeSlot
<1>2. /\ slot'[i] = FreeSlot /\ \A j \in Slots \ {i} : slot'[j] = slot[j]
      /\ slot' \in [Slots -> SlotRec]
  BY Zenon, <1>1 DEF ReleaseSlots
<1>3. Scan(waiters, waiting, alloc, FALSE) /\ waiting = TableCount(waiters) /\ FALSE \in BOOLEAN
  BY Zenon DEF ReleaseSlots, Counted, Registered, TableCount
<1>4. /\ waiters' \in [Entries -> EntryRec] /\ waiting' \in 0..NWaiters
      /\ wsig' \in [Addrs -> BOOLEAN] /\ Counted'
  BY Zenon, <1>1, <1>3, ScanEffect
<1>5. TypeOK'
  <2>1. holder' \in OrNone(Slots) /\ owned' \subseteq Bases
    BY ZenonT(40) DEF TypeOK, OrNone, Acts
  <2> QED
    BY Zenon, <1>2, <1>4, <2>1 DEF TypeOK, SlotRec, NcRec, LocRec, EntryRec
<1>6. ASSUME NEW x \in Addrs \ {a} PROVE Spared(x) /\ StillQueued(x) /\ WakeT(x)'
  <2>1. TaskT(x)
    BY Zenon DEF IInv, TaskInv, TaskT
  <2>2. Spared(x)
    BY Zenon, <1>1, <1>2, <2>1, OwnSpares
  <2>3. StillQueued(x) /\ WakeT(x)'
    BY Zenon, <1>1, <1>3, OthersWoken
  <2> QED
    BY Zenon, <2>2, <2>3
<1>7. WakeInv'
  <2>1. WakeT(a)'
    BY Zenon DEF WakeT
  <2> QED
    BY Zenon, <1>6, <2>1 DEF WakeInv
<1>8. PoolInv'
  <2>1. Reserved'
    <3>1. \A j \in Slots : slot'[j].busy => slot[j].busy
      BY Zenon, <1>1, <1>2
    <3>2. ASSUME NEW x \in Addrs, slot'[loc[x].slot].busy
          PROVE  loc'[x].slot = loc[x].slot /\ pc'[x] = pc[x]
      <4>1. x # a
        BY Zenon, <1>1, <1>2, <3>2
      <4> QED
        BY Zenon, <4>1 DEF Acts
    <3> QED
      BY Zenon, <3>1, <3>2, ReservedFrame
  <2>2. GenInv'
    <3>1. \A j \in Slots : slot'[j].busy =>
            slot[j].busy /\ slot'[j].gen = slot[j].gen /\ (slot[j].pub => slot'[j].pub)
      BY Zenon, <1>1, <1>2
    <3> QED
      BY Zenon, <3>1, GenFrame
  <2>3. HolderInv'
    BY Zenon, <1>2, HolderFrame DEF TypeOK, OrNone
  <2> QED
    BY Zenon, <1>4, <2>1, <2>2, <2>3 DEF PoolInv
<1> QED
  BY Zenon, <1>5, <1>6, <1>7, <1>8, StepKeeps

(* The create finds the kernel gone and gives the slot back.               *)
LEMMA CreateFails ==
  ASSUME Counting, IInv, NEW a \in Addrs, Create(a), ~up
  PROVE  IInv'
<1> DEFINE i == loc[a].slot
<1> TypeOK /\ TaskT(a) /\ PoolInv /\ HolderInv
  BY Zenon DEF IInv, TaskInv, TaskT, PoolInv
<1>1. /\ alive[a] /\ pc[a] = "create" /\ i \in Slots /\ i # None
      /\ slot[i].busy /\ ~slot[i].pub /\ slot[i].claimer = a
  <2>1. alive[a] /\ pc[a] = "create"
    BY Zenon DEF Create
  <2>2. i \in Slots /\ i # None
    BY <2>1, AdoptPoolAssumption DEF TaskT, PlaceT, Slots
  <2> QED
    BY Zenon, <2>1, <2>2 DEF TaskT, AdoptT
<1>2. UNCHANGED <<up, next, holder, sbTask, owned, refs, lock, alive, stamp, app, upsets>>
  BY Zenon DEF Create, baseVars, taskVars
<1>3. Fail(a, {loc[a].run}) /\ ReleaseSlots({i})
  BY Zenon DEF Create
<1> HIDE DEF i
<1>4. {loc[a].run} \cap Bits = Got(a)
  BY Zenon, <1>1 DEF Got, Running, Waiting, Queueing, Adopted, TaskT, BitT
<1>5. \A b \in Cached(a) : b # loc[a].rec /\ b \in Callers /\ nc'[b] = nc[b]
  <2>1. \A b \in Cached(a) : b # loc[a].rec /\ b \in Callers
    BY Zenon, <1>1, CachedCallers DEF Cached
  <2> QED
    BY Zenon, <1>3, <2>1 DEF Fail, TypeOK
<1>6. \A b \in Cached(a) : /\ Held(b) => slot'[nc[b].thread] = slot[nc[b].thread]
                                         \/ ~slot'[nc[b].thread].busy
                           /\ Held(b)' => Held(b)
  <2>1. nc \in [Callers -> NcRec]
    BY Zenon, Records
  <2>2. \A j \in Slots : slot'[j] = slot[j] \/ ~slot'[j].busy
    BY Zenon, <1>3 DEF ReleaseSlots, FreeSlot
  <2> QED
    BY <1>5, <2>1, <2>2 DEF Held, NcRec, OrNone
<1>7. /\ TaskT(a)' /\ OwnInv' /\ Acts(a) /\ pc'[a] = "out"
      /\ nc' \in [Callers -> NcRec] /\ loc' \in [Addrs -> LocRec]
      /\ alloc' \in [Addrs -> SUBSET Bits] /\ pc' \in [Addrs -> Places]
      /\ sbTask' \in [Bases -> OrNone(Addrs)] /\ refs' \subseteq Bases
      /\ \A c \in Callers : nc'[c].gen = nc[c].gen \/ nc'[c].gen = 0
  BY ZenonT(40), <1>1, <1>2, <1>3, <1>4, <1>6, FailTask
<1>8. holder' # i
  BY Zenon, <1>1, <1>2 DEF HolderInv
<1> QED
  BY Zenon, <1>1, <1>2, <1>3, <1>7, <1>8, GiveBack DEF i

(* tx_amiga_orphan_thread(), its record reset and its base closed or not.  *)
LEMMA OrphanStep ==
  ASSUME Counting, IInv, NEW a \in Addrs, alive[a], pc[a] \in {"in", "relin"}, Orphan(a),
         nc' = [nc EXCEPT ![loc[a].rec] = NoCaller],
         UNCHANGED <<up, next, lock, alive, stamp, app, upsets>>,
         \/ UNCHANGED <<sbTask, owned, refs>>
         \/ /\ loc[a].rec \in Bases
            /\ sbTask' = [sbTask EXCEPT ![loc[a].rec] = None]
            /\ owned' = owned \ {loc[a].rec} /\ refs' = refs \ {loc[a].rec}
  PROVE  IInv'
<1> DEFINE i == loc[a].slot
<1> TypeOK /\ TaskT(a) /\ PoolInv /\ HolderInv
  BY Zenon DEF IInv, TaskInv, TaskT, PoolInv
<1>1. i \in Slots /\ i # None /\ slot[i].pub /\ slot[i].task = a
  <2>1. i \in Slots /\ i # None
    BY AdoptPoolAssumption DEF TaskT, PlaceT, Slots, Adopted
  <2> QED
    BY Zenon, <2>1 DEF TaskT, AdoptT, Adopted
<1>2. Fail(a, {loc[a].run}) /\ ReleaseSlots({i})
      /\ holder' = (IF holder = i THEN None ELSE holder)
  BY Zenon DEF Orphan, Fail
<1> HIDE DEF i
<1>3. {loc[a].run} \cap Bits = Got(a)
  BY Zenon DEF Got, Running, Waiting, Queueing, Adopted, TaskT, BitT
<1>4. \A b \in Cached(a) : b # loc[a].rec /\ b \in Callers /\ nc'[b] = nc[b]
  <2>1. \A b \in Cached(a) : b # loc[a].rec /\ b \in Callers
    BY Zenon, CachedCallers DEF Cached
  <2> QED
    BY Zenon, <2>1 DEF TypeOK
<1>5. \A b \in Cached(a) : /\ Held(b) => slot'[nc[b].thread] = slot[nc[b].thread]
                                         \/ ~slot'[nc[b].thread].busy
                           /\ Held(b)' => Held(b)
  <2>1. nc \in [Callers -> NcRec]
    BY Zenon, Records
  <2>2. \A j \in Slots : slot'[j] = slot[j] \/ ~slot'[j].busy
    BY Zenon, <1>2 DEF ReleaseSlots, FreeSlot
  <2> QED
    BY Zenon, <1>4, <2>1, <2>2 DEF Held, NcRec, OrNone
<1>6. /\ TaskT(a)' /\ OwnInv' /\ Acts(a) /\ pc'[a] = "out"
      /\ nc' \in [Callers -> NcRec] /\ loc' \in [Addrs -> LocRec]
      /\ alloc' \in [Addrs -> SUBSET Bits] /\ pc' \in [Addrs -> Places]
      /\ sbTask' \in [Bases -> OrNone(Addrs)] /\ refs' \subseteq Bases
      /\ \A c \in Callers : nc'[c].gen = nc[c].gen \/ nc'[c].gen = 0
  BY Zenon, <1>2, <1>3, <1>5, FailTask
<1>7. (holder' = holder \/ holder' = None) /\ holder' # i
  BY Zenon, <1>1, <1>2
<1> QED
  BY Zenon, <1>1, <1>2, <1>6, <1>7, GiveBack DEF i

(* ami_netstack_leave().                                                   *)
LEMMA LeaveStep ==
  ASSUME Counting, IInv, NEW a \in Addrs, Leave(a)
  PROVE  IInv'
BY Zenon, OrphanStep DEF Leave, baseVars, taskVars

(* ami_netstack_release() after the baton came.                            *)
LEMMA FinishReleaseStep ==
  ASSUME Counting, IInv, NEW a \in Addrs, FinishRelease(a)
  PROVE  IInv'
<1> TypeOK /\ TaskT(a)
  BY Zenon DEF IInv, TaskInv, TaskT
<1>1. loc[a].rec \in Bases
  BY Zenon DEF FinishRelease, TaskT, PlaceT
<1> QED
  BY Zenon, <1>1, OrphanStep DEF FinishRelease, CloseBase, taskVars

(* Publishing the thread: the slot goes from claimed to adopted.           *)
LEMMA CreateSucceeds ==
  ASSUME IInv, NEW a \in Addrs, Create(a), up
  PROVE  IInv'
<1> DEFINE c == loc[a].rec
           i == loc[a].slot
<1> TypeOK /\ TaskT(a) /\ PoolInv /\ HolderInv /\ GenInv /\ Reserved /\ OwnInv
  BY Zenon DEF IInv, TaskInv, TaskT, PoolInv
<1>1. /\ alive[a] /\ pc[a] = "create" /\ i \in Slots /\ i # None
      /\ slot[i].busy /\ ~slot[i].pub /\ slot[i].claimer = a
      /\ c \in Callers /\ Mine(a, c)
  <2>1. alive[a] /\ pc[a] = "create"
    BY Zenon DEF Create
  <2>2. i \in Slots /\ i # None
    BY <2>1, AdoptPoolAssumption DEF TaskT, PlaceT, Slots
  <2>3. c \in Callers /\ Mine(a, c)
    BY Zenon, <2>1, RecIsCaller DEF Unadopted
  <2> QED
    BY Zenon, <2>1, <2>2, <2>3 DEF TaskT, AdoptT
<1>2. UNCHANGED <<up, next, holder, sbTask, owned, refs, lock, alive, stamp, app, upsets,
                  waiters, waiting, wsig, alloc, loc>>
  BY Zenon DEF Create, baseVars, taskVars, NoScan
<1>3. /\ slot' = [slot EXCEPT ![i] =
               [@ EXCEPT !.pub = TRUE, !.claimer = None, !.cstamp = None,
                         !.task = a, !.run = loc[a].run, !.tstamp = stamp[a],
                         !.state = "ready"]]
      /\ nc' = [nc EXCEPT ![c].thread = i, ![c].gen = slot[i].gen]
      /\ pc' = [pc EXCEPT ![a] = "parked"]
  BY Zenon DEF Create, Goto
<1> HIDE DEF i, c
<1>4. /\ slot \in [Slots -> SlotRec] /\ nc \in [Callers -> NcRec] /\ slot[i] \in SlotRec
      /\ pc \in [Addrs -> Places] /\ loc[a] \in LocRec /\ stamp[a] \in OrNone(Stamps)
      /\ loc[a].run \in OrNone(Bits) /\ a \in OrNone(Addrs) /\ nc[c] \in NcRec
      /\ slot[i].gen \in Nat /\ i \in OrNone(Slots)
  <2>1. /\ slot \in [Slots -> SlotRec] /\ nc \in [Callers -> NcRec]
        /\ pc \in [Addrs -> Places] /\ loc[a] \in LocRec /\ stamp[a] \in OrNone(Stamps)
    BY Zenon, Records DEF TypeOK, OrNone
  <2> QED
    BY Zenon, <1>1, <2>1 DEF LocRec, SlotRec, OrNone
<1>5. /\ \A j \in Slots \ {i} : slot'[j] = slot[j]
      /\ slot' \in [Slots -> SlotRec]
      /\ slot'[i].busy /\ slot'[i].pub /\ slot'[i].task = a /\ slot'[i].run = loc[a].run
      /\ slot'[i].tstamp = stamp[a] /\ slot'[i].state = "ready"
      /\ slot'[i].gen = slot[i].gen
  <2>1. PICK r : r = [slot[i] EXCEPT !.pub = TRUE, !.claimer = None, !.cstamp = None,
                         !.task = a, !.run = loc[a].run, !.tstamp = stamp[a],
                         !.state = "ready"]
    BY Zenon
  <2>2. slot' = [slot EXCEPT ![i] = r]
    BY Zenon, <1>1, <1>3, <1>4, <2>1
  <2>3. /\ r.busy /\ r.pub /\ r.task = a /\ r.run = loc[a].run
        /\ r.tstamp = stamp[a] /\ r.state = "ready" /\ r.gen = slot[i].gen
    BY Zenon, <1>1, <1>4, <2>1 DEF SlotRec
  <2>4. r \in SlotRec
    BY ZenonT(40), <1>4, <2>1 DEF SlotRec, OrNone
  <2> QED
    BY Zenon, <1>1, <1>4, <2>2, <2>3, <2>4
<1>6. /\ \A d \in Callers \ {c} : nc'[d] = nc[d]
      /\ nc' \in [Callers -> NcRec]
      /\ nc'[c].thread = i /\ nc'[c].gen = slot[i].gen
      /\ nc'[c].live <=> nc[c].live
  <2>1. PICK r : r = [[nc[c] EXCEPT !.thread = i] EXCEPT !.gen = slot[i].gen]
    BY Zenon
  <2>2. nc' = [nc EXCEPT ![c] = r]
    BY Zenon, <1>1, <1>3, <1>4, <2>1
  <2>3. r.thread = i /\ r.gen = slot[i].gen /\ (r.live <=> nc[c].live) /\ r \in NcRec
    BY Zenon, <1>4, <2>1 DEF NcRec
  <2> QED
    BY Zenon, <1>1, <1>4, <2>2, <2>3
<1>7. /\ pc'[a] = "parked" /\ pc' \in [Addrs -> Places]
      /\ \A x \in Addrs \ {a} : pc'[x] = pc[x]
  BY Zenon, <1>3, <1>4 DEF Places, Adopted
<1>8. TypeOK'
  BY Zenon, <1>2, <1>5, <1>6, <1>7 DEF TypeOK, SlotRec, NcRec
<1>9. Acts(a)
  BY ZenonT(40), <1>1, <1>2, <1>6, <1>7 DEF Acts, TypeOK
<1>10. /\ Cached(a)' = Cached(a)
       /\ \A b \in Cached(a) : b # c /\ b \in Callers /\ nc'[b] = nc[b]
  <2>1. \A b \in Cached(a) : b # c /\ b \in Callers
    BY Zenon, <1>1, CachedCallers DEF Cached, c
  <2>2. \A b \in owned : b \in Callers
    BY Zenon DEF TypeOK, Callers
  <2>3. \A b \in owned : b \in Cached(a)' <=> b \in Cached(a)
    BY ZenonT(40), <1>1, <1>2, <1>6, <1>7, <2>2 DEF Cached, c
  <2> QED
    BY Zenon, <1>2, <1>6, <2>1, <2>3 DEF Cached
<1>11. TaskT(a)'
  <2>1. LockT(a)' /\ QueueT(a)'
    BY Zenon, <1>1, <1>2, <1>7 DEF TaskT, LockT, QueueT, Unadopted, Queueing
  <2>2. PlaceT(a)'
    <3>1. c \in Bases => nc'[c].live
      BY Zenon, <1>6 DEF TaskT, PlaceT, c
    <3> QED
      BY Zenon, <1>1, <1>2, <1>7, <3>1
      DEF PlaceT, Unadopted, Queueing, Adopted, Mine, c, i
  <2>3. AdoptT(a)'
    <3>1. slot[i].gen # 0
      BY Zenon, <1>1 DEF GenInv
    <3>0. c' = c
      BY Zenon, <1>2 DEF c
    <3>2. Held(c)'
      BY Zenon, <1>1, <1>5, <1>6, <3>0, <3>1 DEF Held
    <3>3. loc'[a].slot = i /\ loc'[a].rec = c /\ loc'[a].run = loc[a].run /\ stamp'[a] = stamp[a]
      BY Zenon, <1>2 DEF c, i
    <3> QED
      BY ZenonT(40), <1>5, <1>6, <1>7, <3>0, <3>2, <3>3 DEF AdoptT, Adopted
  <2>4. HandleT(a)'
    <3>1. ASSUME NEW b \in Cached(a), Held(b)'
          PROVE  Held(b) /\ slot'[nc[b].thread] = slot[nc[b].thread]
      <4>1. b \in Callers /\ nc'[b] = nc[b] /\ nc[b].gen # slot[i].gen
        BY Zenon, <1>1, <1>10 DEF GenInv
      <4>2. nc[b].thread \in Slots /\ nc[b].thread # i
        BY <1>4, <1>5, <3>1, <4>1 DEF Held, NcRec, OrNone
      <4>3. slot'[nc[b].thread] = slot[nc[b].thread]
        BY Zenon, <1>5, <4>2
      <4> QED
        BY Zenon, <3>1, <4>1, <4>3 DEF Held
    <3> QED
      BY Zenon, <1>2, <1>10, <3>1, HandleKept DEF TaskT
  <2>5. BitT(a)'
    <3>1. pc[a] \in Running /\ pc'[a] \in Running /\ pc[a] \notin Waiting /\ pc'[a] \notin Waiting
      BY Zenon, <1>1, <1>7 DEF Running, Waiting, Queueing, Adopted
    <3> QED
      BY Zenon, <1>2, <1>10, <3>1, BitKept DEF TaskT
  <2> QED
    BY Zenon, <2>1, <2>2, <2>3, <2>4, <2>5 DEF TaskT
<1>12. PoolInv'
  <2>1. Reserved'
    <3>1. \A j \in Slots : slot'[j].busy => slot[j].busy
      BY Zenon, <1>1, <1>5
    <3>2. \A x \in Addrs : pc[x] \in {"create", "parked", "in"} =>
            loc'[x].slot = loc[x].slot /\ pc'[x] \in {"create", "parked", "in"}
      BY Zenon, <1>2, <1>7
    <3> QED
      BY Zenon, <1>2, <3>1, <3>2, ReservedFrame
  <2>2. GenInv'
    BY Zenon, <1>1, <1>5, <1>6, NcGrown
  <2>3. HolderInv'
    <3>1. holder # i
      BY Zenon, <1>1 DEF HolderInv
    <3> QED
      BY Zenon, <1>2, <1>5, <3>1, HolderFrame DEF TypeOK, OrNone
  <2>4. OwnInv'
    <3>1. c \in Bases => c \in refs
      BY Zenon, <1>1, AdoptPoolAssumption DEF Mine, OwnInv
    <3>2. \A b \in Bases \ refs' : nc'[b] = NoCaller
      BY Zenon, <1>2, <1>6, <3>1 DEF OwnInv, Callers
    <3>3. \A x \in Addrs : ~nc'[x].live
      BY Zenon, <1>6 DEF OwnInv, Callers
    <3> QED
      BY Zenon, <1>2, <3>2, <3>3 DEF OwnInv
  <2>5. Counted'
    BY Zenon, <1>2 DEF PoolInv, Counted, Registered, Entries
  <2> QED
    BY Zenon, <2>1, <2>2, <2>3, <2>4, <2>5 DEF PoolInv
<1>13. NoneFreed
  BY Zenon, <1>1, <1>2, <1>5 DEF NoneFreed, Evictable
<1>14. WakeInv'
  <2>1. WakeT(a)'
    BY Zenon, <1>7 DEF WakeT
  <2> QED
    BY Zenon, <1>2, <1>8, <1>9, <1>13, <2>1, OthersSleep DEF WakeInv
<1>15. ASSUME NEW x \in Addrs \ {a} PROVE Spared(x) /\ StillQueued(x)
  <2>1. TaskT(x)
    BY Zenon DEF IInv, TaskInv, TaskT
  <2>2. Spared(x)
    BY Zenon, <1>1, <1>5, <1>9, <2>1, OwnSpares
  <2> QED
    BY Zenon, <1>2, <2>2 DEF StillQueued
<1> QED
  BY Zenon, <1>8, <1>9, <1>11, <1>12, <1>14, <1>15, StepKeeps
=============================================================================
