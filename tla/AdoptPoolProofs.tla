-------------------------- MODULE AdoptPoolProofs ---------------------------
(***************************************************************************)
(* The release of a cached adoption, the sweeps of the tick and the grant  *)
(* of the baton keep the inductive invariant of AdoptPoolLemmas, as the    *)
(* other steps do; so it holds always, and the properties of the pool      *)
(* follow for any number of Tasks, bases, slots, waiters and signal bits.  *)
(***************************************************************************)
EXTENDS AdoptPoolLemmas, FiniteSetTheorems

----------------------------------------------------------------------------
(* A cached adoption given up.                                             *)

(* With a count of zero no one queues.                                     *)
LEMMA NobodyQueues ==
  ASSUME Counting, IInv, waiting = 0, up, NEW x \in Addrs, alive[x]
  PROVE  pc[x] \notin Queueing
<1> TypeOK /\ TaskT(x) /\ Counted
  BY Zenon DEF IInv, TaskInv, TaskT, PoolInv
<1> SUFFICES ASSUME pc[x] \in Queueing PROVE FALSE
  BY Zenon
<1>1. loc[x].idx \in Entries /\ waiters[loc[x].idx].task = x /\ x # None
  BY AdoptPoolAssumption DEF TaskT, PlaceT, QueueT
<1>2. loc[x].idx \in Registered
  BY Zenon, <1>1 DEF Registered
<1>3. Registered \in SUBSET Entries
  BY Zenon DEF Registered
<1> QED
  BY Zenon, <1>2, <1>3 DEF Counted, Counting, EntriesCounted

(* ami_netstack_leave_cached(): the slot turns dormant and whoever waits   *)
(* is woken.                                                               *)
LEMMA LeaveCachedStep ==
  ASSUME Counting, IInv, NEW a \in Addrs, LeaveCached(a)
  PROVE  IInv'
<1> DEFINE c == loc[a].rec
           i == nc[c].thread
<1> TypeOK /\ TaskT(a) /\ PoolInv /\ HolderInv /\ GenInv /\ Reserved /\ OwnInv /\ Counted
  BY Zenon DEF IInv, TaskInv, TaskT, PoolInv
<1>1. UNCHANGED <<up, next, sbTask, owned, refs, lock, alive, stamp, app, upsets, alloc>>
  BY Zenon DEF LeaveCached, baseVars, taskVars
<1>2. /\ slot \in [Slots -> SlotRec] /\ nc \in [Callers -> NcRec]
      /\ pc \in [Addrs -> Places] /\ loc \in [Addrs -> LocRec] /\ NoLoc \in LocRec
      /\ waiters \in [Entries -> EntryRec]
  BY Zenon, Records DEF TypeOK
<1>3. /\ alive[a] /\ pc[a] = "in" /\ c \in Bases /\ Held(c) /\ c \in Callers /\ Mine(a, c)
      /\ i \in Slots /\ i # None /\ loc[a].slot = i /\ nc[c].live /\ lock # a
      /\ slot[i].busy /\ slot[i].pub /\ slot[i].task = a /\ slot[i].run = loc[a].run
      /\ nc[c].sig = loc[a].run /\ c \in owned /\ sbTask[c] = a
  <2>1. alive[a] /\ pc[a] = "in" /\ c \in Bases /\ Held(c)
    BY Zenon DEF LeaveCached
  <2>2. c \in Callers /\ Mine(a, c) /\ nc[c].live /\ c # a
    BY Zenon, <2>1, AdoptPoolAssumption DEF TaskT, PlaceT, Unadopted, Callers
  <2>3. i \in Slots /\ slot[i].busy /\ i # None
    BY Zenon, <1>2, <2>1, <2>2 DEF Held, NcRec, OrNone
  <2>4. /\ loc[a].slot = i /\ slot[i].pub /\ slot[i].task = a /\ slot[i].run = loc[a].run
        /\ nc[c].sig = loc[a].run
    BY Zenon, <2>1 DEF TaskT, AdoptT, Adopted
  <2>5. lock # a
    BY Zenon, <2>1, <2>2 DEF TaskT, LockT, Unadopted
  <2>6. c \in owned /\ sbTask[c] = a
    BY Zenon, <2>2 DEF Mine
  <2> QED
    BY Zenon, <2>1, <2>2, <2>3, <2>4, <2>5, <2>6
<1>4. /\ slot' = [slot EXCEPT ![i].state = "dormant"]
      /\ holder' = IF holder = i THEN None ELSE holder
      /\ nc' = [nc EXCEPT ![c].adopted = FALSE]
      /\ loc' = [loc EXCEPT ![a] = NoLoc]
      /\ pc' = [pc EXCEPT ![a] = "out"]
      /\ WakeOnSuspend
  BY Zenon DEF LeaveCached, Goto
<1> HIDE DEF i, c
<1>5. /\ \A j \in Slots \ {i} : slot'[j] = slot[j]
      /\ slot' \in [Slots -> SlotRec] /\ slot'[i].state = "dormant"
      /\ slot'[i].busy /\ slot'[i].gen = slot[i].gen /\ slot'[i].pub
      /\ slot'[i].task = a /\ slot'[i].run = slot[i].run
  <2>1. PICK r : r = [slot[i] EXCEPT !.state = "dormant"]
    BY Zenon
  <2>2. slot' = [slot EXCEPT ![i] = r]
    BY Zenon, <1>2, <1>3, <1>4, <2>1
  <2>3. slot[i] \in SlotRec
    BY Zenon, <1>2, <1>3
  <2>4. /\ r \in SlotRec /\ r.state = "dormant" /\ r.busy /\ r.gen = slot[i].gen /\ r.pub
        /\ r.task = a /\ r.run = slot[i].run
    BY ZenonT(40), <1>3, <2>1, <2>3 DEF SlotRec
  <2> QED
    BY Zenon, <1>2, <1>3, <2>2, <2>4
<1>6. /\ \A d \in Callers \ {c} : nc'[d] = nc[d]
      /\ nc' \in [Callers -> NcRec] /\ nc'[c].live /\ nc'[c].gen = nc[c].gen
      /\ nc'[c].thread = nc[c].thread /\ nc'[c].sig = nc[c].sig
  <2>1. PICK r : r = [nc[c] EXCEPT !.adopted = FALSE]
    BY Zenon
  <2>2. nc' = [nc EXCEPT ![c] = r]
    BY Zenon, <1>2, <1>3, <1>4, <2>1
  <2>3. nc[c] \in NcRec
    BY Zenon, <1>2, <1>3
  <2>4. /\ r \in NcRec /\ r.live /\ r.gen = nc[c].gen
        /\ r.thread = nc[c].thread /\ r.sig = nc[c].sig
    BY Zenon, <1>3, <2>1, <2>3 DEF NcRec
  <2> QED
    BY Zenon, <1>2, <1>3, <2>2, <2>4
<1>7. /\ pc'[a] = "out" /\ loc'[a] = NoLoc
      /\ pc' \in [Addrs -> Places] /\ loc' \in [Addrs -> LocRec]
      /\ \A x \in Addrs \ {a} : pc'[x] = pc[x] /\ loc'[x] = loc[x]
  BY Zenon, <1>2, <1>4 DEF Places
<1>8. waiting = TableCount(waiters) /\ FALSE \in BOOLEAN
  BY Zenon DEF Counted, Registered, TableCount
<1>9. \/ Scan(waiters, waiting, alloc, FALSE)
      \/ waiting = 0 /\ UNCHANGED <<waiters, waiting, wsig>>
  BY Zenon, <1>4 DEF WakeOnSuspend, NoScan
<1>10. /\ waiters' \in [Entries -> EntryRec] /\ waiting' \in 0..NWaiters
       /\ wsig' \in [Addrs -> BOOLEAN] /\ Counted'
  <2>1. CASE Scan(waiters, waiting, alloc, FALSE)
    BY Zenon, <1>2, <1>8, <2>1, ScanEffect
  <2>2. CASE UNCHANGED <<waiters, waiting, wsig>>
    <3>1. waiting \in 0..NWaiters /\ wsig \in [Addrs -> BOOLEAN]
      BY Zenon DEF TypeOK
    <3> QED
      BY Zenon, <1>2, <2>2, <3>1 DEF Counted, Registered, Entries
  <2> QED
    BY Zenon, <1>9, <2>1, <2>2
<1>11. holder' \in OrNone(Slots) /\ holder' # i /\ (holder' = holder \/ holder' = None)
  BY Zenon, <1>3, <1>4 DEF TypeOK, OrNone
<1>12. TypeOK'
  BY Zenon, <1>1, <1>5, <1>6, <1>7, <1>10, <1>11 DEF TypeOK, SlotRec, NcRec, LocRec, EntryRec
<1>13. Acts(a)
  BY ZenonT(40), <1>1, <1>3, <1>6, <1>7 DEF Acts, TypeOK
<1>14. /\ Cached(a)' = Cached(a) \cup {c} /\ c \notin Cached(a)
       /\ \A b \in Cached(a) : b \in Callers /\ nc'[b] = nc[b]
  <2>1. \A b \in Cached(a) : b # c /\ b \in Callers
    BY Zenon, <1>3, CachedCallers DEF Cached, c
  <2>2. \A b \in owned : b \in Callers /\ b # NoLoc.rec
    BY Zenon, AdoptPoolAssumption DEF TypeOK, Callers, NoLoc
  <2>3. \A b \in owned : b \in Cached(a)' <=> b \in Cached(a) \/ b = c
    <3>1. \A b \in owned : b \in Cached(a) <=> sbTask[b] = a /\ nc[b].live /\ b # c
      BY Zenon, <1>3 DEF Cached, c
    <3>2. \A b \in owned : b \in Cached(a)' <=> sbTask[b] = a /\ nc'[b].live
      BY Zenon, <1>1, <1>7, <2>2 DEF Cached
    <3> QED
      BY ZenonT(40), <1>3, <1>6, <2>2, <3>1, <3>2
  <2>4. Cached(a)' \subseteq owned /\ Cached(a) \subseteq owned
    BY Zenon, <1>1 DEF Cached
  <2> QED
    BY Zenon, <1>3, <1>6, <2>1, <2>3, <2>4
<1>15. TaskT(a)'
  <2>1. LockT(a)' /\ QueueT(a)' /\ AdoptT(a)'
    BY <1>1, <1>3, <1>7 DEF LockT, QueueT, AdoptT, Unadopted, Queueing, Adopted, NoLoc
  <2>2. PlaceT(a)'
    BY <1>1, <1>3, <1>7, AdoptPoolAssumption DEF PlaceT, Unadopted, Queueing, Adopted, NoLoc
  <2>3. HandleT(a)'
    <3>1. ASSUME NEW b \in Cached(a), Held(b)'
          PROVE  Held(b) /\ slot'[nc[b].thread] = slot[nc[b].thread]
      <4>1. b \in Callers /\ nc'[b] = nc[b] /\ b # c
        BY Zenon, <1>14
      <4>2. nc[b].thread \in Slots
        BY Zenon, <1>2, <3>1, <4>1 DEF Held, NcRec, OrNone
      <4>3. Held(b)
        BY SMTT(30), <1>3, <1>5, <3>1, <4>1, <4>2 DEF Held
      <4>4. nc[b].thread # i
        BY Zenon, <1>3, <4>1, <4>3, HeldDistinct DEF i
      <4> QED
        BY Zenon, <1>5, <4>2, <4>3, <4>4
    <3>2. ASSUME NEW b \in Cached(a), Held(b)'
          PROVE  /\ slot'[nc'[b].thread].pub /\ slot'[nc'[b].thread].task = a
                 /\ slot'[nc'[b].thread].state = "dormant"
                 /\ slot'[nc'[b].thread].run = nc'[b].sig
      BY <1>3, <1>14, <3>1, <3>2 DEF TaskT, HandleT
    <3>3. /\ slot'[nc'[c].thread].pub /\ slot'[nc'[c].thread].task = a
          /\ slot'[nc'[c].thread].state = "dormant"
          /\ slot'[nc'[c].thread].run = nc'[c].sig
      BY Zenon, <1>3, <1>5, <1>6 DEF i
    <3> QED
      BY Zenon, <1>14, <3>2, <3>3 DEF HandleT
  <2>4. BitT(a)'
    <3>1. BitT(a) /\ nc'[c].sig = loc[a].run /\ alloc'[a] = alloc[a] /\ app'[a] = app[a]
      BY Zenon, <1>1, <1>3, <1>6 DEF TaskT
    <3>2. pc[a] \in Running /\ pc[a] \notin Waiting /\ pc'[a] \notin Running /\ pc'[a] \notin Waiting
      BY Zenon, <1>3, <1>7 DEF Running, Waiting, Queueing, Adopted
    <3>3. \A s \in Bits :
            s \in alloc[a] <=> s \in app[a] \/ \E b \in Cached(a)' : s = nc'[b].sig
      BY SMTT(30), <1>3, <1>14, <3>1, <3>2 DEF BitT
    <3>4. /\ \A b \in Cached(a)' : nc'[b].sig \in Bits \ app[a]
          /\ \A b, d \in Cached(a)' : b # d => nc'[b].sig # nc'[d].sig
      <4>1. /\ \A b \in Cached(a) : nc[b].sig \in Bits \ app[a] /\ nc[b].sig # loc[a].run
            /\ \A b, d \in Cached(a) : b # d => nc[b].sig # nc[d].sig
            /\ loc[a].run \in Bits \ app[a]
        BY Zenon, <1>3, <3>1, <3>2 DEF BitT
      <4> QED
        BY ZenonT(40), <1>14, <3>1, <4>1
    <3> QED
      BY Zenon, <3>1, <3>2, <3>3, <3>4 DEF BitT, Bits, Running, Waiting
  <2> QED
    BY Zenon, <2>1, <2>2, <2>3, <2>4 DEF TaskT
<1>16. PoolInv'
  <2>1. Reserved'
    <3>1. \A j \in Slots : slot'[j].busy => slot[j].busy
      BY Zenon, <1>3, <1>5
    <3> QED
      BY Zenon, <1>1, <1>3, <1>7, <3>1, ReservedFrame
  <2>2. GenInv'
    <3>1. \A j \in Slots : slot'[j].busy =>
            slot[j].busy /\ slot'[j].gen = slot[j].gen /\ (slot[j].pub => slot'[j].pub)
      BY Zenon, <1>3, <1>5
    <3>2. \A d \in Callers : nc'[d].gen = nc[d].gen
      BY Zenon, <1>6
    <3> QED
      BY Zenon, <3>1, <3>2, GenFrame
  <2>3. HolderInv'
    BY Zenon, <1>5, <1>11, HolderFrame DEF OrNone
  <2>4. OwnInv'
    <3>1. c \in refs
      BY Zenon, <1>3 DEF OwnInv
    <3>2. \A x \in Addrs : x # c
      BY Zenon, <1>3, AdoptPoolAssumption
    <3>3. \A d \in Callers \ {c} : nc'[d] = nc[d]
      BY Zenon, <1>6
    <3> QED
      BY Zenon, <1>1, <3>1, <3>2, <3>3 DEF OwnInv, Callers
  <2> QED
    BY Zenon, <1>10, <2>1, <2>2, <2>3, <2>4 DEF PoolInv
<1>17. ASSUME NEW x \in Addrs \ {a} PROVE Spared(x) /\ StillQueued(x) /\ WakeT(x)'
  <2>1. TaskT(x)
    BY Zenon DEF IInv, TaskInv, TaskT
  <2>2. Spared(x)
    BY ZenonT(40), <1>3, <1>5, <1>13, <2>1, OwnSpares
  <2>3. CASE Scan(waiters, waiting, alloc, FALSE)
    BY Zenon, <1>2, <1>8, <1>13, <2>2, <2>3, OthersWoken
  <2>4. CASE waiting = 0 /\ UNCHANGED <<waiters, waiting, wsig>>
    <3>1. alive[x] /\ up => pc[x] \notin Queueing
      BY Zenon, <2>4, NobodyQueues
    <3>2. alive'[x] = alive[x] /\ pc'[x] = pc[x] /\ up' = up
      BY Zenon, <1>1, <1>7
    <3>3. WakeT(x)'
      BY Zenon, <3>1, <3>2 DEF WakeT, Available, Queueing
    <3> QED
      BY Zenon, <2>2, <2>4, <3>3 DEF StillQueued
  <2> QED
    BY Zenon, <1>9, <2>3, <2>4
<1>18. WakeInv'
  <2>1. WakeT(a)'
    BY Zenon, <1>7 DEF WakeT
  <2> QED
    BY Zenon, <1>17, <2>1 DEF WakeInv
<1> QED
  BY Zenon, <1>12, <1>13, <1>15, <1>16, <1>17, <1>18, StepKeeps

----------------------------------------------------------------------------
(* The tick, and the baton.                                                *)

(* The tick's sweeps release no slot that a live Task uses.                *)
LEMMA SweepSpares ==
  ASSUME IInv, NEW x \in Addrs, alive[x],
         pc[x] \in {"unreg", "create"} \cup Adopted, loc[x].slot # None,
         NEW swept \in SUBSET DeadBases
  PROVE  LET i == loc[x].slot IN
         /\ ~(i = holder /\ TaskDead(i)) /\ ~Unclaimed(i)
         /\ \A b \in swept : Held(b) => nc[b].thread # i
<1> DEFINE i == loc[x].slot
           c == loc[x].rec
<1> TypeOK /\ TaskT(x) /\ GenInv /\ HolderInv /\ OwnInv
  BY Zenon DEF IInv, TaskInv, TaskT, PoolInv
<1>1. i \in Slots
  BY Zenon, Records DEF LocRec, OrNone
<1>2. \A b \in swept : b \in Bases /\ b \in Callers /\ b \notin owned
  BY Zenon DEF OwnInv, DeadBases, Callers
<1>3. CASE pc[x] \in {"unreg", "create"}
  <2>1. slot[i].busy /\ ~slot[i].pub /\ slot[i].claimer = x /\ slot[i].cstamp = stamp[x]
    BY Zenon, <1>3 DEF TaskT, AdoptT
  <2>2. i # holder
    BY Zenon, <1>1, <2>1, AdoptPoolAssumption DEF HolderInv
  <2>3. ~Unclaimed(i)
    BY Zenon, <2>1 DEF Unclaimed
  <2>4. \A b \in swept : Held(b) => nc[b].thread # i
    BY Zenon, <1>1, <1>2, <2>1 DEF GenInv, Held
  <2> QED
    BY Zenon, <2>2, <2>3, <2>4
<1>4. CASE pc[x] \in Adopted
  <2>1. /\ nc[c].thread = i /\ Held(c) /\ slot[i].pub /\ slot[i].task = x
        /\ slot[i].tstamp = stamp[x] /\ slot[i].run = loc[x].run
    BY Zenon, <1>4 DEF TaskT, AdoptT
  <2>2. Mine(x, c) /\ c \in Callers
    <3>1. Mine(x, c)
      BY Zenon, <1>4 DEF TaskT, PlaceT, Adopted, Unadopted
    <3> QED
      BY Zenon, <3>1 DEF Mine, Callers, TypeOK
  <2>3. loc[x].run \in alloc[x]
    BY Zenon, <1>4 DEF TaskT, BitT, Running
  <2>4. ~TaskDead(i) /\ ~Unclaimed(i)
    BY Zenon, <2>1, <2>3 DEF TaskDead, Unclaimed
  <2>5. ASSUME NEW b \in swept, Held(b), nc[b].thread = i PROVE FALSE
    <3>1. b = c
      BY Zenon, <1>2, <2>1, <2>2, <2>5, HeldDistinct
    <3> QED
      BY Zenon, <1>2, <2>2, <3>1, AdoptPoolAssumption DEF Mine
  <2> QED
    BY Zenon, <2>4, <2>5
<1> QED
  BY Zenon, <1>3, <1>4

(* The tick's second, whether or not bsd_task_sweep() got sb_Lock.         *)
LEMMA SecondStep ==
  ASSUME Counting, IInv, NEW swept \in SUBSET DeadBases, Second(swept)
  PROVE  IInv'
<1> DEFINE dead == {i \in Slots : i = holder /\ TaskDead(i)}
           thrs == {nc[b].thread : b \in {c \in swept : nc[c].live /\ Held(c)}}
           gone == dead \cup {i \in Slots : Unclaimed(i)} \cup thrs
<1> TypeOK /\ PoolInv /\ GenInv /\ HolderInv /\ OwnInv /\ Reserved /\ Counted
  BY Zenon DEF IInv, PoolInv
<1>1. /\ up /\ loc' = loc /\ ReleaseSlots(gone)
      /\ holder' = IF holder \in gone THEN None ELSE holder
      /\ nc' = [c \in Callers |-> IF c \in swept THEN NoCaller ELSE nc[c]]
      /\ sbTask' = [b \in Bases |-> IF b \in swept THEN None ELSE sbTask[b]]
      /\ UNCHANGED <<up, next, owned, refs, lock, alloc, pc, alive, stamp, app, upsets>>
  BY Zenon DEF Second, taskVars
<1>2. \A x \in Addrs : alive[x] /\ pc[x] \in {"unreg", "create"} \cup Adopted /\ loc[x].slot # None
                        => loc[x].slot \notin gone
  BY Zenon, SweepSpares
<1> HIDE DEF gone
<1>3. /\ \A j \in Slots : (slot'[j] = slot[j] /\ j \notin gone)
                          \/ (slot'[j] = FreeSlot /\ j \in gone)
      /\ slot' \in [Slots -> SlotRec] /\ ~FreeSlot.busy
      /\ Scan(waiters, waiting, alloc, FALSE)
  BY Zenon, <1>1, Records DEF ReleaseSlots, FreeSlot
<1>4. waiting = TableCount(waiters) /\ FALSE \in BOOLEAN /\ waiters \in [Entries -> EntryRec]
  BY Zenon, Records DEF Counted, Registered, TableCount
<1>5. /\ waiters' \in [Entries -> EntryRec] /\ waiting' \in 0..NWaiters
      /\ wsig' \in [Addrs -> BOOLEAN] /\ Counted'
  BY Zenon, <1>3, <1>4, ScanEffect
<1>6. \A b \in swept : b \in Bases /\ b \notin owned
  BY Zenon DEF OwnInv, DeadBases
<1>7. nc' \in [Callers -> NcRec] /\ sbTask' \in [Bases -> OrNone(Addrs)]
      /\ holder' \in OrNone(Slots)
  BY Zenon, <1>1, Records DEF TypeOK, OrNone
<1>8. TypeOK'
  BY Zenon, <1>1, <1>3, <1>5, <1>7, Records DEF TypeOK, SlotRec, NcRec, EntryRec
<1>9. ASSUME NEW x \in Addrs PROVE TaskT(x)' /\ WakeT(x)'
  <2>1. TaskT(x)
    BY Zenon DEF IInv, TaskInv, TaskT
  <2>2. Untouched(x)
    <3>1. \A c \in Callers : Mine(x, c) => nc'[c] = nc[c]
      <4>1. \A c \in Callers : Mine(x, c) => c \notin swept
        BY Zenon, <1>6, AdoptPoolAssumption DEF Mine
      <4> QED
        BY Zenon, <1>1, <4>1
    <3>2. \A b \in owned : sbTask'[b] = sbTask[b]
      BY Zenon, <1>1, <1>6 DEF TypeOK
    <3>3. \A b \in Bases : (b \in owned' /\ sbTask'[b] = x) <=> (b \in owned /\ sbTask[b] = x)
      BY Zenon, <1>1, <3>2
    <3>4. owned' \subseteq Bases
      BY Zenon, <1>1 DEF TypeOK
    <3> QED
      BY Zenon, <1>1, <3>1, <3>3, <3>4 DEF Untouched
  <2>3. Spared(x)
    <3>1. ASSUME alive[x], pc[x] \in {"unreg", "create"} \cup Adopted, loc[x].slot # None
          PROVE  slot'[loc[x].slot] = slot[loc[x].slot]
      <4>1. loc[x].slot \in Slots
        BY Zenon, <3>1, Records DEF LocRec, OrNone
      <4> QED
        BY Zenon, <1>2, <1>3, <3>1, <4>1
    <3>2. ASSUME NEW b \in Cached(x), Held(b)'
          PROVE  slot'[nc[b].thread] = slot[nc[b].thread]
      <4>1. b \in Callers /\ Mine(x, b)
        BY Zenon DEF Cached, TypeOK, Callers, Mine
      <4>2. nc'[b] = nc[b] /\ nc[b] \in NcRec
        BY Zenon, <2>2, <4>1, Records DEF Untouched
      <4>3. nc[b].thread \in Slots /\ slot'[nc[b].thread].busy
        BY Zenon, <3>2, <4>2 DEF Held, NcRec, OrNone
      <4> QED
        BY Zenon, <1>3, <4>3
    <3> QED
      BY Zenon, <3>1, <3>2 DEF Spared
  <2>4. CASE alive[x] /\ pc[x] \in Queueing
    <3>1. waiters'[loc[x].idx] = waiters[loc[x].idx] /\ wsig'[x]
      BY Zenon, <1>1, <1>3, <1>4, <2>1, <2>4, ScanWakes
    <3>2. StillQueued(x) /\ WakeT(x)'
      BY Zenon, <3>1 DEF StillQueued, WakeT
    <3> QED
      BY Zenon, <2>1, <2>2, <2>3, <3>2, OtherTask
  <2>5. CASE ~(alive[x] /\ pc[x] \in Queueing)
    <3>1. StillQueued(x) /\ WakeT(x)'
      BY Zenon, <1>1, <2>5 DEF StillQueued, WakeT, Queueing
    <3> QED
      BY Zenon, <2>1, <2>2, <2>3, <3>1, OtherTask
  <2> QED
    BY Zenon, <2>4, <2>5
<1>10. PoolInv'
  <2>1. Reserved'
    BY Zenon, <1>1, <1>3, ReservedFrame
  <2>2. GenInv'
    <3>1. \A j \in Slots : slot'[j].busy =>
            slot[j].busy /\ slot'[j].gen = slot[j].gen /\ (slot[j].pub => slot'[j].pub)
      BY Zenon, <1>3
    <3>2. \A c \in Callers : nc'[c].gen = nc[c].gen \/ nc'[c].gen = 0
      BY Zenon, <1>1 DEF NoCaller
    <3> QED
      BY Zenon, <3>1, <3>2, GenFrame
  <2>3. HolderInv'
    BY Zenon, <1>1, <1>3, HolderFrame DEF TypeOK, OrNone
  <2>4. OwnInv'
    <3>1. \A b \in owned : sbTask'[b] = sbTask[b]
      BY Zenon, <1>1, <1>6 DEF TypeOK
    <3>2. \A c \in Callers : nc'[c] = nc[c] \/ nc'[c] = NoCaller
      BY Zenon, <1>1
    <3> QED
      BY Zenon, <1>1, <3>1, <3>2 DEF OwnInv, Callers, NoCaller
  <2> QED
    BY Zenon, <1>5, <2>1, <2>2, <2>3, <2>4 DEF PoolInv
<1>11. TaskInv' /\ WakeInv'
  BY Zenon, <1>9 DEF TaskInv, TaskT, WakeInv
<1> QED
  BY Zenon, <1>8, <1>10, <1>11 DEF IInv

(* A ready thread is a published one.                                      *)
ReadyInv == \A i \in Slots : slot[i].state = "ready" => slot[i].busy /\ slot[i].pub

(* The baton is granted.                                                   *)
LEMMA GrantStep ==
  ASSUME IInv, ReadyInv, NEW i \in Slots, Grant(i)
  PROVE  IInv'
<1> DEFINE who == {a \in Addrs : pc[a] \in {"parked", "relparked"} /\ loc[a].slot = i}
           mark == slot[i].cached \/ \E a \in who : loc[a].rec \in Bases
<1> TypeOK /\ PoolInv /\ GenInv /\ HolderInv /\ OwnInv /\ Reserved /\ Counted
  BY Zenon DEF IInv, PoolInv
<1>1. /\ holder = None /\ slot[i].state = "ready" /\ holder' = i
      /\ pc' = [a \in Addrs |-> IF a \notin who THEN pc[a]
                                ELSE IF pc[a] = "parked" THEN "in" ELSE "relin"]
      /\ nc' = [c \in Callers |->
           IF \E a \in who : pc[a] = "parked" /\ loc[a].rec = c
           THEN [nc[c] EXCEPT !.adopted = TRUE,
                              !.sig = IF c \in Bases THEN slot[i].run ELSE None]
           ELSE nc[c]]
      /\ slot' = [slot EXCEPT ![i].cached = mark]
      /\ UNCHANGED <<waiters, waiting, wsig, up, next, sbTask, owned, refs, lock, alloc, loc,
                     alive, stamp, app, upsets>>
  BY Zenon DEF Grant, NoScan, baseVars, taskVars
<1>2. /\ slot \in [Slots -> SlotRec] /\ nc \in [Callers -> NcRec]
      /\ pc \in [Addrs -> Places] /\ loc \in [Addrs -> LocRec]
  BY Zenon, Records DEF TypeOK
<1>3. /\ slot' \in [Slots -> SlotRec]
      /\ \A j \in Slots : /\ slot'[j].busy <=> slot[j].busy
                          /\ slot'[j].pub <=> slot[j].pub
                          /\ slot'[j].gen = slot[j].gen /\ slot'[j].claimer = slot[j].claimer
                          /\ slot'[j].cstamp = slot[j].cstamp /\ slot'[j].task = slot[j].task
                          /\ slot'[j].run = slot[j].run /\ slot'[j].tstamp = slot[j].tstamp
                          /\ slot'[j].state = slot[j].state
      /\ \A j \in Slots \ {i} : slot'[j] = slot[j]
  <2>1. PICK r : r = [slot[i] EXCEPT !.cached = mark]
    BY Zenon
  <2>2. slot' = [slot EXCEPT ![i] = r]
    BY Zenon, <1>1, <1>2, <2>1
  <2>3. slot[i] \in SlotRec /\ mark \in BOOLEAN
    <3>1. slot[i] \in SlotRec
      BY Zenon, <1>2
    <3>2. slot[i].cached \in BOOLEAN
      BY Zenon, <3>1 DEF SlotRec
    <3> QED
      BY Zenon, <3>1, <3>2
  <2> HIDE DEF mark
  <2>4. /\ r \in SlotRec /\ (r.busy <=> slot[i].busy) /\ (r.pub <=> slot[i].pub)
        /\ r.gen = slot[i].gen /\ r.claimer = slot[i].claimer /\ r.cstamp = slot[i].cstamp
        /\ r.task = slot[i].task /\ r.run = slot[i].run /\ r.tstamp = slot[i].tstamp
        /\ r.state = slot[i].state
    BY Zenon, <2>1, <2>3 DEF SlotRec
  <2> QED
    BY Zenon, <1>2, <2>2, <2>4
<1>4. \A a \in who : Mine(a, loc[a].rec) /\ loc[a].rec \in Callers /\ alive[a]
                     /\ slot[i].run = loc[a].run
  <2> SUFFICES ASSUME NEW a \in who
               PROVE  Mine(a, loc[a].rec) /\ loc[a].rec \in Callers /\ alive[a]
                      /\ slot[i].run = loc[a].run
    BY Zenon
  <2>1. TaskT(a) /\ pc[a] \in {"parked", "relparked"} /\ loc[a].slot = i
    BY Zenon DEF IInv, TaskInv, TaskT
  <2>2. alive[a] /\ Mine(a, loc[a].rec)
    BY Zenon, <2>1 DEF TaskT, PlaceT, Unadopted
  <2>3. slot[i].run = loc[a].run
    BY Zenon, <2>1, <2>2 DEF TaskT, AdoptT, Adopted
  <2> QED
    BY Zenon, <2>2, <2>3 DEF Mine, Callers, TypeOK
<1>5. /\ nc' \in [Callers -> NcRec]
      /\ \A c \in Callers : /\ nc'[c].live <=> nc[c].live
                            /\ nc'[c].thread = nc[c].thread /\ nc'[c].gen = nc[c].gen
      /\ \A c \in Callers : (~\E a \in who : pc[a] = "parked" /\ loc[a].rec = c) => nc'[c] = nc[c]
      /\ \A a \in who : pc[a] = "parked" /\ loc[a].rec \in Bases
                         => nc'[loc[a].rec].sig = slot[i].run
  <2> DEFINE hit(c) == \E a \in who : pc[a] = "parked" /\ loc[a].rec = c
             g(c) == IF c \in Bases THEN slot[i].run ELSE None
             new(c) == [[nc[c] EXCEPT !.adopted = TRUE] EXCEPT !.sig = g(c)]
  <2>1. \A c \in Callers : g(c) \in OrNone(Bits)
    BY Zenon, <1>2 DEF SlotRec, OrNone
  <2>2. \A c \in Callers : (hit(c) => nc'[c] = new(c)) /\ (~hit(c) => nc'[c] = nc[c])
    BY Zenon, <1>1
  <2>3. nc' = [c \in Callers |-> nc'[c]]
    BY Zenon, <1>1
  <2> HIDE DEF who, g, hit
  <2>4. \A c \in Callers : /\ new(c) \in NcRec /\ (new(c).live <=> nc[c].live)
                           /\ new(c).thread = nc[c].thread /\ new(c).gen = nc[c].gen
                           /\ new(c).sig = g(c)
    BY Zenon, <1>2, <2>1 DEF NcRec
  <2> HIDE DEF new
  <2>5. \A c \in Callers : nc'[c] \in NcRec
    BY Zenon, <1>2, <2>2, <2>4
  <2>6. nc' \in [Callers -> NcRec]
    BY Zenon, <2>3, <2>5
  <2>7. \A c \in Callers : /\ nc'[c].live <=> nc[c].live
                           /\ nc'[c].thread = nc[c].thread /\ nc'[c].gen = nc[c].gen
    BY Zenon, <2>2, <2>4
  <2>8. \A a \in who : pc[a] = "parked" /\ loc[a].rec \in Bases
                         => nc'[loc[a].rec].sig = slot[i].run
    BY Zenon, <1>4, <2>2, <2>4 DEF hit, g
  <2> QED
    BY Zenon, <2>2, <2>6, <2>7, <2>8 DEF hit
<1>6. /\ pc' \in [Addrs -> Places]
      /\ \A x \in Addrs : \/ x \notin who /\ pc'[x] = pc[x]
                          \/ x \in who /\ pc[x] = "parked" /\ pc'[x] = "in"
                          \/ x \in who /\ pc[x] = "relparked" /\ pc'[x] = "relin"
  BY Zenon, <1>1, <1>2 DEF Places, Adopted
<1>7. \A a \in who : a \in Addrs
  BY Zenon
<1> HIDE DEF who, mark
<1>8. TypeOK'
  BY Zenon, <1>1, <1>3, <1>5, <1>6 DEF TypeOK, SlotRec, NcRec, OrNone
<1>9. \A c \in Callers : Held(c)' <=> Held(c)
  <2>1. ASSUME NEW c \in Callers PROVE Held(c)' <=> Held(c)
    <3>1. nc'[c].thread = nc[c].thread /\ nc'[c].gen = nc[c].gen /\ nc[c].thread \in OrNone(Slots)
      BY Zenon, <1>2, <1>5 DEF NcRec
    <3>2. CASE nc[c].thread = None
      BY Zenon, <3>1, <3>2 DEF Held
    <3>3. CASE nc[c].thread \in Slots
      BY ZenonT(40), <1>3, <3>1, <3>3 DEF Held
    <3> QED
      BY Zenon, <3>1, <3>2, <3>3 DEF OrNone
  <2> QED
    BY Zenon, <2>1
<1>10. ASSUME NEW x \in Addrs PROVE TaskT(x)'
  <2>1. TaskT(x) /\ x \in Callers /\ loc[x] \in LocRec
    BY Zenon, <1>2 DEF IInv, TaskInv, TaskT, Callers
  <2>2. \A c \in Callers : Mine(x, c) /\ ~(pc[x] = "parked" /\ loc[x].rec = c) => nc'[c] = nc[c]
    <3> SUFFICES ASSUME NEW c \in Callers, Mine(x, c), ~(pc[x] = "parked" /\ loc[x].rec = c),
                        NEW a \in who, pc[a] = "parked", loc[a].rec = c
                 PROVE  FALSE
      BY Zenon, <1>5
    <3>1. a # x /\ Mine(a, c)
      BY Zenon, <1>4
    <3> QED
      BY Zenon, <1>7, <3>1, MineApart
  <2>3. /\ Cached(x)' = Cached(x)
        /\ \A b \in Cached(x) : b \in Callers /\ nc'[b] = nc[b] /\ (Held(b)' <=> Held(b))
    <3>1. \A b \in Cached(x) : b \in Callers /\ Mine(x, b) /\ ~(pc[x] = "parked" /\ loc[x].rec = b)
      BY Zenon DEF Cached, TypeOK, Callers, Mine
    <3>2. \A b \in owned : b \in Callers
      BY Zenon DEF TypeOK, Callers
    <3>3. pc'[x] = "resume" <=> pc[x] = "resume"
      BY Zenon, <1>6
    <3>4. \A b \in owned : b \in Cached(x)' <=> b \in Cached(x)
      BY Zenon, <1>1, <1>5, <3>2, <3>3 DEF Cached
    <3>5. Cached(x)' \subseteq owned /\ Cached(x) \subseteq owned
      BY Zenon, <1>1 DEF Cached
    <3> QED
      BY Zenon, <1>9, <2>2, <3>1, <3>4, <3>5
  <2>4. LockT(x)' /\ QueueT(x)'
    BY Zenon, <1>1, <1>6, <2>1 DEF TaskT, LockT, QueueT, Queueing, Unadopted
  <2>5. PlaceT(x)'
    <3>1. loc[x].rec \in Bases => (nc'[loc[x].rec].live <=> nc[loc[x].rec].live)
      BY Zenon, <1>5 DEF Callers
    <3>2. Mine(x, loc[x].rec)' <=> Mine(x, loc[x].rec)
      BY Zenon, <1>1 DEF Mine
    <3>3. PlaceT(x) /\ loc'[x] = loc[x] /\ alive'[x] = alive[x] /\ up' = up
      BY Zenon, <1>1, <2>1 DEF TaskT
    <3>4. CASE pc'[x] = pc[x]
      BY Zenon, <3>1, <3>2, <3>3, <3>4 DEF PlaceT
    <3>5. CASE (pc[x] = "parked" /\ pc'[x] = "in") \/ (pc[x] = "relparked" /\ pc'[x] = "relin")
      BY Zenon, <3>1, <3>2, <3>3, <3>5 DEF PlaceT, Unadopted, Queueing, Adopted
    <3> QED
      BY Zenon, <1>6, <3>4, <3>5
  <2>6. AdoptT(x)'
    <3> DEFINE s == loc[x].slot
               c == loc[x].rec
    <3>1. /\ s' = s /\ c' = c /\ alive'[x] = alive[x] /\ stamp'[x] = stamp[x]
          /\ loc'[x].run = loc[x].run
      BY Zenon, <1>1
    <3>2. CASE ~alive[x] \/ pc[x] \notin {"unreg", "create"} \cup Adopted
      BY Zenon, <1>6, <3>1, <3>2 DEF AdoptT, Adopted
    <3>3. CASE alive[x] /\ pc[x] \in {"unreg", "create"}
      <4>1. pc'[x] = pc[x] /\ s \in OrNone(Slots)
        BY Zenon, <1>6, <2>1, <3>3 DEF LocRec
      <4>2. s # None => /\ slot[s].busy /\ ~slot[s].pub /\ slot[s].claimer = x
                        /\ slot[s].cstamp = stamp[x]
        BY Zenon, <2>1, <3>3 DEF TaskT, AdoptT
      <4>3. s # None => /\ slot'[s].busy /\ ~slot'[s].pub /\ slot'[s].claimer = x
                        /\ slot'[s].cstamp = stamp[x]
        BY Zenon, <1>3, <4>1, <4>2 DEF OrNone
      <4> QED
        BY Zenon, <3>1, <3>3, <4>1, <4>3 DEF AdoptT, Adopted
    <3>4. CASE alive[x] /\ pc[x] \in Adopted
      <4>1. /\ pc'[x] \in Adopted /\ s \in Slots /\ c \in Callers /\ Mine(x, c)
        <5>1. pc'[x] \in Adopted
          BY Zenon, <1>6, <3>4 DEF Adopted
        <5>2. Mine(x, c) /\ s \in Slots
          BY Zenon, <2>1, <3>4 DEF TaskT, PlaceT, Adopted, Unadopted
        <5> QED
          BY Zenon, <5>1, <5>2 DEF Mine, Callers, TypeOK
      <4>2. /\ nc[c].thread = s /\ Held(c)
            /\ slot[s].pub /\ slot[s].task = x /\ slot[s].state = "ready"
            /\ slot[s].tstamp = stamp[x] /\ slot[s].run = loc[x].run
            /\ pc[x] = "in" /\ c \in Bases => nc[c].sig = loc[x].run
        BY Zenon, <2>1, <3>4 DEF TaskT, AdoptT
      <4>3. /\ nc'[c].thread = s /\ slot'[s].pub /\ slot'[s].task = x
            /\ slot'[s].state = "ready" /\ slot'[s].tstamp = stamp[x]
            /\ slot'[s].run = loc[x].run
        BY Zenon, <1>3, <1>5, <4>1, <4>2
      <4>4. Held(c)'
        BY Zenon, <1>9, <3>1, <4>1, <4>2
      <4>5. pc'[x] = "in" /\ c \in Bases => nc'[c].sig = loc[x].run
        <5>1. CASE x \in who /\ pc[x] = "parked"
          BY Zenon, <1>4, <1>5, <5>1
        <5>2. CASE pc'[x] = pc[x]
          BY Zenon, <2>2, <4>1, <4>2, <5>2
        <5> QED
          BY Zenon, <1>6, <5>1, <5>2
      <4> HIDE DEF s, c
      <4>6. /\ pc'[x] \notin {"unreg", "create"} /\ loc'[x].slot = s /\ loc'[x].rec = c
        BY Zenon, <1>1, <4>1 DEF s, c, Adopted
      <4> QED
        BY Zenon, <3>1, <3>4, <4>1, <4>3, <4>4, <4>5, <4>6 DEF AdoptT
    <3> QED
      BY Zenon, <3>2, <3>3, <3>4
  <2>7. HandleT(x)'
    <3>1. ASSUME alive[x], NEW b \in Cached(x), Held(b)
          PROVE  /\ slot'[nc[b].thread].pub /\ slot'[nc[b].thread].task = x
                 /\ slot'[nc[b].thread].state = "dormant"
                 /\ slot'[nc[b].thread].run = nc[b].sig
      <4>1. nc[b].thread \in Slots
        BY ZenonT(40), <1>2, <2>3, <3>1 DEF Held, NcRec, OrNone
      <4> QED
        BY ZenonT(40), <1>3, <2>1, <3>1, <4>1 DEF TaskT, HandleT
    <3>2. alive'[x] = alive[x]
      BY Zenon, <1>1
    <3> QED
      BY ZenonT(40), <2>3, <3>1, <3>2 DEF HandleT
  <2>8. BitT(x)'
    <3>1. (pc'[x] \in Running <=> pc[x] \in Running) /\ (pc'[x] \in Waiting <=> pc[x] \in Waiting)
      BY Zenon, <1>6 DEF Running, Waiting, Queueing, Adopted
    <3>2. \A b \in Cached(x) : nc'[b].sig = nc[b].sig
      BY Zenon, <2>3
    <3>3. BitT(x) /\ Cached(x)' = Cached(x)
      BY Zenon, <2>1, <2>3 DEF TaskT
    <3>4. /\ alloc'[x] = alloc[x] /\ app'[x] = app[x] /\ alive'[x] = alive[x]
          /\ loc'[x] = loc[x]
      BY Zenon, <1>1
    <3> QED
      BY Zenon, <3>1, <3>2, <3>3, <3>4, BitKept
  <2> QED
    BY Zenon, <2>4, <2>5, <2>6, <2>7, <2>8 DEF TaskT
<1>11. PoolInv'
  <2>1. Reserved'
    <3>1. \A x \in Addrs : pc[x] \in {"create", "parked", "in"}
             => pc'[x] \in {"create", "parked", "in"}
      BY Zenon, <1>6
    <3> QED
      BY Zenon, <1>1, <1>3, <3>1, ReservedFrame
  <2>2. GenInv'
    BY Zenon, <1>3, <1>5, GenFrame
  <2>3. HolderInv'
    BY Zenon, <1>1, <1>3 DEF HolderInv, ReadyInv
  <2>4. OwnInv'
    <3>1. ASSUME NEW b \in Bases \ refs PROVE nc'[b] = NoCaller
      <4>1. ~\E a \in who : pc[a] = "parked" /\ loc[a].rec = b
        BY <1>4, <1>7, AdoptPoolAssumption DEF Mine, OwnInv
      <4> QED
        BY Zenon, <1>5, <4>1 DEF OwnInv, Callers
    <3>2. \A x \in Addrs : ~nc'[x].live
      BY Zenon, <1>5 DEF OwnInv, Callers
    <3> QED
      BY Zenon, <1>1, <3>1, <3>2 DEF OwnInv
  <2>5. Counted'
    BY Zenon, <1>1 DEF Counted, Registered, Entries
  <2> QED
    BY Zenon, <2>1, <2>2, <2>3, <2>4, <2>5 DEF PoolInv
<1>12. NoneFreed
  <2>1. ASSUME NEW j \in Slots, ~slot'[j].busy \/ Evictable(j)'
        PROVE  ~slot[j].busy \/ Evictable(j)
    <3>1. CASE j = i
      BY Zenon, <1>1, <1>3, <2>1, <3>1 DEF Evictable
    <3>2. CASE j # i
      <4>1. slot'[j] = slot[j] /\ j # None
        BY <1>3, <3>2, AdoptPoolAssumption DEF Slots
      <4> QED
        BY Zenon, <1>1, <2>1, <3>2, <4>1 DEF Evictable
    <3> QED
      BY Zenon, <3>1, <3>2
  <2> QED
    BY Zenon, <1>1, <2>1 DEF NoneFreed
<1>13. WakeInv'
  <2> SUFFICES ASSUME NEW x \in Addrs PROVE WakeT(x)'
    BY Zenon DEF WakeInv
  <2>1. WakeT(x)
    BY Zenon DEF IInv, WakeInv
  <2>2. pc'[x] \in {"test", "waiting"} => pc[x] \in {"test", "waiting"}
    BY Zenon, <1>6
  <2> QED
    BY Zenon, <1>1, <1>8, <1>12, <2>1, <2>2, WakeKept
<1>14. TaskInv'
  BY Zenon, <1>10 DEF TaskInv, TaskT
<1> QED
  BY Zenon, <1>8, <1>11, <1>13, <1>14 DEF IInv

(* The actions that are such moves.                                        *)
LEMMA MoveSteps ==
  ASSUME IInv, NEW a \in Addrs,
         LeaveGuest(a) \/ Test(a) \/ WaitWake(a) \/ Break(a) \/ Block(a)
  PROVE  IInv'
<1>1. CASE LeaveGuest(a)
  BY <1>1, MoveStep DEF LeaveGuest, NoScan, Moves
<1>2. CASE Test(a)
  <2>1. CASE up
    BY <1>2, <2>1, MoveStep DEF Test, NoScan, Moves
  <2>2. CASE ~up
    BY <1>2, <2>2, MoveStep DEF Test, NoScan, Moves
  <2> QED
    BY Zenon, <2>1, <2>2
<1>3. CASE WaitWake(a)
  <2>1. alive[a] /\ pc[a] = "waiting" /\ Goto(a, "look")
        /\ wsig' = [wsig EXCEPT ![a] = FALSE] /\ holder' = holder
        /\ UNCHANGED <<up, slot, next, waiters, waiting, nc, baseVars, lock, alloc, loc,
                       taskVars>>
    BY Zenon, <1>3 DEF WaitWake
  <2>2. <<pc[a], "look">> \in Moves
    BY Zenon, <2>1 DEF Moves
  <2> QED
    BY Zenon, <2>1, <2>2, MoveStep
<1>4. CASE Break(a)
  BY <1>4, MoveStep DEF Break, NoScan, Moves
<1>5. CASE Block(a)
  BY <1>5, MoveStep DEF Block, NoScan, Moves
<1> QED
  BY Zenon, <1>1, <1>2, <1>3, <1>4, <1>5

(* The create, either way.                                                 *)
LEMMA CreateStep ==
  ASSUME Counting, IInv, NEW a \in Addrs, Create(a)
  PROVE  IInv'
BY Zenon, CreateSucceeds, CreateFails

(* Only a create and a resume make a thread ready, and both publish it.    *)
LEMMA ReadyKept ==
  ASSUME ReadyInv, \A i \in Slots : \/ slot'[i] = slot[i]
                                    \/ slot'[i].state # "ready"
                                    \/ slot'[i].busy /\ slot'[i].pub
  PROVE  ReadyInv'
BY Zenon DEF ReadyInv, Slots

(* Taking a handle up makes a published thread ready.                      *)
LEMMA ReadyTaken ==
  ASSUME IInv, ReadyInv, NEW a \in Addrs, alive[a], NEW c \in Cached(a), Held(c),
         slot' = [slot EXCEPT ![nc[c].thread].state = "ready",
                              ![nc[c].thread].tstamp = stamp[a]]
  PROVE  ReadyInv'
<1> DEFINE i == nc[c].thread
<1> TypeOK /\ HandleT(a)
  BY Zenon DEF IInv, TaskInv
<1>1. slot \in [Slots -> SlotRec] /\ nc \in [Callers -> NcRec] /\ c \in Callers
  BY Zenon, Records, CachedCallers
<1>2. i \in Slots /\ slot[i].busy /\ slot[i].pub
  BY Zenon, <1>1 DEF Held, HandleT, NcRec, OrNone
<1> HIDE DEF i
<1>3. PICK r : r = [[slot[i] EXCEPT !.state = "ready"] EXCEPT !.tstamp = stamp[a]]
  BY Zenon
<1>4. slot' = [slot EXCEPT ![i] = r]
  BY Zenon, <1>1, <1>2, <1>3 DEF i
<1>5. slot[i] \in SlotRec
  BY Zenon, <1>1, <1>2
<1>6. r.busy /\ r.pub
  BY Zenon, <1>2, <1>3, <1>5 DEF SlotRec
<1> QED
  BY Zenon, <1>1, <1>2, <1>4, <1>6, ReadyKept

(* A claimed slot has no thread.                                           *)
LEMMA ReadyClaimed ==
  ASSUME TypeOK, ReadyInv, NEW a \in Addrs, NEW res, NEW w, NEW n, NEW i \in OrNone(Slots),
         ClaimEvict(a, res, w, n, i)
  PROVE  ReadyInv'
<1>1. ClaimedBy(a).state = "none"
  BY Zenon DEF ClaimedBy, FreeSlot
<1>2. slot' = slot \/ slot' = [slot EXCEPT ![i] = ClaimedBy(a)]
  BY Zenon DEF ClaimEvict
<1>3. \A j \in Slots : slot'[j] = slot[j] \/ slot'[j] = ClaimedBy(a)
  BY Zenon, <1>2 DEF TypeOK
<1> QED
  BY Zenon, <1>1, <1>3, ReadyKept

(* A released slot has no thread.                                          *)
LEMMA ReadyReleased ==
  ASSUME ReadyInv, NEW S, ReleaseSlots(S)
  PROVE  ReadyInv'
BY Zenon, ReadyKept DEF ReleaseSlots, FreeSlot

(* The step of the second part of the invariant.                           *)
LEMMA ReadyStep ==
  ASSUME IInv, ReadyInv, Next
  PROVE  ReadyInv'
<1> TypeOK
  BY Zenon DEF IInv
<1>1. ASSUME slot' = slot PROVE ReadyInv'
  BY Zenon, <1>1, ReadyKept
<1>2. ASSUME NEW a \in Addrs, Claim(a) \/ Register(a) \/ Look(a) PROVE ReadyInv'
  <2>1. slot' = slot \/ \E i \in OrNone(Slots) : \E w, n : ClaimEvict(a, loc[a].res, w, n, i)
    BY Zenon, <1>2 DEF Claim, Register, Look
  <2> QED
    BY Zenon, <1>1, <2>1, ReadyClaimed
<1>3. ASSUME NEW a \in Addrs, Create(a) PROVE ReadyInv'
  <2>1. CASE up
    <3> DEFINE i == loc[a].slot
    <3>1. i \in Slots /\ slot[i].busy /\ slot \in [Slots -> SlotRec]
      <4>1. TaskT(a)
        BY Zenon DEF IInv, TaskInv, TaskT
      <4>2. i \in Slots /\ i # None
        BY <1>3, <4>1, AdoptPoolAssumption DEF TaskT, PlaceT, Create, Slots
      <4> QED
        BY Zenon, <1>3, <4>1, <4>2, Records DEF TaskT, AdoptT, Create
    <3>2. PICK r : r = [slot[i] EXCEPT !.pub = TRUE, !.claimer = None, !.cstamp = None,
                          !.task = a, !.run = loc[a].run, !.tstamp = stamp[a],
                          !.state = "ready"]
      BY Zenon
    <3>3. slot' = [slot EXCEPT ![i] = r]
      BY Zenon, <1>3, <2>1, <3>1, <3>2 DEF Create
    <3>4. slot[i] \in SlotRec
      BY Zenon, <3>1
    <3>5. r.busy /\ r.pub
      BY Zenon, <3>1, <3>2, <3>4 DEF SlotRec
    <3> QED
      BY Zenon, <3>1, <3>3, <3>5, ReadyKept
  <2>2. CASE ~up
    BY Zenon, <1>3, <2>2, ReadyReleased DEF Create
  <2> QED
    BY Zenon, <2>1, <2>2
<1>4. ASSUME NEW a \in Addrs, Resume(a) PROVE ReadyInv'
  <2>1. CASE Held(loc[a].rec)
    <3>1. TaskT(a) /\ alive[a] /\ pc[a] = "resume"
      BY Zenon, <1>4 DEF IInv, TaskInv, TaskT, Resume
    <3>2. loc[a].rec \in Cached(a)
      <4>1. loc[a].rec \in Bases /\ Mine(a, loc[a].rec) /\ nc[loc[a].rec].live
        BY Zenon, <3>1 DEF TaskT, PlaceT, Unadopted
      <4> QED
        BY Zenon, <3>1, <4>1, AdoptPoolAssumption DEF Mine, Cached
    <3> QED
      BY Zenon, <1>4, <2>1, <3>1, <3>2, ReadyTaken DEF Resume
  <2>2. CASE ~Held(loc[a].rec)
    BY Zenon, <1>1, <1>4, <2>2 DEF Resume
  <2> QED
    BY Zenon, <2>1, <2>2
<1>5. ASSUME NEW a \in Addrs, NEW b \in Bases, Release(a, b) PROVE ReadyInv'
  <2>1. CASE nc[b].live /\ Held(b)
    <3>1. TaskT(a) /\ alive[a] /\ pc[a] = "out" /\ b \in owned /\ sbTask[b] = a
      BY Zenon, <1>5 DEF IInv, TaskInv, TaskT, Release
    <3>2. b \in Cached(a)
      BY <2>1, <3>1, AdoptPoolAssumption DEF Cached, TaskT, PlaceT, Unadopted, NoLoc
    <3> QED
      BY Zenon, <1>5, <2>1, <3>1, <3>2, ReadyTaken DEF Release
  <2>2. CASE ~(nc[b].live /\ Held(b))
    BY Zenon, <1>1, <1>5, <2>2 DEF Release
  <2> QED
    BY Zenon, <2>1, <2>2
<1>6. ASSUME NEW a \in Addrs, LeaveCached(a) PROVE ReadyInv'
  <2>1. slot' = [slot EXCEPT ![nc[loc[a].rec].thread].state = "dormant"]
    BY Zenon, <1>6 DEF LeaveCached
  <2>2. \A j \in Slots : slot'[j] = slot[j] \/ slot'[j].state # "ready"
    BY <2>1 DEF TypeOK
  <2> QED
    BY Zenon, <2>2, ReadyKept
<1>7. ASSUME NEW a \in Addrs, Leave(a) \/ FinishRelease(a) PROVE ReadyInv'
  BY Zenon, <1>7, ReadyReleased DEF Leave, FinishRelease, Orphan
<1>8. ASSUME NEW i \in Slots, Grant(i) PROVE ReadyInv'
  <2>1. slot \in [Slots -> SlotRec] /\ slot[i] \in SlotRec
    BY Zenon, Records
  <2>2. slot[i].busy /\ slot[i].pub
    BY Zenon, <1>8 DEF Grant, ReadyInv
  <2>3. PICK m : slot' = [slot EXCEPT ![i].cached = m]
    BY Zenon, <1>8 DEF Grant
  <2>4. slot'[i].busy /\ slot'[i].pub /\ \A j \in Slots \ {i} : slot'[j] = slot[j]
    BY Zenon, <2>1, <2>2, <2>3 DEF SlotRec
  <2> QED
    BY Zenon, <2>4, ReadyKept
<1>9. ASSUME NEW swept, Second(swept) PROVE ReadyInv'
  BY Zenon, <1>9, ReadyReleased DEF Second
<1>10. ASSUME NEW a \in Addrs, TaskStep(a) PROVE ReadyInv'
  <2>1. \/ slot' = slot
        \/ Claim(a) \/ Register(a) \/ Look(a) \/ Create(a) \/ Resume(a)
        \/ LeaveCached(a) \/ Leave(a) \/ FinishRelease(a)
        \/ \E b \in Bases : Release(a, b)
    BY Zenon, <1>10
    DEF TaskStep, Queue, Test, WaitWake, Unreg, Break, Block, Lock, LeaveGuest, Stop, StopWake,
        Die, Launch, StackSwap, Enter, Open
  <2> QED
    BY Zenon, <1>1, <1>2, <1>3, <1>4, <1>5, <1>6, <1>7, <2>1
<1> QED
  BY Zenon, <1>8, <1>9, <1>10 DEF Next, Tick

----------------------------------------------------------------------------
(* All the steps.                                                          *)

(* Every step of a Task.                                                   *)
LEMMA TaskSteps ==
  ASSUME IInv, Counting, NEW a \in Addrs, TaskStep(a)
  PROVE  IInv'
<1>1. CASE Queue(a)
  <2>1. CASE Claim(a)
    BY Zenon, <2>1, ClaimStep
  <2>2. CASE Register(a)
    BY Zenon, <2>2, RegisterStep
  <2>3. CASE Test(a) \/ WaitWake(a)
    BY Zenon, <2>3, MoveSteps
  <2>4. CASE Look(a)
    BY Zenon, <2>4, LookStep
  <2>5. CASE Unreg(a)
    BY Zenon, <2>5, UnregStep
  <2>6. CASE Create(a)
    BY Zenon, <2>6, CreateStep
  <2> QED
    BY Zenon, <1>1, <2>1, <2>2, <2>3, <2>4, <2>5, <2>6 DEF Queue
<1>2. CASE Resume(a)
  BY Zenon, <1>2, ResumeStep
<1>3. CASE Break(a) \/ Block(a) \/ LeaveGuest(a)
  BY Zenon, <1>3, MoveSteps
<1>4. CASE Lock(a)
  BY Zenon, <1>4, LockStep
<1>5. CASE LeaveCached(a)
  BY Zenon, <1>5, LeaveCachedStep
<1>6. CASE Leave(a)
  BY Zenon, <1>6, LeaveStep
<1>7. CASE FinishRelease(a)
  BY Zenon, <1>7, FinishReleaseStep
<1>8. CASE Stop(a)
  BY Zenon, <1>8, StopStep
<1>9. CASE StopWake(a)
  BY Zenon, <1>9, StopWakeStep
<1>10. CASE Die(a)
  BY Zenon, <1>10, DieStep
<1>11. CASE Launch(a)
  BY Zenon, <1>11, LaunchStep
<1>12. CASE StackSwap(a)
  BY Zenon, <1>12, StackSwapStep
<1>13. ASSUME NEW c \in Callers, Enter(a, c) PROVE IInv'
  BY Zenon, <1>13, EnterStep
<1>14. ASSUME NEW b \in Bases, Open(a, b) PROVE IInv'
  BY Zenon, <1>14, OpenStep
<1>15. ASSUME NEW b \in Bases, Release(a, b) PROVE IInv'
  BY Zenon, <1>15, ReleaseStep
<1> QED
  BY Zenon, <1>1, <1>2, <1>3, <1>4, <1>5, <1>6, <1>7, <1>8, <1>9, <1>10, <1>11, <1>12, <1>13,
     <1>14, <1>15 DEF TaskStep

(* Nothing happens.                                                        *)
LEMMA StutterStep ==
  ASSUME IInv, ReadyInv, UNCHANGED vars
  PROVE  IInv' /\ ReadyInv'
<1>1. UNCHANGED <<up, slot, next, waiters, waiting, holder, nc, sbTask, owned, refs,
                  lock, upsets, alive, stamp, alloc, app, pc, loc, wsig>>
  BY Zenon DEF vars
<1>2. TypeOK /\ TypeOK'
  BY Zenon, <1>1 DEF IInv, TypeOK
<1>3. ReadyInv' /\ PoolInv'
  BY ZenonT(40), <1>1 DEF IInv, ReadyInv, PoolInv, Reserved, Counted, Registered, GenInv, HolderInv, OwnInv,
              Slots, Entries, Callers
<1>4. ASSUME NEW x \in Addrs PROVE TaskT(x)' /\ WakeT(x)'
  <2>1. TaskT(x) /\ WakeT(x)
    BY Zenon DEF IInv, TaskInv, TaskT, WakeInv
  <2>2. Untouched(x) /\ Spared(x) /\ StillQueued(x)
    BY Zenon, <1>1, <1>2 DEF Untouched, Spared, StillQueued, TypeOK
  <2>3. NoneFreed
    BY Zenon, <1>1 DEF NoneFreed, Evictable
  <2> QED
    BY Zenon, <1>1, <1>2, <2>1, <2>2, <2>3, OtherTask, WakeKept
<1> QED
  BY Zenon, <1>2, <1>3, <1>4 DEF IInv, TaskInv, TaskT, WakeInv

(* Every step.                                                             *)
LEMMA NextStep ==
  ASSUME IInv, ReadyInv, Counting, [Next]_vars
  PROVE  IInv' /\ ReadyInv'
<1>1. CASE UNCHANGED vars
  BY Zenon, <1>1, StutterStep
<1>2. CASE Next
  <2>1. ASSUME NEW a \in Addrs, TaskStep(a) PROVE IInv'
    BY Zenon, <2>1, TaskSteps
  <2>2. ASSUME NEW i \in Slots, Grant(i) PROVE IInv'
    BY Zenon, <2>2, GrantStep
  <2>3. ASSUME Tick PROVE IInv'
    <3>1. PICK swept \in SUBSET DeadBases : Second(swept)
      BY Zenon, <2>3 DEF Tick
    <3> QED
      BY Zenon, <3>1, SecondStep DEF IInv
  <2>4. IInv'
    BY Zenon, <1>2, <2>1, <2>2, <2>3 DEF Next
  <2> QED
    BY Zenon, <1>2, <2>4, ReadyStep
<1> QED
  BY Zenon, <1>1, <1>2

----------------------------------------------------------------------------
(* Counting, and the invariant with what it says.                          *)

(* A set of numbers has a least one.                                       *)
LEMMA LeastNat ==
  ASSUME NEW S \in SUBSET Nat, S # {}
  PROVE  \E x \in S : \A y \in S : x <= y
<1>1. PICK x \in S : \A y \in S : ~(<<y, x>> \in OpToRel(<, Nat))
  BY Zenon, NatLessThanWellFounded, WFMin
<1>2. \A y \in S : ~(y < x)
  BY Zenon, <1>1 DEF OpToRel
<1> QED
  BY <1>2

(* A new generation is in no slot and on no handle.                        *)
LEMMA NewGenerationFresh ==
  ASSUME AdoptPoolAssumption, TypeOK
  PROVE  FreshGeneration
<1> DEFINE gs == {slot[i].gen : i \in Slots}
           gn == {nc[c].gen : c \in Callers}
           used == gs \cup gn
<1>1. IsFiniteSet(Slots) /\ IsFiniteSet(Callers)
  <2>1. IsFiniteSet(Slots)
    <3>1. 0 \in Int /\ NSlots - 1 \in Int
      BY DEF AdoptPoolAssumption
    <3> QED
      BY Zenon, <3>1, FS_Interval DEF Slots
  <2> QED
    BY Zenon, <2>1, FS_Union DEF AdoptPoolAssumption, Callers
<1>2. IsFiniteSet(gs)
  <2>1. [i \in Slots |-> slot[i].gen] \in Surjection(Slots, gs)
    BY Zenon DEF Surjection
  <2> QED
    BY Zenon, <1>1, <2>1, FS_Surjection
<1>3. IsFiniteSet(gn)
  <2>1. [c \in Callers |-> nc[c].gen] \in Surjection(Callers, gn)
    BY Zenon DEF Surjection
  <2> QED
    BY Zenon, <1>1, <2>1, FS_Surjection
<1>4. IsFiniteSet(used) /\ Cardinality(used) \in Nat
  BY Zenon, <1>2, <1>3, FS_Union, FS_CardinalityType
<1>5. used \in SUBSET Nat
  BY DEF TypeOK
<1> HIDE DEF used
<1> DEFINE n == Cardinality(used)
           T == (1..(n + 1)) \ used
<1>6. T # {}
  <2> SUFFICES ASSUME 1..(n + 1) \subseteq used PROVE FALSE
    BY Zenon
  <2>1. Cardinality(1..(n + 1)) = n + 1
    BY <1>4, FS_Interval
  <2>2. Cardinality(1..(n + 1)) <= Cardinality(used)
    BY Zenon, <1>4, FS_Subset
  <2> QED
    BY <1>4, <2>1, <2>2
<1>7. PICK g \in T : \A h \in T : g <= h
  <2>1. T \in SUBSET Nat
    BY <1>4
  <2> HIDE DEF T
  <2> QED
    BY Zenon, <1>6, <2>1, LeastNat
<1>8. g \in 1..(n + 1) /\ g \notin used /\ \A h \in 1..(g - 1) : h \in used
  BY <1>4, <1>7
<1>9. NewGeneration \in 1..(n + 1) /\ NewGeneration \notin used
  BY Zenon, <1>8 DEF NewGeneration, used
<1> QED
  BY <1>4, <1>9 DEF used, FreshGeneration

(* The waiters' table is finite, so its entries can be counted.            *)
LEMMA EntriesCount == EntriesCounted
<1>1. IsFiniteSet(Entries) /\ Cardinality(Entries) = NWaiters
  <2>1. 1 \in Int /\ NWaiters \in Int /\ NWaiters >= 0
    BY AdoptPoolAssumption
  <2> QED
    BY <2>1, FS_Interval DEF Entries
<1> SUFFICES ASSUME NEW R \in SUBSET Entries
             PROVE  /\ Cardinality(R) \in 0..NWaiters
                    /\ Cardinality(R) = 0 => R = {}
                    /\ \A e \in Entries \ R : Cardinality(R \cup {e}) = Cardinality(R) + 1
                    /\ \A e \in R : Cardinality(R \ {e}) = Cardinality(R) - 1
                    /\ \A G \in SUBSET R :
                         Cardinality(R \ G) = Cardinality(R) - Cardinality(G)
  BY Zenon DEF EntriesCounted
<1>2. IsFiniteSet(R) /\ Cardinality(R) \in Nat /\ Cardinality(R) <= NWaiters
  BY Zenon, <1>1, FS_Subset, FS_CardinalityType
<1>3. Cardinality(R) = 0 => R = {}
  BY Zenon, <1>2, FS_EmptySet
<1>4. \A e \in Entries \ R : Cardinality(R \cup {e}) = Cardinality(R) + 1
  BY Zenon, <1>2, FS_AddElement
<1>5. \A e \in R : Cardinality(R \ {e}) = Cardinality(R) - 1
  BY Zenon, <1>2, FS_RemoveElement
<1>6. ASSUME NEW G \in SUBSET R PROVE Cardinality(R \ G) = Cardinality(R) - Cardinality(G)
  <2>1. R \cap G = G
    BY Zenon
  <2> QED
    BY ZenonT(40), <1>2, <2>1, FS_Difference
<1> QED
  BY <1>2, <1>3, <1>4, <1>5, <1>6, AdoptPoolAssumption

(* What the steps need of counting holds.                                  *)
LEMMA CanCount ==
  ASSUME TypeOK
  PROVE  Counting
BY Zenon, LeastNat, NewGenerationFresh, EntriesCount, AdoptPoolAssumption DEF Counting, LeastNumbers


(* The pool at boot.                                                       *)
LEMMA InitInv ==
  ASSUME Init
  PROVE  IInv /\ ReadyInv
<1>1. 0 \in Slots /\ Stamps # {} /\ Bases \subseteq Callers /\ Addrs \subseteq Callers
  BY AdoptPoolAssumption DEF Slots, Callers
<1>2. TypeOK
  <2>1. FreeSlot \in SlotRec /\ FreeEntry \in EntryRec /\ NoCaller \in NcRec /\ NoLoc \in LocRec
    BY Zenon DEF FreeSlot, FreeEntry, NoCaller, NoLoc, SlotRec, EntryRec, NcRec, LocRec, OrNone
  <2>2. (CHOOSE s \in Stamps : TRUE) \in Stamps
    BY Zenon, <1>1
  <2>3. /\ slot \in [Slots -> SlotRec] /\ waiters \in [Entries -> EntryRec]
        /\ nc \in [Callers -> NcRec] /\ loc \in [Addrs -> LocRec]
        /\ stamp \in [Addrs -> Stamps]
    BY Zenon, <2>1, <2>2 DEF Init
  <2>4. alive \in [Addrs -> BOOLEAN] /\ wsig \in [Addrs -> BOOLEAN]
    BY Zenon DEF Init
  <2>5. pc \in [Addrs -> Places] /\ waiting \in 0..NWaiters /\ upsets \in 0..MaxUpsets
        /\ next \in Slots
    BY <1>1, AdoptPoolAssumption DEF Init, Places
  <2> QED
    BY Zenon, <2>3, <2>4, <2>5 DEF TypeOK, Init, SlotRec, EntryRec, NcRec, LocRec, OrNone
<1>3. ASSUME NEW a \in Addrs PROVE TaskT(a)
  <2>1. /\ pc[a] = "out" /\ loc[a] = NoLoc /\ alive[a] /\ lock = None /\ owned = {}
        /\ alloc[a] = {} /\ app[a] = {} /\ a # None
    BY Zenon, AdoptPoolAssumption DEF Init
  <2>2. Cached(a) = {}
    BY Zenon, <2>1 DEF Cached
  <2>3. LockT(a) /\ QueueT(a) /\ AdoptT(a)
    BY <2>1 DEF LockT, QueueT, AdoptT, Queueing, Adopted, Unadopted, NoLoc
  <2>4. PlaceT(a)
    BY <2>1, AdoptPoolAssumption DEF PlaceT, Queueing, Adopted, Unadopted, NoLoc
  <2>5. HandleT(a) /\ BitT(a)
    BY Zenon, <2>1, <2>2 DEF HandleT, BitT, Running, Waiting, Queueing, Adopted
  <2> QED
    BY Zenon, <2>3, <2>4, <2>5 DEF TaskT
<1>4. \A i \in Slots : ~slot[i].busy /\ slot[i].state = "none"
  BY Zenon DEF Init, FreeSlot
<1>5. PoolInv
  <2>1. Counted
    <3>1. Registered = {}
      BY Zenon DEF Registered, Init, FreeEntry
    <3> QED
      BY Zenon, <3>1, FS_EmptySet DEF Counted, Init
  <2>2. GenInv
    <3>1. \A c \in Callers : nc[c].gen = 0
      BY Zenon DEF Init, NoCaller
    <3> QED
      BY Zenon, <1>4, <3>1 DEF GenInv
  <2>3. Reserved /\ HolderInv
    BY Zenon, <1>4 DEF Reserved, HolderInv, Init
  <2>4. OwnInv
    <3>1. \A c \in Callers : nc[c] = NoCaller
      BY Zenon DEF Init
    <3> QED
      BY Zenon, <1>1, <3>1 DEF OwnInv, Init, NoCaller
  <2> QED
    BY Zenon, <2>1, <2>2, <2>3, <2>4 DEF PoolInv
<1>6. WakeInv
  BY Zenon DEF WakeInv, WakeT, Init
<1>7. ReadyInv
  BY Zenon, <1>4 DEF ReadyInv
<1> QED
  BY Zenon, <1>2, <1>3, <1>5, <1>6, <1>7 DEF IInv, TaskInv, TaskT



(* The inductive invariant.                                                *)
THEOREM Invariance == Spec => [](IInv /\ ReadyInv)
<1>1. Init => IInv /\ ReadyInv
  BY Zenon, InitInv
<1>2. IInv /\ ReadyInv /\ [Next]_vars => IInv' /\ ReadyInv'
  BY Zenon, CanCount, NextStep DEF IInv
<1> QED
  BY <1>1, <1>2, PTL DEF Spec

(* The Task inside ami_ns_lock never registers as a waiter, however many   *)
(* Tasks hold slots: tx_amiga_adopt_thread_break() always finds the        *)
(* reserved slot for it.                                                   *)
THEOREM LockNeverParks == Spec => []LockHolderNeverParks
<1>1. IInv => LockHolderNeverParks
  BY Zenon DEF IInv, TaskInv, LockT, LockHolderNeverParks
<1> QED
  BY <1>1, Invariance, PTL

(* _tx_amiga_adopt_waiting is the number of registered entries, and every  *)
(* live Task in the wait loop is registered at the index it will clear.    *)
THEOREM WaitersExact == Spec => []WaitersCounted
<1>1. IInv => WaitersCounted
  <2> SUFFICES ASSUME IInv PROVE WaitersCounted
    BY Zenon
  <2>1. waiting = Cardinality({e \in Entries : waiters[e].task # None})
    BY Zenon DEF IInv, PoolInv, Counted, Registered
  <2>2. ASSUME NEW a \in Addrs, alive[a], up, pc[a] \in Queueing
        PROVE  waiters[loc[a].idx].task = a
    <3>1. waiters[loc[a].idx] = [task |-> a, bit |-> loc[a].wbit, stamp |-> stamp[a]]
      BY Zenon, <2>2 DEF IInv, TaskInv, QueueT
    <3> QED
      BY <3>1
  <2> QED
    BY Zenon, <2>1, <2>2 DEF WaitersCounted
<1> QED
  BY <1>1, Invariance, PTL

(* Neither the evictor, nor the sweeps of ami_ns_second_expired(), nor a   *)
(* Task at a reused address takes a slot from the live Task that uses it;  *)
(* and a handle that is still good names its owner's dormant thread.       *)
THEOREM AdoptionsKept == Spec => []AdoptionKept
<1>1. IInv => AdoptionKept
  <2> SUFFICES ASSUME IInv, NEW a \in Addrs, alive[a]
               PROVE  LET i == loc[a].slot
                          c == loc[a].rec IN
                      /\ pc[a] \in {"unreg", "create"} /\ i # None
                           => slot[i].busy /\ ~slot[i].pub /\ slot[i].claimer = a
                      /\ pc[a] \in Adopted
                           => /\ nc[c].thread = i /\ Held(c)
                              /\ slot[i].task = a /\ slot[i].state = "ready"
                      /\ \A b \in owned : sbTask[b] = a /\ nc[b].live /\ b # c /\ Held(b)
                           => LET j == nc[b].thread IN
                              slot[j].task = a /\ slot[j].state = "dormant"
    BY Zenon DEF AdoptionKept
  <2>1. AdoptT(a) /\ HandleT(a)
    BY Zenon DEF IInv, TaskInv
  <2>2. \A b \in owned : sbTask[b] = a /\ nc[b].live /\ b # loc[a].rec => b \in Cached(a)
    BY Zenon DEF Cached
  <2>3. \A b \in Cached(a) : Held(b)
          => slot[nc[b].thread].task = a /\ slot[nc[b].thread].state = "dormant"
    BY Zenon, <2>1 DEF HandleT
  <2> QED
    BY Zenon, <2>1, <2>2, <2>3 DEF AdoptT
<1> QED
  BY <1>1, Invariance, PTL

(* A Task asleep in the adoption wait with no signal latched has nothing   *)
(* to claim: every release, suspend and eviction wakes whoever is          *)
(* registered.                                                             *)
THEOREM WakesKept == Spec => []NoLostWake
<1>1. IInv => NoLostWake
  BY Zenon DEF IInv, WakeInv, WakeT, NoLostWake
<1> QED
  BY <1>1, Invariance, PTL

(* Outside the stack a Task has exactly its own signal bits and one for    *)
(* each cached record, all different.                                      *)
THEOREM SignalsExact == Spec => []SignalsAccounted
<1>1. IInv => SignalsAccounted
  <2> SUFFICES ASSUME IInv, NEW a \in Addrs, alive[a], pc[a] = "out"
               PROVE  LET cached == {b \in owned : sbTask[b] = a /\ nc[b].live} IN
                      /\ alloc[a] = app[a] \cup {nc[b].sig : b \in cached}
                      /\ Cardinality(alloc[a]) = Cardinality(app[a]) + Cardinality(cached)
    BY Zenon DEF SignalsAccounted
  <2> DEFINE cached == {b \in owned : sbTask[b] = a /\ nc[b].live}
             sigs == {nc[b].sig : b \in cached}
  <2>1. TypeOK /\ PlaceT(a) /\ BitT(a)
    BY Zenon DEF IInv, TaskInv
  <2>2. Cached(a) = cached
    <3>1. loc[a].rec = None
      BY <2>1 DEF PlaceT, Unadopted, NoLoc
    <3>2. \A b \in owned : b # None
      BY Zenon, <2>1, AdoptPoolAssumption DEF TypeOK
    <3> QED
      BY Zenon, <3>1, <3>2 DEF Cached
  <2>3. /\ \A s \in Bits : s \in alloc[a] <=> s \in app[a] \/ \E b \in cached : s = nc[b].sig
        /\ \A b \in cached : nc[b].sig \in Bits \ app[a]
        /\ \A b, d \in cached : b # d => nc[b].sig # nc[d].sig
    BY <2>1, <2>2 DEF BitT, Running, Waiting, Queueing, Adopted
  <2>4. IsFiniteSet(cached) /\ IsFiniteSet(app[a]) /\ alloc[a] \subseteq Bits /\ app[a] \subseteq Bits
    <3>1. alloc[a] \subseteq Bits /\ app[a] \subseteq Bits /\ cached \subseteq Bases
      BY Zenon, <2>1 DEF TypeOK
    <3>2. 0 \in Int /\ NBits - 1 \in Int
      BY AdoptPoolAssumption
    <3>3. IsFiniteSet(Bits)
      BY Zenon, <3>2, FS_Interval DEF Bits
    <3>4. IsFiniteSet(Bases)
      BY Zenon, AdoptPoolAssumption
    <3> HIDE DEF cached
    <3> QED
      BY Zenon, <3>1, <3>3, <3>4, FS_Subset
  <2> HIDE DEF cached
  <2>5. alloc[a] = app[a] \cup sigs /\ app[a] \cap sigs = {}
    BY <2>3, <2>4
  <2>6. IsFiniteSet(sigs) /\ Cardinality(sigs) = Cardinality(cached)
    <3> DEFINE f == [b \in cached |-> nc[b].sig]
    <3>1. f \in Bijection(cached, sigs)
      BY Zenon, <2>3 DEF Bijection, Injection, IsInjective, Surjection
    <3>2. ExistsBijection(cached, sigs)
      BY Zenon, <3>1 DEF ExistsBijection
    <3> QED
      BY Zenon, <2>4, <3>2, FS_Bijection
  <2>7. Cardinality(alloc[a]) = Cardinality(app[a]) + Cardinality(cached)
    <3> HIDE DEF sigs
    <3>1. Cardinality(app[a] \cap sigs) = 0
      BY Zenon, <2>5, FS_EmptySet
    <3>2. /\ Cardinality(app[a] \cup sigs) =
               Cardinality(app[a]) + Cardinality(sigs) - Cardinality(app[a] \cap sigs)
          /\ Cardinality(app[a]) \in Nat /\ Cardinality(sigs) \in Nat
      BY Zenon, <2>4, <2>6, FS_Union, FS_CardinalityType
    <3> QED
      BY <2>5, <2>6, <3>1, <3>2
  <2> QED
    BY Zenon, <2>5, <2>7 DEF cached
<1> QED
  BY <1>1, Invariance, PTL
=============================================================================
