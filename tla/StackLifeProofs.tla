-------------------------- MODULE StackLifeProofs --------------------------
(***************************************************************************)
(* Proofs about StackLife, for every number of openers and workers, with   *)
(* and without KILL, and however often a refused cork stop keeps the stack.*)
(***************************************************************************)
EXTENDS StackLife, FiniteSetTheorems, TLAPS

----------------------------------------------------------------------------
(* The inductive invariant: TypeOK, the two counts, and these.             *)

(* While sb_Lock is held across a teardown nobody has a reference, and how *)
(* far the teardown is fixes what there still is: the stack published up   *)
(* to the unpublish, its memory to the end, no cork once it was stopped    *)
(* and no ARexx host once it was waited for.                               *)
TeardownState ==
  lock # None =>
    /\ refs = 0 /\ memory
    /\ pc[lock] \in {"cork", "unpublish"} <=> stack
    /\ pc[lock] # "cork" => Quiet
    /\ pc[lock] = "destroy" => host = "none"

(* A reference and a published stack imply the layer below.                *)
StackUnderRefs == (refs > 0 => stack) /\ (stack => memory)

(* The cork, proven quiet or not, and its pass are of a published stack.   *)
CorkOfStack == (pass => ~Quiet) /\ (~Quiet => stack)

(* The ARexx host outlives the published stack only while it is waited for.*)
HostOfStack == host # "none" => stack \/ (lock # None /\ pc[lock] = "host")

(* What is left on the closing and deferred lists is of a stack that still *)
(* has its memory.                                                         *)
LeftOfStack == left # {} => stack \/ lock # None

IInv ==
  /\ TypeOK /\ RefsExact /\ RetainedExact
  /\ TeardownState /\ StackUnderRefs /\ CorkOfStack /\ HostOfStack
  /\ LeftOfStack

----------------------------------------------------------------------------
(* Counting: how many of S the function f maps into P.                     *)
Count(S, f, P) == Cardinality({x \in S : f[x] \in P})

(* A step that changes f at one element changes a count there or not at    *)
(* all.                                                                    *)
LEMMA CountMoves ==
  ASSUME NEW S, IsFiniteSet(S), NEW P, NEW f, NEW g, NEW a \in S,
         \A x \in S \ {a} : g[x] = f[x]
  PROVE  /\ Count(S, f, P) \in Nat /\ Count(S, g, P) \in Nat
         /\ Count(S, g, P) = Count(S, f, P) + (IF g[a] \in P THEN 1 ELSE 0)
                                            - (IF f[a] \in P THEN 1 ELSE 0)
<1> DEFINE F == {x \in S : f[x] \in P}
           G == {x \in S : g[x] \in P}
<1>1. IsFiniteSet(F) /\ IsFiniteSet(G)
      /\ Cardinality(F) \in Nat /\ Cardinality(G) \in Nat
  BY Zenon, FS_Subset, FS_CardinalityType
<1>2. Count(S, f, P) = Cardinality(F) /\ Count(S, g, P) = Cardinality(G)
  BY Zenon DEF Count
<1>3. CASE g[a] \in P <=> f[a] \in P
  <2>1. F = G
    BY <1>3
  <2>2. Cardinality(F) = Cardinality(G)
    BY Zenon, <2>1
  <2> HIDE DEF F, G
  <2> QED
    BY <1>1, <1>2, <1>3, <2>2
<1>4. CASE g[a] \in P /\ f[a] \notin P
  <2>1. G = F \cup {a} /\ a \notin F
    BY <1>4
  <2> HIDE DEF F, G
  <2>2. Cardinality(G) = Cardinality(F) + 1
    BY Zenon, <1>1, <2>1, FS_AddElement
  <2> QED
    BY <1>1, <1>2, <1>4, <2>2
<1>5. CASE g[a] \notin P /\ f[a] \in P
  <2>1. G = F \ {a} /\ a \in F
    BY <1>5
  <2> HIDE DEF F, G
  <2>2. Cardinality(G) = Cardinality(F) - 1
    BY Zenon, <1>1, <2>1, FS_RemoveElement
  <2> QED
    BY <1>1, <1>2, <1>5, <2>2
<1> QED
  BY Zenon, <1>3, <1>4, <1>5

(* A count is zero exactly when nobody is counted.                         *)
LEMMA CountZero ==
  ASSUME NEW S, IsFiniteSet(S), NEW P, NEW f
  PROVE  /\ Count(S, f, P) \in Nat
         /\ Count(S, f, P) = 0 <=> \A x \in S : f[x] \notin P
<1> DEFINE F == {x \in S : f[x] \in P}
<1>1. IsFiniteSet(F) /\ Cardinality(F) \in Nat
  BY Zenon, FS_Subset, FS_CardinalityType
<1>2. Cardinality(F) = 0 <=> F = {}
  BY Zenon, <1>1, FS_EmptySet
<1> QED
  BY Zenon, <1>1, <1>2 DEF Count

Holding == {"hold"}

(* The reference counts in these terms.                                    *)
LEMMA RefsCounted ==
  RefsExact <=> /\ closing = Count(Openers, pc, PastGate)
                /\ transient = Count(Workers, pc, Holding)
                /\ refs = Count(Openers, pc, Counted) + transient + Sum(held)
<1>1. {w \in Workers : pc[w] = "hold"} = {w \in Workers : pc[w] \in Holding}
  BY Zenon DEF Holding
<1> QED
  BY Zenon, <1>1 DEF RefsExact, Count

(* ... and after a step.                                                   *)
LEMMA RefsCountedNext ==
  RefsExact' <=> /\ closing' = Count(Openers, pc', PastGate)
                 /\ transient' = Count(Workers, pc', Holding)
                 /\ refs' = Count(Openers, pc', Counted) + transient' + Sum(held')
<1>1. {w \in Workers : pc'[w] = "hold"} = {w \in Workers : pc'[w] \in Holding}
  BY Zenon DEF Holding
<1> QED
  BY Zenon, <1>1 DEF RefsExact, Count

(* The current cycle's reference to the netstack: somebody has one, or the *)
(* stack is being torn down and is still published.                        *)
Cycle == IF refs > 0 \/ (lock # None /\ stack) THEN 1 ELSE 0

LEMMA RetainedTell ==
  ASSUME TypeOK, TeardownState
  PROVE  RetainedExact <=> nsRefs = retained + Cycle
<1>1. (\E a \in Actors : pc[a] \in {"cork", "unpublish"}) <=> lock # None /\ stack
  BY Zenon, StackLifeAssumption DEF TypeOK, TeardownState, Actors, Down
<1> QED
  BY Zenon, <1>1 DEF RetainedExact, Cycle, Sum

LEMMA RetainedTellNext ==
  ASSUME TypeOK', TeardownState'
  PROVE  RetainedExact' <=> nsRefs' = retained' + Cycle'
<1>1. (\E a \in Actors : pc'[a] \in {"cork", "unpublish"}) <=> lock' # None /\ stack'
  BY Zenon, StackLifeAssumption DEF TypeOK, TeardownState, Actors, Down
<1> QED
  BY Zenon, <1>1 DEF RetainedExact, Cycle, Sum

(* One opener moves: its own two counts follow, the workers' stays.        *)
LEMMA OpenerMoves ==
  ASSUME TypeOK, NEW o \in Openers, NEW q, Goto(o, q)
  PROVE  /\ Count(Openers, pc', Counted)
              = Count(Openers, pc, Counted) + (IF q \in Counted THEN 1 ELSE 0)
                                     - (IF pc[o] \in Counted THEN 1 ELSE 0)
         /\ Count(Openers, pc', PastGate)
              = Count(Openers, pc, PastGate) + (IF q \in PastGate THEN 1 ELSE 0)
                                     - (IF pc[o] \in PastGate THEN 1 ELSE 0)
         /\ Count(Workers, pc', Holding) = Count(Workers, pc, Holding)
<1>1. pc'[o] = q /\ \A x \in Actors \ {o} : pc'[x] = pc[x]
  BY Zenon DEF Goto, TypeOK, Actors
<1>2. \A x \in Openers \ {o} : pc'[x] = pc[x]
  BY Zenon, <1>1 DEF Actors
<1>3. \A x \in Workers : pc'[x] = pc[x]
  BY Zenon, <1>1, StackLifeAssumption DEF Actors
<1>4. {x \in Workers : pc'[x] \in Holding} = {x \in Workers : pc[x] \in Holding}
  BY Zenon, <1>3
<1>5. Count(Openers, pc', Counted)
        = Count(Openers, pc, Counted) + (IF pc'[o] \in Counted THEN 1 ELSE 0)
                                      - (IF pc[o] \in Counted THEN 1 ELSE 0)
  BY ONLY ZenonT(40), <1>2, CountMoves, StackLifeAssumption
<1>6. Count(Openers, pc', PastGate)
        = Count(Openers, pc, PastGate) + (IF pc'[o] \in PastGate THEN 1 ELSE 0)
                                       - (IF pc[o] \in PastGate THEN 1 ELSE 0)
  BY ONLY Zenon, <1>2, CountMoves, StackLifeAssumption
<1> QED
  BY Zenon, <1>1, <1>4, <1>5, <1>6 DEF Count

(* One worker moves: its count follows, the openers' stay.                 *)
LEMMA WorkerMoves ==
  ASSUME TypeOK, NEW w \in Workers, NEW q, Goto(w, q)
  PROVE  /\ Count(Workers, pc', Holding)
              = Count(Workers, pc, Holding) + (IF q = "hold" THEN 1 ELSE 0)
                                     - (IF pc[w] = "hold" THEN 1 ELSE 0)
         /\ Count(Openers, pc', Counted) = Count(Openers, pc, Counted)
         /\ Count(Openers, pc', PastGate) = Count(Openers, pc, PastGate)
<1>1. pc'[w] = q /\ \A x \in Actors \ {w} : pc'[x] = pc[x]
  BY Zenon DEF Goto, TypeOK, Actors
<1>2. \A x \in Workers \ {w} : pc'[x] = pc[x]
  BY Zenon, <1>1 DEF Actors
<1>3. \A x \in Openers : pc'[x] = pc[x]
  BY Zenon, <1>1, StackLifeAssumption DEF Actors
<1>4. /\ {x \in Openers : pc'[x] \in Counted} = {x \in Openers : pc[x] \in Counted}
      /\ {x \in Openers : pc'[x] \in PastGate} = {x \in Openers : pc[x] \in PastGate}
  BY Zenon, <1>3
<1>5. Count(Workers, pc', Holding)
        = Count(Workers, pc, Holding) + (IF pc'[w] \in Holding THEN 1 ELSE 0)
                                       - (IF pc[w] \in Holding THEN 1 ELSE 0)
  BY ONLY ZenonT(40), <1>2, CountMoves, StackLifeAssumption
<1> QED
  BY Zenon, <1>1, <1>4, <1>5 DEF Count, Holding

(* What the exact counts tell: each count is a number, somebody who has a  *)
(* reference keeps the count up, and at zero nobody has one.               *)
LEMMA RefsTell ==
  ASSUME TypeOK, RefsExact
  PROVE  /\ Count(Openers, pc, Counted) \in Nat
         /\ Count(Openers, pc, PastGate) \in Nat
         /\ Count(Workers, pc, Holding) \in Nat
         /\ \A o \in Openers : pc[o] \in Counted => Count(Openers, pc, Counted) > 0
         /\ \A o \in Openers : pc[o] \in PastGate => closing > 0
         /\ \A w \in Workers : pc[w] = "hold" => transient > 0
         /\ refs = 0 => /\ \A o \in Openers : pc[o] \notin Counted
                        /\ \A w \in Workers : pc[w] # "hold"
                        /\ held = FALSE
<1>1. /\ closing = Count(Openers, pc, PastGate)
      /\ transient = Count(Workers, pc, Holding)
      /\ refs = Count(Openers, pc, Counted) + transient + Sum(held)
  BY Zenon, RefsCounted
<1>2. /\ Count(Openers, pc, Counted) \in Nat
      /\ Count(Openers, pc, Counted) = 0 <=> \A o \in Openers : pc[o] \notin Counted
  BY Zenon, CountZero, StackLifeAssumption
<1>3. /\ Count(Openers, pc, PastGate) \in Nat
      /\ Count(Openers, pc, PastGate) = 0 <=> \A o \in Openers : pc[o] \notin PastGate
  BY Zenon, CountZero, StackLifeAssumption
<1>4. /\ Count(Workers, pc, Holding) \in Nat
      /\ Count(Workers, pc, Holding) = 0 <=> \A w \in Workers : pc[w] \notin Holding
  BY Zenon, CountZero, StackLifeAssumption
<1>5. refs = 0 => Count(Openers, pc, Counted) = 0 /\ Count(Workers, pc, Holding) = 0
                  /\ held = FALSE
  <2>1. CASE held = TRUE
    BY <1>1, <1>2, <1>4, <2>1 DEF Sum
  <2>2. CASE held = FALSE
    BY <1>1, <1>2, <1>4, <2>2 DEF Sum
  <2> QED
    BY Zenon, <2>1, <2>2 DEF TypeOK
<1> QED
  BY <1>1, <1>2, <1>3, <1>4, <1>5 DEF Holding

(* The counts stay exact when an opener moves and they move with it.       *)
LEMMA OpenerRefs ==
  ASSUME TypeOK, RefsExact, NEW o \in Openers, NEW q, Goto(o, q),
         held' = held, transient' = transient,
         closing' = closing + (IF q \in PastGate THEN 1 ELSE 0)
                            - (IF pc[o] \in PastGate THEN 1 ELSE 0),
         refs' = refs + (IF q \in Counted THEN 1 ELSE 0)
                      - (IF pc[o] \in Counted THEN 1 ELSE 0)
  PROVE  RefsExact'
<1> DEFINE c == Count(Openers, pc, Counted)
           d == Count(Openers, pc', Counted)
           h == Sum(held)
<1>1. /\ closing = Count(Openers, pc, PastGate)
      /\ transient = Count(Workers, pc, Holding)
      /\ refs = c + transient + h
  BY Zenon, RefsCounted
<1>2. /\ d = c + (IF q \in Counted THEN 1 ELSE 0)
                - (IF pc[o] \in Counted THEN 1 ELSE 0)
      /\ Count(Openers, pc', PastGate) = closing'
      /\ Count(Workers, pc', Holding) = transient'
  BY Zenon, <1>1, OpenerMoves
<1>3. c \in Nat /\ transient \in Nat /\ h \in Nat
  BY Zenon, RefsTell DEF TypeOK, Sum
<1>4. Sum(held') = h
  BY Zenon
<1> HIDE DEF c, d, h
<1>5. refs' = d + transient' + h
  BY <1>1, <1>2, <1>3
<1> QED
  BY Zenon, <1>2, <1>4, <1>5, RefsCountedNext DEF d

(* The same for a worker.                                                  *)
LEMMA WorkerRefs ==
  ASSUME TypeOK, RefsExact, NEW w \in Workers, NEW q, Goto(w, q),
         held' = held, closing' = closing,
         transient' = transient + (IF q = "hold" THEN 1 ELSE 0)
                                - (IF pc[w] = "hold" THEN 1 ELSE 0),
         refs' = refs + (IF q = "hold" THEN 1 ELSE 0)
                      - (IF pc[w] = "hold" THEN 1 ELSE 0)
  PROVE  RefsExact'
<1> DEFINE c == Count(Openers, pc, Counted)
           h == Sum(held)
<1>1. /\ closing = Count(Openers, pc, PastGate)
      /\ transient = Count(Workers, pc, Holding)
      /\ refs = c + transient + h
  BY Zenon, RefsCounted
<1>2. /\ Count(Openers, pc', Counted) = c
      /\ Count(Openers, pc', PastGate) = closing'
      /\ Count(Workers, pc', Holding) = transient'
  BY Zenon, <1>1, WorkerMoves
<1>3. c \in Nat /\ transient \in Nat /\ h \in Nat
  BY Zenon, RefsTell DEF TypeOK, Sum
<1>4. Sum(held') = h
  BY Zenon
<1> HIDE DEF c, h
<1>5. refs' = c + transient' + h
  BY <1>1, <1>3
<1> QED
  BY Zenon, <1>2, <1>4, <1>5, RefsCountedNext

(* The same for an actor inside a teardown, which has no reference.        *)
LEMMA DownRefs ==
  ASSUME TypeOK, RefsExact, NEW a \in Actors, NEW q \in Down \cup {"out"},
         Goto(a, q), pc[a] \in Down \cup {"out"},
         held' = held, closing' = closing, transient' = transient, refs' = refs
  PROVE  RefsExact'
<1>1. closing \in Nat /\ transient \in Nat /\ refs \in Nat
  BY Zenon DEF TypeOK
<1>2. /\ q \notin Counted /\ q \notin PastGate /\ q # "hold"
      /\ pc[a] \notin Counted /\ pc[a] \notin PastGate /\ pc[a] # "hold"
  BY Zenon DEF Down, Counted, PastGate
<1>3. CASE a \in Openers
  BY <1>1, <1>2, <1>3, OpenerRefs
<1>4. CASE a \in Workers
  BY <1>1, <1>2, <1>4, WorkerRefs
<1> QED
  BY Zenon, <1>3, <1>4 DEF Actors

(* ... and for the hold, which comes and goes with nobody moving.          *)
LEMMA HeldRefs ==
  ASSUME TypeOK, RefsExact, pc' = pc, closing' = closing, transient' = transient,
         \/ held' = held /\ refs' = refs
         \/ held = FALSE /\ held' = TRUE /\ refs' = refs + 1
         \/ held = TRUE /\ held' = FALSE /\ refs' = refs - 1
  PROVE  RefsExact'
<1> DEFINE c == Count(Openers, pc, Counted)
<1>1. /\ closing = Count(Openers, pc, PastGate)
      /\ transient = Count(Workers, pc, Holding)
      /\ refs = c + transient + Sum(held)
  BY Zenon, RefsCounted
<1>2. c \in Nat /\ transient \in Nat
  BY Zenon, RefsTell DEF TypeOK
<1>3. refs' = c + transient + Sum(held')
  <2> HIDE DEF c
  <2>1. CASE held' = held /\ refs' = refs
    BY Zenon, <1>1, <2>1
  <2>2. CASE held = FALSE /\ held' = TRUE /\ refs' = refs + 1
    BY <1>1, <1>2, <2>2 DEF Sum
  <2>3. CASE held = TRUE /\ held' = FALSE /\ refs' = refs - 1
    BY <1>1, <1>2, <2>3 DEF Sum
  <2> QED
    BY Zenon, <2>1, <2>2, <2>3
<1> QED
  BY Zenon, <1>1, <1>3, RefsCountedNext

----------------------------------------------------------------------------
(* Init establishes the invariant and each action preserves it.            *)

LEMMA InitIInv == Init => IInv
<1> SUFFICES ASSUME Init PROVE IInv
  BY Zenon
<1>1. \A a \in Actors : pc[a] = "out"
  BY Zenon DEF Init
<1>2. TypeOK
  <2>1. /\ held \in BOOLEAN /\ stack \in BOOLEAN /\ memory \in BOOLEAN
        /\ cork \in BOOLEAN /\ unproven \in BOOLEAN /\ pass \in BOOLEAN
        /\ refused \in BOOLEAN
    BY Zenon DEF Init
  <2> QED
    BY Zenon, <1>1, <2>1, StackLifeAssumption DEF Init, TypeOK, Down, Actors
<1>3. RefsExact
  <2>1. /\ Count(Openers, pc, Counted) = 0 /\ Count(Openers, pc, PastGate) = 0
        /\ Count(Workers, pc, Holding) = 0
    BY Zenon, <1>1, CountZero, StackLifeAssumption
    DEF Counted, PastGate, Holding, Actors
  <2>2. Sum(held) = 0
    BY Zenon DEF Sum, Init
  <2> QED
    BY <2>1, <2>2, RefsCounted DEF Init
<1>4. RetainedExact
  BY <1>1 DEF RetainedExact, Sum, Init
<1> QED
  BY <1>2, <1>3, <1>4
  DEF IInv, Init, TeardownState, StackUnderRefs, CorkOfStack, HostOfStack,
      LeftOfStack, Quiet

(* bsd_lib_open(): one reference more, on a stack that is there.           *)
LEMMA OpenStep ==
  ASSUME IInv, NEW o \in Openers, Open(o)
  PROVE  IInv'
<1> USE StackLifeAssumption DEF IInv
<1>1. /\ o \in Actors /\ o # None /\ pc' = [pc EXCEPT ![o] = "open"]
      /\ lock = None /\ lock' = None /\ pc[o] = "out" /\ refs' = refs + 1
  BY Zenon DEF Open, Goto, Actors
<1>2. TypeOK'
  <2>1. stack' \in BOOLEAN /\ memory' \in BOOLEAN /\ cork' \in BOOLEAN
        /\ unproven' \in BOOLEAN
    BY Zenon DEF Open, BringUp, Attached, TypeOK, nsVars, corkVars
  <2>2. nsRefs' \in Nat /\ retained' \in Nat /\ host' \in {"none", "idle", "kill", "walk"}
        /\ pass' = pass
    BY DEF Open, BringUp, Attached, TypeOK, nsVars, corkVars
  <2> QED
    BY <1>1, <2>1, <2>2 DEF Open, TypeOK, Down, Counted, sockVars
<1>3. RefsExact'
  <2>1. closing' = closing /\ transient' = transient /\ held' = held
    BY Zenon DEF Open
  <2>2. /\ closing' = closing + (IF "open" \in PastGate THEN 1 ELSE 0)
                              - (IF pc[o] \in PastGate THEN 1 ELSE 0)
        /\ refs' = refs + (IF "open" \in Counted THEN 1 ELSE 0)
                        - (IF pc[o] \in Counted THEN 1 ELSE 0)
    BY <1>1, <2>1 DEF Counted, PastGate, TypeOK
  <2>3. Goto(o, "open")
    BY Zenon DEF Open
  <2> QED
    BY Zenon, <2>1, <2>2, <2>3, OpenerRefs
<1>4. TeardownState' /\ StackUnderRefs' /\ CorkOfStack' /\ HostOfStack' /\ LeftOfStack'
  BY <1>1 DEF Open, BringUp, Attached, nsVars, corkVars, sockVars, TypeOK, TeardownState, StackUnderRefs,
              CorkOfStack, HostOfStack, LeftOfStack, Quiet
<1>5. RetainedExact'
  BY <1>1, <1>2, <1>4, RetainedTell, RetainedTellNext DEF Cycle, Open, BringUp, Attached, nsVars, TypeOK
<1> QED
  BY Zenon, <1>2, <1>3, <1>4, <1>5

USE StackLifeAssumption DEF IInv, libVars, nsVars, corkVars, sockVars

(* The conjuncts that are about what there is, not about how many use it.  *)
Layers == TeardownState /\ StackUnderRefs /\ CorkOfStack /\ HostOfStack /\ LeftOfStack

(* sb_Lock follows whoever enters or leaves the teardown.                  *)
LEMMA LockMoves ==
  ASSUME TypeOK, NEW a \in Actors, lock \in {None, a},
         NEW q \in Counted \cup Down \cup {"out", "hold"}, Goto(a, q),
         lock' = IF q \in Down THEN a ELSE None
  PROVE  /\ lock' \in Actors \cup {None}
         /\ \A x \in Actors : pc'[x] \in Down <=> lock' = x
         /\ pc' \in [Actors -> Counted \cup Down \cup {"out", "hold"}]
<1>1. None \notin Actors /\ pc \in [Actors -> Counted \cup Down \cup {"out", "hold"}]
  BY Zenon DEF Actors, TypeOK
<1>2. pc'[a] = q /\ \A x \in Actors \ {a} : pc'[x] = pc[x]
  BY Zenon, <1>1 DEF Goto
<1>3. \A x \in Actors \ {a} : pc[x] \notin Down
  BY Zenon, <1>1 DEF TypeOK
<1>4. \A x \in Actors : pc'[x] \in Down <=> lock' = x
  BY Zenon, <1>1, <1>2, <1>3
<1> QED
  BY Zenon, <1>1, <1>4 DEF Goto

(* An open that fails after the bring-up goes straight to the teardown.    *)
LEMMA OpenFailsStep ==
  ASSUME IInv, NEW o \in Openers, OpenFails(o)
  PROVE  IInv'
<1>1. /\ o \in Actors /\ o # None /\ pc' = [pc EXCEPT ![o] = "cork"]
      /\ lock = None /\ lock' = o /\ pc[o] = "out" /\ refs = 0 /\ refs' = 0
  BY Zenon DEF OpenFails, Goto, Actors
<1>2. TypeOK'
  <2>1. stack' \in BOOLEAN /\ memory' \in BOOLEAN /\ cork' \in BOOLEAN
        /\ unproven' \in BOOLEAN
    BY Zenon DEF OpenFails, BringUp, TypeOK
  <2>2. nsRefs' \in Nat /\ retained' \in Nat /\ pass' = pass
        /\ host' \in {"none", "idle", "kill", "walk"}
    BY DEF OpenFails, BringUp, TypeOK
  <2>3. /\ lock' \in Actors \cup {None}
        /\ \A a \in Actors : pc'[a] \in Down <=> lock' = a
        /\ pc' \in [Actors -> Counted \cup Down \cup {"out", "hold"}]
    BY Zenon, <1>1, LockMoves DEF Down, OpenFails
  <2> QED
    BY Zenon, <2>1, <2>2, <2>3 DEF OpenFails, TypeOK
<1>3. RefsExact'
  BY Zenon, <1>1, DownRefs DEF OpenFails, Down
<1>4. Layers'
  BY <1>1
  DEF Layers, OpenFails, BringUp, TypeOK, TeardownState, StackUnderRefs, CorkOfStack,
      HostOfStack, LeftOfStack, Quiet
<1>5. RetainedExact'
  BY SMTT(30), <1>1, <1>2, <1>4, RetainedTell, RetainedTellNext
  DEF Layers, Cycle, OpenFails, BringUp, TypeOK
<1> QED
  BY Zenon, <1>2, <1>3, <1>4, <1>5 DEF Layers

(* An open base has a reference, so there is a stack.                      *)
LEMMA OpenHasStack ==
  ASSUME IInv, NEW o \in Openers, pc[o] \in Counted
  PROVE  refs > 0 /\ stack /\ memory /\ lock = None
<1>1. refs \in Nat /\ refs # 0
  BY Zenon, RefsTell DEF TypeOK
<1> QED
  BY <1>1 DEF StackUnderRefs, TeardownState

(* Sockets closed one by one, and handed over.                             *)
LEMMA SocketStep ==
  ASSUME IInv, NEW o \in Openers, CloseSocket(o) \/ Handoff(o)
  PROVE  IInv'
<1>1. /\ stack /\ UNCHANGED <<lock, pc, libVars, nsVars, corkVars, taken, refused, host>>
      /\ left' \subseteq Openers /\ registry' \subseteq Openers
  BY ZenonT(40), OpenHasStack DEF CloseSocket, Handoff, Leave, TypeOK, Counted
<1>2. TypeOK'
  BY ZenonT(40), <1>1 DEF TypeOK
<1>3. RefsExact' /\ RetainedExact'
  BY Zenon, <1>1 DEF RefsExact, RetainedExact
<1>4. Layers'
  BY Zenon, <1>1 DEF Layers, TeardownState, StackUnderRefs, CorkOfStack, HostOfStack,
              LeftOfStack, Quiet
<1> QED
  BY Zenon, <1>2, <1>3, <1>4 DEF Layers

(* NetStackControl() takes the hold and gives it back.                     *)
LEMMA HoldStep ==
  ASSUME IInv, NEW o \in Openers, Hold(o) \/ Unhold(o)
  PROVE  IInv'
<1>1. /\ stack /\ lock = None /\ refs > 0
      /\ UNCHANGED <<lock, pc, transient, closing, nsVars, corkVars, sockVars, host>>
  BY Zenon, OpenHasStack DEF Hold, Unhold, Counted
<1>2. \/ held' = held /\ refs' = refs
      \/ held = FALSE /\ held' = TRUE /\ refs' = refs + 1
      \/ held = TRUE /\ held' = FALSE /\ refs' = refs - 1 /\ refs >= 2
  BY Zenon DEF Hold, Unhold, DropHold, TypeOK
<1>3. TypeOK'
  <2>1. held' \in BOOLEAN
    BY Zenon, <1>2 DEF TypeOK
  <2> QED
    BY <1>1, <1>2, <2>1 DEF TypeOK
<1>4. RefsExact'
  BY Zenon, <1>1, <1>2, HeldRefs
<1>5. Layers'
  BY Zenon, <1>1 DEF Layers, TeardownState, StackUnderRefs, CorkOfStack, HostOfStack,
              LeftOfStack, Quiet
<1>6. RetainedExact'
  BY SMTT(30), <1>1, <1>2, <1>3, <1>5, RetainedTell, RetainedTellNext DEF Layers, Cycle, TypeOK
<1> QED
  BY Zenon, <1>3, <1>4, <1>5, <1>6 DEF Layers

(* A worker is employed by an open base, on its stack.                     *)
LEMMA EmployStep ==
  ASSUME IInv, NEW w \in Workers, Employ(w)
  PROVE  IInv'
<1>1. /\ w \in Actors /\ lock = None /\ pc[w] = "out" /\ refs > 0
      /\ pc' = [pc EXCEPT ![w] = "hold"] /\ Goto(w, "hold")
      /\ refs' = refs + 1 /\ transient' = transient + 1
      /\ UNCHANGED <<lock, closing, held, nsVars, corkVars, sockVars, host>>
  BY Zenon, OpenHasStack DEF Employ, Goto, Actors, Counted
<1>2. TypeOK'
  BY <1>1 DEF TypeOK, Down
<1>3. RefsExact'
  BY <1>1, WorkerRefs DEF TypeOK
<1>4. Layers'
  BY Zenon, <1>1 DEF Layers, TeardownState, StackUnderRefs, CorkOfStack, HostOfStack,
              LeftOfStack, Quiet, TypeOK
<1>5. RetainedExact'
  BY <1>1, <1>2, <1>4, RetainedTell, RetainedTellNext DEF Layers, Cycle, TypeOK
<1> QED
  BY Zenon, <1>2, <1>3, <1>4, <1>5 DEF Layers

(* bsd_lib_close() up to its release: the reference is still counted.      *)
LEMMA CloseStep ==
  ASSUME IInv, NEW o \in Openers, CloseAll(o) \/ Gate(o) \/ Drain(o)
  PROVE  IInv'
<1>1. /\ o \in Actors /\ pc[o] \in Counted /\ stack /\ lock = None /\ refs > 0
      /\ UNCHANGED <<lock, refs, transient, held, nsVars, corkVars, host>>
  BY Zenon, OpenHasStack DEF CloseAll, Gate, Drain, Counted, Actors
<1>2. PICK q \in {"gate", "drain", "release"} :
        /\ Goto(o, q)
        /\ closing' = closing + (IF q \in PastGate THEN 1 ELSE 0)
                              - (IF pc[o] \in PastGate THEN 1 ELSE 0)
  BY DEF CloseAll, Gate, Drain, PastGate, TypeOK
<1>3. closing' \in Nat
  BY DEF CloseAll, Gate, Drain, TypeOK
<1>4. /\ left' \subseteq Openers /\ registry' \subseteq Openers
      /\ taken' \in [Openers -> SUBSET Openers] /\ refused' \in BOOLEAN
  <2>1. CASE CloseAll(o)
    BY Zenon, <2>1 DEF CloseAll, Leave, TypeOK
  <2>2. CASE Gate(o)
    BY <2>2 DEF Gate, TypeOK
  <2>3. CASE Drain(o)
    <3>1. refused' \in BOOLEAN
      BY Zenon, <2>3 DEF Drain
    <3> QED
      BY Zenon, <2>3, <3>1 DEF Drain, TypeOK
  <2> QED
    BY Zenon, <2>1, <2>2, <2>3
<1>5. TypeOK'
  BY <1>1, <1>2, <1>3, <1>4 DEF TypeOK, Down, Goto, Counted
<1>6. RefsExact'
  <2>1. /\ q \in Counted
        /\ refs' = refs + (IF q \in Counted THEN 1 ELSE 0)
                        - (IF pc[o] \in Counted THEN 1 ELSE 0)
    BY <1>1 DEF TypeOK, Counted
  <2> QED
    BY Zenon, <1>1, <1>2, <2>1, OpenerRefs
<1>7. Layers'
  BY Zenon, <1>1 DEF Layers, TeardownState, StackUnderRefs, CorkOfStack, HostOfStack,
              LeftOfStack, Quiet
<1>8. RetainedExact'
  BY Zenon, <1>1, <1>5, <1>7, RetainedTell, RetainedTellNext DEF Layers, Cycle
<1> QED
  BY Zenon, <1>5, <1>6, <1>7, <1>8 DEF Layers

(* A reference given back by a base or a worker: the last one keeps        *)
(* sb_Lock and begins the teardown of a stack that is still published.     *)
LEMMA DropStep ==
  ASSUME IInv, NEW a \in Actors, lock = None, pc[a] \notin Down, refs > 0,
         Drop(a), transient' \in Nat, closing' \in Nat, RefsExact',
         UNCHANGED <<held, nsVars, corkVars, sockVars, host>>
  PROVE  IInv'
<1>1. /\ refs' = refs - 1 /\ a # None
      /\ \/ refs = 1 /\ lock' = a /\ pc' = [pc EXCEPT ![a] = "cork"]
         \/ refs # 1 /\ lock' = None /\ pc' = [pc EXCEPT ![a] = "out"]
  BY Zenon DEF Drop, Goto, Actors
<1>2. TypeOK'
  <2>1. /\ lock' \in Actors \cup {None}
        /\ \A x \in Actors : pc'[x] \in Down <=> lock' = x
        /\ pc' \in [Actors -> Counted \cup Down \cup {"out", "hold"}]
    BY Zenon, <1>1, LockMoves DEF Down, Drop
  <2>2. refs' \in Nat
    BY <1>1 DEF TypeOK
  <2> QED
    BY <2>1, <2>2 DEF TypeOK
<1>3. Layers'
  BY <1>1 DEF Layers, TeardownState, StackUnderRefs, CorkOfStack, HostOfStack,
              LeftOfStack, Quiet, TypeOK
<1>4. RetainedExact'
  BY SMTT(30), <1>1, <1>2, <1>3, RetainedTell, RetainedTellNext
  DEF Layers, Cycle, TypeOK, StackUnderRefs
<1> QED
  BY Zenon, <1>2, <1>3, <1>4 DEF Layers

LEMMA ReleaseStep ==
  ASSUME IInv, NEW o \in Openers, Release(o)
  PROVE  IInv'
<1>1. /\ o \in Actors /\ pc[o] = "release" /\ refs > 0 /\ closing > 0
      /\ closing' = closing - 1 /\ transient' = transient /\ lock = None
  BY Zenon, OpenHasStack, RefsTell DEF Release, Actors, Counted, PastGate
<1>2. PICK q \in {"out", "cork"} : Goto(o, q)
  BY Zenon DEF Release, Drop
<1>3. RefsExact'
  <2>1. /\ closing' = closing + (IF q \in PastGate THEN 1 ELSE 0)
                              - (IF pc[o] \in PastGate THEN 1 ELSE 0)
        /\ refs' = refs + (IF q \in Counted THEN 1 ELSE 0)
                        - (IF pc[o] \in Counted THEN 1 ELSE 0)
    BY <1>1, <1>2 DEF Release, Drop, TypeOK, Counted, PastGate
  <2> QED
    BY Zenon, <1>1, <1>2, <2>1, OpenerRefs DEF Release
<1>4. pc[o] \notin Down /\ transient' \in Nat /\ closing' \in Nat
  BY <1>1 DEF Down, TypeOK
<1> QED
  BY Zenon, <1>1, <1>3, <1>4, DropStep DEF Release

LEMMA RetireStep ==
  ASSUME IInv, NEW w \in Workers, Retire(w)
  PROVE  IInv'
<1>1. /\ w \in Actors /\ pc[w] = "hold" /\ refs > 0 /\ transient > 0
      /\ transient' = transient - 1 /\ closing' = closing /\ lock = None
  <2>1. refs # 0
    BY Zenon, RefsTell DEF Retire
  <2>2. transient > 0
    BY Zenon, RefsTell DEF Retire
  <2> QED
    BY <2>1, <2>2 DEF Retire, Actors, TypeOK
<1>2. PICK q \in {"out", "cork"} : Goto(w, q)
  BY Zenon DEF Retire, Drop
<1>3. RefsExact'
  <2>1. /\ transient' = transient + (IF q = "hold" THEN 1 ELSE 0)
                                  - (IF pc[w] = "hold" THEN 1 ELSE 0)
        /\ refs' = refs + (IF q = "hold" THEN 1 ELSE 0)
                        - (IF pc[w] = "hold" THEN 1 ELSE 0)
    BY <1>1, <1>2 DEF Retire, Drop, TypeOK
  <2> QED
    BY Zenon, <1>1, <1>2, <2>1, WorkerRefs DEF Retire
<1>4. pc[w] \notin Down /\ transient' \in Nat /\ closing' \in Nat
  BY <1>1 DEF Down, TypeOK
<1> QED
  BY Zenon, <1>1, <1>3, <1>4, DropStep DEF Retire

(* The teardown, step by step: the cork stopped or the stack kept, the     *)
(* netstack's references given back, the host waited for, the memory freed.*)
LEMMA TeardownStep ==
  ASSUME IInv, NEW a \in Actors, Teardown(a)
  PROVE  IInv'
<1>1. /\ lock = a /\ a # None /\ pc[a] \in Down /\ refs = 0 /\ memory
      /\ UNCHANGED <<libVars, pass, registry, taken, refused, host>>
  BY ZenonT(40) DEF Teardown, StopCork, Unpublish, HostGone, Destroy, TypeOK, Down,
         TeardownState, Actors
<1>2. PICK q \in Down \cup {"out"} :
        Goto(a, q) /\ lock' = IF q \in Down THEN a ELSE None
  <2>1. CASE StopCork(a)
    <3>1. \/ Goto(a, "unpublish") /\ lock' = a
          \/ Goto(a, "out") /\ lock' = None
      BY Zenon, <1>1, <2>1 DEF StopCork
    <3> QED
      BY <3>1 DEF Down
  <2>2. CASE Unpublish(a)
    <3>1. \/ Goto(a, "host") /\ lock' = a
          \/ Goto(a, "out") /\ lock' = None
      BY Zenon, <1>1, <2>2 DEF Unpublish
    <3> QED
      BY <3>1 DEF Down
  <2>3. CASE HostGone(a)
    BY Zenon, <1>1, <2>3 DEF HostGone, Down
  <2>4. CASE Destroy(a)
    BY <1>1, <2>4 DEF Destroy, Down
  <2> QED
    BY Zenon, <2>1, <2>2, <2>3, <2>4 DEF Teardown
<1>3. TypeOK'
  <2>1. /\ stack' \in BOOLEAN /\ memory' \in BOOLEAN /\ cork' \in BOOLEAN
        /\ unproven' \in BOOLEAN
    BY ZenonT(40) DEF Teardown, StopCork, Unpublish, HostGone, Destroy, TypeOK
  <2>2. retained' \in Nat /\ nsRefs' \in Nat /\ left' \subseteq Openers
    BY SMTT(30) DEF Teardown, StopCork, Unpublish, Minus, HostGone, Destroy, TypeOK
  <2>3. /\ lock' \in Actors \cup {None}
        /\ \A x \in Actors : pc'[x] \in Down <=> lock' = x
        /\ pc' \in [Actors -> Counted \cup Down \cup {"out", "hold"}]
    BY Zenon, <1>1, <1>2, LockMoves
  <2> QED
    BY ZenonT(40), <1>1, <2>1, <2>2, <2>3 DEF TypeOK
<1>4. RefsExact'
  BY Zenon, <1>1, <1>2, DownRefs
<1>5. pc'[a] = q
  BY ZenonT(40), <1>2 DEF Goto, TypeOK
<1>6. refs' = 0 /\ ~(refs' > 0) /\ ~(refs > 0)
  BY <1>1
<1>7. nsRefs = retained + Cycle /\ retained \in Nat
  BY Zenon, RetainedTell DEF TypeOK
<1>8. Layers' /\ nsRefs' = retained' + Cycle'
  <2>1. CASE StopCork(a)
    <3>1. /\ pc[a] = "cork" /\ stack /\ stack' /\ memory' /\ Cycle = 1
          /\ UNCHANGED <<nsRefs, left>>
      BY ZenonT(40), <1>1, <2>1 DEF StopCork, TeardownState, Cycle
    <3>2. \/ /\ lock' = a /\ lock' # None /\ pc'[a] = "unpublish"
             /\ retained' = retained /\ ~cork' /\ ~unproven' /\ ~pass
          \/ lock' = None /\ retained' = retained + 1 /\ unproven'
      BY <1>1, <1>5, <2>1 DEF StopCork, Goto, TypeOK, Quiet, CorkOfStack
    <3>3. Layers'
      BY ZenonT(40), <1>1, <1>6, <3>1, <3>2
      DEF Layers, TeardownState, StackUnderRefs, CorkOfStack, HostOfStack,
          LeftOfStack, Quiet
    <3>4. \/ retained' = retained /\ Cycle' = 1
          \/ retained' = retained + 1 /\ Cycle' = 0
      BY Zenon, <1>1, <1>6, <3>1, <3>2 DEF Cycle
    <3> QED
      BY <1>7, <3>1, <3>3, <3>4
  <2>2. CASE Unpublish(a)
    <3>1. /\ pc[a] = "unpublish" /\ stack /\ Cycle = 1 /\ Quiet
          /\ retained' = 0 /\ Quiet' /\ memory' /\ UNCHANGED left
          /\ nsRefs' = Minus(nsRefs, retained + 1)
      BY ZenonT(40), <1>1, <2>2 DEF Unpublish, TeardownState, Cycle, Quiet
    <3>2. nsRefs' = 0
      <4>1. nsRefs = retained + 1
        BY Zenon, <1>7, <3>1
      <4> QED
        BY ONLY <1>7, <3>1, <4>1 DEF Minus
    <3>3. \/ lock' = a /\ pc'[a] = "host" /\ ~stack'
          \/ lock' = None /\ stack'
      BY ZenonT(40), <1>1, <2>2, <3>1 DEF Unpublish, Goto, TypeOK
    <3>4. Layers' /\ Cycle' = 0
      BY ZenonT(40), <1>1, <1>6, <3>1, <3>3
      DEF Layers, TeardownState, StackUnderRefs, CorkOfStack, HostOfStack,
          LeftOfStack, Quiet, Cycle
    <3> QED
      BY <3>1, <3>2, <3>4
  <2>3. CASE HostGone(a)
    <3>1. /\ pc[a] = "host" /\ lock' = a /\ pc'[a] = "destroy" /\ host = "none"
          /\ UNCHANGED <<nsVars, corkVars, left>>
      BY <1>1, <2>3 DEF HostGone, Goto, TypeOK
    <3>2. ~stack /\ ~stack' /\ Quiet' /\ memory' /\ ~pass'
      BY <1>1, <3>1 DEF TeardownState, Quiet, CorkOfStack
    <3>3. Layers' /\ Cycle' = Cycle
      BY ZenonT(40), <1>1, <1>6, <3>1, <3>2
      DEF Layers, TeardownState, StackUnderRefs, CorkOfStack, HostOfStack,
          LeftOfStack, Quiet, Cycle
    <3> QED
      BY Zenon, <1>7, <3>1, <3>3
  <2>4. CASE Destroy(a)
    <3>1. /\ pc[a] = "destroy" /\ lock' = None /\ left' = {}
          /\ UNCHANGED <<retained, nsRefs, stack, corkVars>>
      BY Zenon, <2>4 DEF Destroy
    <3>2. ~stack /\ ~stack' /\ Quiet' /\ ~pass' /\ host = "none"
      BY <1>1, <3>1 DEF TeardownState, Quiet, CorkOfStack
    <3>3. Layers' /\ Cycle' = Cycle
      BY ZenonT(40), <1>1, <1>6, <3>1, <3>2
      DEF Layers, TeardownState, StackUnderRefs, CorkOfStack, HostOfStack,
          LeftOfStack, Quiet, Cycle
    <3> QED
      BY Zenon, <1>7, <3>1, <3>3
  <2> QED
    BY Zenon, <2>1, <2>2, <2>3, <2>4 DEF Teardown
<1> QED
  BY Zenon, <1>3, <1>4, <1>8, RetainedTellNext DEF Layers

(* The IP thread's pass, and the ARexx host's KILL and exit.               *)
LEMMA HostStep ==
  ASSUME IInv, Pass \/ Kill \/ KillAnswer \/ KillWalk \/ HostExit
  PROVE  IInv'
<1>1. UNCHANGED <<lock, pc, transient, closing, nsVars, cork, unproven, sockVars>>
  BY ZenonT(40) DEF Pass, Kill, KillAnswer, KillWalk, HostExit
<1>2. \/ held' = held /\ refs' = refs
      \/ held = TRUE /\ held' = FALSE /\ refs' = refs - 1 /\ refs >= 2 /\ lock = None
  BY ZenonT(40) DEF Pass, Kill, KillAnswer, KillWalk, HostExit, DropHold, TypeOK
<1>3. /\ host' \in {"none", "idle", "kill", "walk"}
      /\ host' # "none" => host # "none"
      /\ pass' => ~Quiet
  BY DEF Pass, Kill, KillAnswer, KillWalk, HostExit, TypeOK, CorkOfStack, Quiet
<1>4. TypeOK'
  <2>1. held' \in BOOLEAN
    BY ZenonT(40), <1>2 DEF TypeOK
  <2>2. pass' \in BOOLEAN
    BY ZenonT(40) DEF Pass, Kill, KillAnswer, KillWalk, HostExit, TypeOK
  <2> QED
    BY <1>1, <1>2, <1>3, <2>1, <2>2 DEF TypeOK
<1>5. RefsExact'
  BY Zenon, <1>1, <1>2, HeldRefs
<1>6. (refs' > 0 <=> refs > 0) /\ (lock # None => refs' = refs)
  BY <1>2 DEF TypeOK
<1>7. Layers'
  BY ZenonT(40), <1>1, <1>3, <1>6
  DEF Layers, TeardownState, StackUnderRefs, CorkOfStack, HostOfStack, LeftOfStack,
      Quiet, TypeOK
<1>8. RetainedExact'
  <2>1. Cycle' = Cycle
    BY Zenon, <1>1, <1>6 DEF Cycle
  <2> QED
    BY Zenon, <1>1, <1>4, <1>7, <2>1, RetainedTell, RetainedTellNext DEF Layers
<1> QED
  BY Zenon, <1>4, <1>5, <1>7, <1>8 DEF Layers

LEMMA NextIInv == IInv /\ [Next]_vars => IInv'
<1> SUFFICES ASSUME IInv, [Next]_vars PROVE IInv'
  BY Zenon
<1>1. CASE UNCHANGED vars
  BY <1>1 DEF vars, TypeOK, RefsExact, RetainedExact, TeardownState, StackUnderRefs,
              CorkOfStack, HostOfStack, LeftOfStack, Quiet
<1>2. ASSUME NEW o \in Openers, Use(o) \/ Close(o) PROVE IInv'
  BY ZenonT(40), <1>2, OpenStep, OpenFailsStep, SocketStep, HoldStep, CloseStep, ReleaseStep
  DEF Use, Close
<1>3. ASSUME NEW w \in Workers, Employ(w) \/ Retire(w) PROVE IInv'
  BY ZenonT(40), <1>3, EmployStep, RetireStep
<1>4. ASSUME NEW a \in Actors, Teardown(a) PROVE IInv'
  BY Zenon, <1>4, TeardownStep
<1> QED
  BY ZenonT(40), <1>1, <1>2, <1>3, <1>4, HostStep DEF Next

(* The inductive invariant holds in every reachable state of the library   *)
(* and its stack.                                                          *)
THEOREM Invariance == Spec => []IInv
<1>1. Init => IInv
  BY Zenon, InitIInv
<1>2. IInv /\ [Next]_vars => IInv'
  BY Zenon, NextIInv
<1> QED
  BY <1>1, <1>2, PTL DEF Spec

----------------------------------------------------------------------------
(* sb_StackRefs is exactly the bases, workers and hold, and the netstack's *)
(* count exactly the kept references and the current cycle's.              *)
THEOREM ExactCounts == Spec => []CountsExact
<1>1. IInv => CountsExact
  BY Zenon DEF CountsExact
<1> QED
  BY <1>1, Invariance, PTL

(* Only a worker has the transient reference, only an opener a base.       *)
Roles == /\ \A o \in Openers : pc[o] # "hold"
         /\ \A w \in Workers : pc[w] \notin Counted

LEMMA RolesKept == Spec => []Roles
<1>1. Init => Roles
  BY Zenon DEF Init, Roles, Actors, Counted
<1>2. TypeOK /\ Roles /\ [Next]_vars => Roles'
  <2> SUFFICES ASSUME TypeOK, Roles, [Next]_vars PROVE Roles'
    BY Zenon
  <2>1. CASE pc' = pc
    BY ZenonT(40), <2>1 DEF Roles
  <2>2. ASSUME NEW o \in Openers, NEW q \in Counted \cup Down \cup {"out"}, Goto(o, q)
        PROVE  Roles'
    BY ZenonT(40), <2>2 DEF Roles, Goto, TypeOK, Actors, Counted, Down
  <2>3. ASSUME NEW w \in Workers, NEW q \in Down \cup {"out", "hold"}, Goto(w, q)
        PROVE  Roles'
    BY ZenonT(40), <2>3 DEF Roles, Goto, TypeOK, Actors, Counted, Down
  <2>4. ASSUME NEW o \in Openers, Use(o) \/ Close(o) PROVE Roles'
    <3>1. \/ pc' = pc
          \/ \E q \in {"open", "cork", "gate", "drain", "release", "out"} : Goto(o, q)
      BY ZenonT(40), <2>4 DEF Use, Close, Open, OpenFails, CloseSocket, Handoff, Hold, Unhold,
                  CloseAll, Gate, Drain, Release, Drop
    <3> QED
      BY Zenon, <2>1, <2>2, <3>1 DEF Counted, Down
  <2>5. ASSUME NEW w \in Workers, Employ(w) \/ Retire(w) PROVE Roles'
    <3>1. \E q \in {"hold", "cork", "out"} : Goto(w, q)
      BY Zenon, <2>5 DEF Employ, Retire, Drop
    <3> QED
      BY Zenon, <2>3, <3>1 DEF Down
  <2>6. ASSUME NEW a \in Actors, Teardown(a) PROVE Roles'
    <3>1. \E q \in {"unpublish", "host", "destroy", "out"} : Goto(a, q)
      BY Zenon, <2>6 DEF Teardown, StopCork, Unpublish, HostGone, Destroy
    <3> QED
      BY Zenon, <2>2, <2>3, <3>1 DEF Down, Actors
  <2> QED
    BY ZenonT(40), <2>1, <2>4, <2>5, <2>6
    DEF Next, Pass, Kill, KillAnswer, KillWalk, HostExit, vars
<1> QED
  BY <1>1, <1>2, Invariance, PTL DEF Spec

(* Nobody with a reference is without a stack.                             *)
THEOREM StackForUsers == Spec => []UsersHaveStack
<1>1. IInv /\ Roles => UsersHaveStack
  <2> SUFFICES ASSUME IInv, Roles, NEW a \in Actors, pc[a] \in Counted \cup {"hold"}
               PROVE  stack /\ memory
    BY Zenon DEF UsersHaveStack
  <2>1. refs # 0
    BY Zenon, RefsTell DEF Actors, Counted, Roles
  <2> QED
    BY <2>1 DEF StackUnderRefs, TypeOK
<1> QED
  BY <1>1, Invariance, RolesKept, PTL

(* No socket of a dead stack stays on the lists for a later one to find.   *)
THEOREM NothingLeftOver == Spec => []DeadStackForgotten
<1>1. IInv => DeadStackForgotten
  BY ZenonT(40) DEF DeadStackForgotten, LeftOfStack, TeardownState, TypeOK, Down
<1> QED
  BY <1>1, Invariance, PTL

(* The cork's pass and the ARexx host are out of a stack before its        *)
(* teardown may free what they use.                                        *)
THEOREM TeardownAlone == Spec => []NothingInsideTeardown
<1>1. IInv => NothingInsideTeardown
  <2> SUFFICES ASSUME IInv PROVE NothingInsideTeardown
    BY Zenon
  <2>1. ASSUME NEW a \in Actors, pc[a] \in {"host", "destroy"}
        PROVE  ~pass /\ (pc[a] = "destroy" => host = "none") /\ memory
    <3>1. lock = a /\ lock # None
      BY ZenonT(40), <2>1 DEF TypeOK, Down, Actors
    <3> QED
      BY Zenon, <2>1, <3>1 DEF TeardownState, CorkOfStack
  <2>2. (pass => memory) /\ (host # "none" => memory)
    BY Zenon DEF StackUnderRefs, CorkOfStack, HostOfStack, TeardownState
  <2> QED
    BY ZenonT(40), <2>1, <2>2 DEF NothingInsideTeardown
<1> QED
  BY <1>1, Invariance, PTL

----------------------------------------------------------------------------
(* Without KILL nobody but an open base gives the hold back.  Once no base *)
(* is before its gate and the stack is not held, the handoffs are taken    *)
(* and the lists are drained, being drained, or known not to be.           *)
Drained ==
  (\A o \in Openers : pc[o] \notin {"open", "gate"}) /\ ~held =>
    /\ registry = {}
    /\ left = {} \/ refused \/ \E o \in Openers : pc[o] = "drain"

NoKill == host \in {"none", "idle"}

(* How many bases are before their gate.                                   *)
BeforeGate == {"open", "gate"}

LEMMA BeforeGateCounted ==
  /\ Count(Openers, pc, BeforeGate) \in Nat
  /\ Count(Openers, pc, Counted)
       = Count(Openers, pc, BeforeGate) + Count(Openers, pc, PastGate)
<1> DEFINE B == {o \in Openers : pc[o] \in BeforeGate}
           P == {o \in Openers : pc[o] \in PastGate}
<1>1. IsFiniteSet(B) /\ IsFiniteSet(P)
  BY Zenon, FS_Subset
<1>2. /\ {o \in Openers : pc[o] \in Counted} = B \cup P
      /\ B \cap P = {}
  BY Zenon DEF Counted, BeforeGate, PastGate
<1>3. /\ Cardinality(B) \in Nat /\ Cardinality(P) \in Nat
      /\ Cardinality(B \cap P) = 0
  <2>1. Cardinality({}) = 0
    BY ONLY Zenon, FS_EmptySet
  <2> QED
    BY Zenon, <1>1, <1>2, <2>1, FS_CardinalityType
<1>4. Cardinality(B \cup P) = Cardinality(B) + Cardinality(P) - Cardinality(B \cap P)
  BY Zenon, <1>1, FS_Union
<1>5. /\ Count(Openers, pc, Counted) = Cardinality(B \cup P)
      /\ Count(Openers, pc, BeforeGate) = Cardinality(B)
      /\ Count(Openers, pc, PastGate) = Cardinality(P)
  BY Zenon, <1>2 DEF Count
<1> HIDE DEF B, P
<1> QED
  BY <1>3, <1>4, <1>5

(* A base whose gate finds it is not the last leaves another one behind it,*)
(* or the hold.                                                            *)
LEMMA NotLast ==
  ASSUME IInv, NEW o \in Openers, pc[o] = "gate", ~LastOpener, Goto(o, "release"),
         held = FALSE
  PROVE  \E x \in Openers : pc'[x] \in BeforeGate
<1> DEFINE b == Count(Openers, pc, BeforeGate)
           c == Count(Openers, pc', BeforeGate)
<1>1. b \in Nat /\ refs = (b + closing) + transient + Sum(held)
  BY Zenon, BeforeGateCounted, RefsCounted
<1>2. closing \in Nat /\ transient \in Nat /\ Sum(held) = 0
  BY ZenonT(40) DEF TypeOK, Sum
<1>3. pc'[o] = "release" /\ \A x \in Openers \ {o} : pc'[x] = pc[x]
  BY ZenonT(40) DEF Goto, TypeOK, Actors
<1>4. /\ c \in Nat
      /\ c = b + (IF pc'[o] \in BeforeGate THEN 1 ELSE 0)
               - (IF pc[o] \in BeforeGate THEN 1 ELSE 0)
  BY ONLY <1>3, CountMoves, StackLifeAssumption
<1>5. c = 0 <=> \A x \in Openers : pc'[x] \notin BeforeGate
  BY ONLY Zenon, CountZero, StackLifeAssumption
<1> HIDE DEF b, c
<1>6. b > 1
  BY <1>1, <1>2 DEF LastOpener
<1>7. c # 0
  BY <1>1, <1>3, <1>4, <1>6 DEF BeforeGate
<1> QED
  BY Zenon, <1>5, <1>7

(* What a step of an actor that is neither open, at the gate nor draining  *)
(* leaves as it was.                                                       *)
LEMMA DrainedFrame ==
  ASSUME TypeOK, Drained, NEW a \in Actors, NEW q, Goto(a, q),
         pc[a] \notin {"open", "gate", "drain"},
         registry' = registry, held' = held, refused' = refused, left' \in {left, {}}
  PROVE  Drained'
BY ZenonT(40) DEF Drained, Goto, TypeOK, Actors

LEMMA NextDrained ==
  ASSUME ~Kills, IInv, Drained, NoKill, [Next]_vars
  PROVE  Drained' /\ NoKill'
<1>1. ASSUME NEW o \in Openers, Use(o) \/ Close(o) PROVE Drained' /\ NoKill'
  <2>1. o \in Actors /\ NoKill'
    <3>1. host' = host \/ host' \in {"none", "idle"}
      <4>1. CASE Open(o) \/ OpenFails(o)
        BY Zenon, <4>1 DEF Open, OpenFails, BringUp, Attached
      <4>2. CASE ~(Open(o) \/ OpenFails(o))
        BY Zenon, <1>1, <4>2 DEF Use, Close, CloseSocket, Handoff, Hold,
                                 Unhold, CloseAll, Gate, Drain, Release
      <4> QED
        BY Zenon, <4>1, <4>2
    <3> QED
      BY Zenon, <3>1 DEF Actors, NoKill
  <2>2. CASE OpenFails(o) \/ Release(o)
    BY Zenon, <2>1, <2>2, DrainedFrame DEF OpenFails, Release, Drop
  <2>3. CASE pc'[o] \in BeforeGate
    BY Zenon, <2>1, <2>3 DEF Drained, BeforeGate
  <2>4. CASE Open(o) \/ CloseSocket(o) \/ Handoff(o) \/ Hold(o) \/ Unhold(o)
             \/ CloseAll(o)
    BY ZenonT(40), <2>1, <2>3, <2>4 DEF Open, CloseSocket, Handoff, Hold, Unhold, CloseAll, Goto,
                            TypeOK, BeforeGate
  <2>5. CASE Gate(o)
    <3>1. CASE LastOpener
      BY ZenonT(40), <2>1, <2>5, <3>1 DEF Gate, Goto, Drained, TypeOK
    <3>2. CASE ~LastOpener
      <4>1. held' = held /\ Goto(o, "release") /\ pc[o] = "gate"
        BY Zenon, <2>5, <3>2 DEF Gate
      <4> QED
        BY ZenonT(40), <2>1, <3>2, <4>1, NotLast DEF Drained, BeforeGate, TypeOK
    <3> QED
      BY Zenon, <3>1, <3>2
  <2>6. CASE Drain(o)
    BY ZenonT(40), <2>1, <2>6 DEF Drain, Goto, Drained, TypeOK, Actors
  <2> QED
    BY Zenon, <1>1, <2>1, <2>2, <2>4, <2>5, <2>6 DEF Use, Close
<1>2. ASSUME NEW w \in Workers, Employ(w) \/ Retire(w) PROVE Drained' /\ NoKill'
  BY Zenon, <1>2, DrainedFrame DEF Employ, Retire, Drop, NoKill, Actors
<1>3. ASSUME NEW a \in Actors, Teardown(a) PROVE Drained' /\ NoKill'
  BY ZenonT(40), <1>3, DrainedFrame
  DEF Teardown, StopCork, Unpublish, HostGone, Destroy, NoKill
<1>4. CASE Pass \/ Kill \/ KillAnswer \/ KillWalk \/ HostExit
  BY Zenon, <1>4 DEF Pass, Kill, KillAnswer, KillWalk, HostExit, NoKill, Drained
<1>5. CASE UNCHANGED vars
  BY Zenon, <1>5 DEF vars, Drained, NoKill
<1> QED
  BY Zenon, <1>1, <1>2, <1>3, <1>4, <1>5 DEF Next

(* As long as nobody sends KILL, a stack goes down with every handoff taken*)
(* and every parked socket drained or its opener refused a bracket: what   *)
(* the run with KILL shows to fail is the hold given back from outside.    *)
THEOREM DrainedWithoutKill ==
  ASSUME ~Kills
  PROVE  Spec => []DrainedBeforeTeardown
<1>1. Init => Drained /\ NoKill
  BY Zenon DEF Init, Drained, NoKill
<1>2. IInv /\ Drained /\ NoKill /\ [Next]_vars => Drained' /\ NoKill'
  BY Zenon, NextDrained
<1>3. IInv /\ Drained => DrainedBeforeTeardown
  <2> SUFFICES ASSUME IInv, Drained, NEW a \in Actors, pc[a] \in {"host", "destroy"}
               PROVE  registry = {} /\ (left = {} \/ refused)
    BY Zenon DEF DrainedBeforeTeardown
  <2>1. lock # None /\ refs = 0
    BY ZenonT(40) DEF TypeOK, TeardownState, Down, Actors
  <2>2. ~held /\ \A o \in Openers : pc[o] \notin Counted
    BY ZenonT(40), <2>1, RefsTell
  <2> QED
    BY Zenon, <2>2 DEF Drained, Counted
<1> QED
  BY <1>1, <1>2, <1>3, Invariance, PTL DEF Spec
=============================================================================
