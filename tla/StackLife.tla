----------------------------- MODULE StackLife -----------------------------
(***************************************************************************)
(* Who keeps the network stack up, and what its last user owes before it   *)
(* goes: the references bsdsocket.library counts under sb_Lock             *)
(* (library.c), the netstack's own count and teardown (netstack.c), the    *)
(* cork's stop (cork.c), the sockets left behind by closed bases           *)
(* (socket.c, handoff.c) and the ARexx host's KILL.                        *)
(*                                                                         *)
(* sb_Lock is held across a whole teardown; every other use of it is one   *)
(* step.  The sockets of one base are one token: Openers is also the set   *)
(* of things that can be left on the closing and deferred lists or parked  *)
(* in the handoff registry.                                                *)
(***************************************************************************)
EXTENDS Integers, FiniteSets

CONSTANTS Openers,   \* Tasks that open the library, and their bases
          Workers,   \* asynchronous workers with a transient reference
          Kills,     \* the ARexx host may be sent KILL
          MaxRetained,
          None

ASSUME StackLifeAssumption ==
  /\ IsFiniteSet(Openers) /\ IsFiniteSet(Workers) /\ Openers \cap Workers = {}
  /\ None \notin Openers \cup Workers
  /\ Kills \in BOOLEAN /\ MaxRetained \in Nat

Actors == Openers \cup Workers

VARIABLES lock,       \* owner of sb_Lock across a teardown
          pc,
          refs, transient, closing, held, \* sb_StackRefs, sb_TransientStackRefs,
                                          \* sb_StackClosing, sb_StackHeld
          retained,   \* bsd_stack_retained
          stack,      \* ami_ns is published
          memory,     \* its IP instance and pool exist
          nsRefs,     \* ns_Refs
          cork,       \* bsd_cork_ip is set
          unproven,   \* bsd_cork_unproven is set
          pass,       \* the IP thread is inside the cork's pass
          left,       \* on the closing and deferred lists
          registry,   \* in sb_Handoffs
          taken,      \* the handoffs a last opener took, on its own stack
          refused,    \* the latest drain was refused its bracket
          host        \* the ARexx host

libVars == <<refs, transient, closing, held>>
nsVars == <<retained, stack, memory, nsRefs>>
corkVars == <<cork, unproven, pass>>
sockVars == <<left, registry, taken, refused>>
vars == <<lock, pc, libVars, nsVars, corkVars, sockVars, host>>

Counted == {"open", "gate", "drain", "release"}   \* a base counted in refs
PastGate == {"drain", "release"}                  \* and in closing
Down == {"cork", "unpublish", "host", "destroy"}  \* in the teardown

(* The types, and that sb_Lock is held by whoever tears the stack down and *)
(* by nobody else between steps: the decrement that reaches zero and the   *)
(* teardown are one step for every other user of the lock.                 *)
TypeOK ==
  /\ lock \in Actors \cup {None}
  /\ \A a \in Actors : pc[a] \in Down <=> lock = a
  /\ pc \in [Actors -> Counted \cup Down \cup {"out", "hold"}]
  /\ refs \in Nat /\ transient \in Nat /\ closing \in Nat /\ held \in BOOLEAN
  /\ retained \in Nat /\ nsRefs \in Nat
  /\ stack \in BOOLEAN /\ memory \in BOOLEAN
  /\ cork \in BOOLEAN /\ unproven \in BOOLEAN /\ pass \in BOOLEAN
  /\ left \subseteq Openers /\ registry \subseteq Openers
  /\ taken \in [Openers -> SUBSET Openers] /\ refused \in BOOLEAN
  /\ host \in {"none", "idle", "kill", "walk"}

Init ==
  /\ lock = None /\ pc = [a \in Actors |-> "out"]
  /\ refs = 0 /\ transient = 0 /\ closing = 0 /\ held = FALSE
  /\ retained = 0 /\ nsRefs = 0 /\ stack = FALSE /\ memory = FALSE
  /\ cork = FALSE /\ unproven = FALSE /\ pass = FALSE
  /\ left = {} /\ registry = {}
  /\ taken = [o \in Openers |-> {}] /\ refused = FALSE
  /\ host = "none"

Goto(a, p) == pc' = [pc EXCEPT ![a] = p]

----------------------------------------------------------------------------
(* bsd_lib_open().  With no reference the stack is brought up, or a stack  *)
(* that was kept is referenced again; the reference counts once the base   *)
(* exists.                                                                 *)

BringUp ==
  /\ stack' = TRUE /\ memory' = TRUE /\ nsRefs' = nsRefs + 1
  /\ IF stack THEN UNCHANGED host ELSE host' \in {"none", "idle"}
  /\ \/ cork' = TRUE /\ unproven' = FALSE
     \/ UNCHANGED <<cork, unproven>>
  /\ UNCHANGED <<retained, pass>>

Attached == UNCHANGED <<nsVars, corkVars, host>>

Open(o) ==
  /\ lock = None /\ pc[o] = "out"
  /\ IF refs = 0 THEN BringUp ELSE Attached
  /\ refs' = refs + 1
  /\ Goto(o, "open")
  /\ UNCHANGED <<lock, transient, closing, held, sockVars>>

(* The stack came up and the base could not be made.                       *)
OpenFails(o) ==
  /\ lock = None /\ pc[o] = "out" /\ refs = 0
  /\ BringUp
  /\ lock' = o /\ Goto(o, "cork")
  /\ UNCHANGED <<libVars, sockVars>>

----------------------------------------------------------------------------
(* An open base at work.                                                   *)

(* The socket of a close is gone, parked while its FIN is in flight, or    *)
(* owed to the next bracketed close; the close's sweep takes what is done. *)
Leave(o) ==
  \E gone \in SUBSET left : left' \in {left \ gone, (left \ gone) \cup {o}}

CloseSocket(o) ==
  /\ pc[o] = "open"
  /\ Leave(o)
  /\ UNCHANGED <<lock, pc, libVars, nsVars, corkVars, registry, taken, refused,
                 host>>

(* ReleaseSocket() and ObtainSocket()                                      *)
Handoff(o) ==
  /\ lock = None /\ pc[o] = "open"
  /\ registry' \in {registry \cup {o}} \cup {registry \ {p} : p \in registry}
  /\ UNCHANGED <<lock, pc, libVars, nsVars, corkVars, left, taken, refused, host>>

(* bsd_stack_hold() and bsd_stack_unhold() through NetStackControl().      *)
Hold(o) ==
  /\ lock = None /\ pc[o] = "open" /\ ~held
  /\ held' = TRUE /\ refs' = refs + 1
  /\ UNCHANGED <<lock, pc, transient, closing, nsVars, corkVars, sockVars, host>>

DropHold == IF held /\ refs >= 2
            THEN held' = FALSE /\ refs' = refs - 1
            ELSE UNCHANGED <<held, refs>>

Unhold(o) ==
  /\ lock = None /\ pc[o] = "open" /\ held
  /\ DropHold
  /\ UNCHANGED <<lock, pc, transient, closing, nsVars, corkVars, sockVars, host>>

(* bsd_stack_transient_hold(), for a worker an open base launches.         *)
Employ(w) ==
  /\ lock = None /\ pc[w] = "out" /\ \E o \in Openers : pc[o] = "open"
  /\ refs' = refs + 1 /\ transient' = transient + 1
  /\ Goto(w, "hold")
  /\ UNCHANGED <<lock, closing, held, nsVars, corkVars, sockVars, host>>

----------------------------------------------------------------------------
(* bsd_lib_close()                                                         *)

(* bsd_close_all(): every socket of the base is parked or owed.            *)
CloseAll(o) ==
  /\ pc[o] = "open"
  /\ Leave(o)
  /\ Goto(o, "gate")
  /\ UNCHANGED <<lock, libVars, nsVars, corkVars, registry, taken, refused, host>>

(* bsd_stack_last_opener()                                                 *)
LastOpener ==
  LET others == transient + closing
  IN refs >= others /\ refs - others <= 1

(* bsd_stack_close_gate(): decide and count oneself past the gate.         *)
Gate(o) ==
  /\ lock = None /\ pc[o] = "gate"
  /\ closing' = closing + 1
  /\ IF LastOpener
     THEN /\ Goto(o, "drain")
          /\ taken' = [taken EXCEPT ![o] = registry] /\ registry' = {}
     ELSE Goto(o, "release") /\ UNCHANGED <<taken, registry>>
  /\ UNCHANGED <<lock, refs, transient, held, nsVars, corkVars, left, refused,
                 host>>

(* The last opener's flush, sweep and drain.  Refused a bracket, it leaves *)
(* its debts to a later bracket or to the teardown.                        *)
Drain(o) ==
  /\ pc[o] = "drain"
  /\ \/ left' = {} /\ refused' = FALSE
     \/ left' = left \cup taken[o] /\ refused' = TRUE
  /\ taken' = [taken EXCEPT ![o] = {}]
  /\ Goto(o, "release")
  /\ UNCHANGED <<lock, libVars, nsVars, corkVars, registry, host>>

(* Mutant: the teardown comes one reference early.                         *)
DropEarly(a) ==
  /\ refs' = refs - 1
  /\ IF refs <= 2
     THEN lock' = a /\ Goto(a, "cork")
     ELSE Goto(a, "out") /\ UNCHANGED lock

(* bsd_stack_close_release(), bsd_stack_transient_release(): the decrement *)
(* that reaches zero and the teardown are one step under sb_Lock.          *)
Drop(a) ==
  /\ refs' = refs - 1
  /\ IF refs = 1
     THEN lock' = a /\ Goto(a, "cork")
     ELSE Goto(a, "out") /\ UNCHANGED lock

Release(o) ==
  /\ lock = None /\ pc[o] = "release"
  /\ closing' = IF closing > 0 THEN closing - 1 ELSE 0
  /\ Drop(o)
  /\ UNCHANGED <<transient, held, nsVars, corkVars, sockVars, host>>

(* bsd_stack_transient_release(): the worker's reference and its discount. *)
Retire(w) ==
  /\ lock = None /\ pc[w] = "hold"
  /\ transient' = transient - 1
  /\ Drop(w)
  /\ UNCHANGED <<closing, held, nsVars, corkVars, sockVars, host>>

----------------------------------------------------------------------------
(* bsd_netstack_shutdown_owned(), sb_Lock held.                            *)

(* bsd_cork_stop(): with a bracket it waits for the pass; refused one it   *)
(* cannot tell, and the stack is kept.                                     *)
Quiet == ~cork /\ ~unproven

StopCork(a) ==
  /\ pc[a] = "cork"
  /\ \/ Quiet /\ Goto(a, "unpublish")
          /\ UNCHANGED <<lock, cork, unproven, retained>>
     \/ /\ ~Quiet /\ ~pass
        /\ cork' = FALSE /\ unproven' = FALSE /\ Goto(a, "unpublish")
        /\ UNCHANGED <<lock, retained>>
     \/ /\ ~Quiet /\ retained < MaxRetained
        /\ cork' = FALSE /\ unproven' = TRUE
        /\ retained' = retained + 1
        /\ lock' = None /\ Goto(a, "out")
  /\ UNCHANGED <<libVars, stack, memory, nsRefs, pass, sockVars, host>>

(* netstack_shutdown(), once for each retained reference and once more.    *)
(* The one that reaches zero needs a bracket; refused, the stack stays     *)
(* published at zero references.                                           *)
Minus(n, k) == IF n >= k THEN n - k ELSE 0

(* Mutant: the references earlier stops kept are forgotten.                *)
UnpublishMutant(a) ==
  /\ pc[a] = "unpublish"
  /\ nsRefs' = Minus(nsRefs, 1) /\ retained' = 0
  /\ \/ nsRefs' = 0 /\ stack' = FALSE /\ Goto(a, "host") /\ UNCHANGED lock
     \/ lock' = None /\ Goto(a, "out") /\ UNCHANGED stack
  /\ UNCHANGED <<libVars, memory, corkVars, sockVars, host>>

Unpublish(a) ==
  /\ pc[a] = "unpublish"
  /\ nsRefs' = Minus(nsRefs, retained + 1) /\ retained' = 0
  /\ \/ nsRefs' = 0 /\ stack' = FALSE /\ Goto(a, "host") /\ UNCHANGED lock
     \/ lock' = None /\ Goto(a, "out") /\ UNCHANGED stack
  /\ UNCHANGED <<libVars, memory, corkVars, sockVars, host>>

(* Mutant: the host is told to stop and not waited for.                    *)
HostGoneMutant(a) ==
  /\ pc[a] = "host"
  /\ Goto(a, "destroy")
  /\ UNCHANGED <<lock, libVars, nsVars, corkVars, sockVars, host>>

(* ami_ns_port_delete() waits for the host.                                *)
HostGone(a) ==
  /\ pc[a] = "host" /\ host = "none"
  /\ Goto(a, "destroy")
  /\ UNCHANGED <<lock, libVars, nsVars, corkVars, sockVars, host>>

(* Mutant: the lists outlive the stack.                                    *)
DestroyMutant(a) ==
  /\ pc[a] = "destroy"
  /\ memory' = FALSE
  /\ lock' = None /\ Goto(a, "out")
  /\ UNCHANGED <<libVars, retained, stack, nsRefs, corkVars, sockVars, host>>

(* ami_ns_destroy(), the kernel stop and bsd_orphans_reclaim().            *)
Destroy(a) ==
  /\ pc[a] = "destroy"
  /\ memory' = FALSE /\ left' = {}
  /\ lock' = None /\ Goto(a, "out")
  /\ UNCHANGED <<libVars, retained, stack, nsRefs, corkVars, registry, taken,
                 refused, host>>

----------------------------------------------------------------------------
(* The IP thread's cork pass, and the ARexx host.                          *)

Pass ==
  /\ \/ ~pass /\ cork /\ pass' = TRUE
     \/ pass /\ pass' = FALSE
  /\ UNCHANGED <<lock, pc, libVars, nsVars, cork, unproven, sockVars, host>>

Kill ==
  /\ Kills /\ host = "idle" /\ stack /\ host' = "kill"
  /\ UNCHANGED <<lock, pc, libVars, nsVars, corkVars, sockVars>>

(* Mutant: the KILL polls sb_Lock and does not look at the stack.          *)
KillAnswerMutant ==
  /\ host = "kill"
  /\ \/ lock = None /\ host' = "walk" /\ DropHold
     \/ lock # None /\ UNCHANGED <<host, held, refs>>
  /\ UNCHANGED <<lock, pc, transient, closing, nsVars, corkVars, sockVars>>

(* bsd_shutdown_requested(): Attempt, not Obtain.  Then ami_rx_kill() walks *)
(* the interfaces of the stack it saw.                                     *)
KillAnswer ==
  /\ host = "kill" /\ host' = "walk"
  /\ \/ lock = None /\ DropHold
     \/ lock # None /\ ~stack /\ UNCHANGED <<held, refs>>
  /\ UNCHANGED <<lock, pc, transient, closing, nsVars, corkVars, sockVars>>

KillWalk ==
  /\ host = "walk" /\ host' = "idle"
  /\ UNCHANGED <<lock, pc, libVars, nsVars, corkVars, sockVars>>

HostExit ==
  /\ host = "idle" /\ \E a \in Actors : pc[a] = "host"
  /\ host' = "none"
  /\ UNCHANGED <<lock, pc, libVars, nsVars, corkVars, sockVars>>

----------------------------------------------------------------------------
Teardown(a) == StopCork(a) \/ Unpublish(a) \/ HostGone(a) \/ Destroy(a)

Close(o) == Gate(o) \/ Drain(o) \/ Release(o)

Use(o) == Open(o) \/ OpenFails(o) \/ CloseSocket(o) \/ Handoff(o) \/ Hold(o)
          \/ Unhold(o) \/ CloseAll(o)

Next ==
  \/ \E o \in Openers : Use(o) \/ Close(o)
  \/ \E w \in Workers : Employ(w) \/ Retire(w)
  \/ \E a \in Actors : Teardown(a)
  \/ Pass \/ Kill \/ KillAnswer \/ KillWalk \/ HostExit

Spec == Init /\ [][Next]_vars

(* A closer keeps running, the semaphore is first come first served, the   *)
(* host answers its port, and a pass ends.                                 *)
FairSpec ==
  /\ Spec
  /\ \A o \in Openers : SF_vars(Close(o))
  /\ \A w \in Workers : SF_vars(Retire(w))
  /\ \A a \in Actors : SF_vars(Teardown(a))
  /\ WF_vars(KillAnswer \/ KillWalk) /\ WF_vars(HostExit) /\ WF_vars(pass /\ Pass)

----------------------------------------------------------------------------
Sum(b) == IF b THEN 1 ELSE 0

(* sb_StackRefs is the open bases, the workers and the hold, no more and   *)
(* no fewer, and the gate's two discounts are exact: an error either way   *)
(* tears the stack down under a user or never.                             *)
RefsExact ==
  /\ closing = Cardinality({o \in Openers : pc[o] \in PastGate})
  /\ transient = Cardinality({w \in Workers : pc[w] = "hold"})
  /\ refs = Cardinality({o \in Openers : pc[o] \in Counted})
            + transient + Sum(held)

(* The netstack's count is the references kept by refused cork stops and   *)
(* the one of the current cycle (the INVARIANT of library.c): giving them  *)
(* back neither leaves the stack up nor takes it from under a reopen.      *)
RetainedExact ==
  nsRefs = retained + Sum(refs > 0 \/ \E a \in Actors : pc[a] \in {"cork", "unpublish"})

(* Both layers' counts are exact at once: sb_StackRefs and nsRefs.         *)
CountsExact == RefsExact /\ RetainedExact

(* Whoever has a reference has a published, existing stack, whatever was   *)
(* refused, kept or restarted before.                                      *)
UsersHaveStack ==
  (\E a \in Actors : pc[a] \in Counted \cup {"hold"}) => stack /\ memory

(* When the stack goes its last opener has taken every handoff and drained *)
(* every parked socket, unless that opener was refused a bracket (#53).    *)
DrainedBeforeTeardown ==
  (\E a \in Actors : pc[a] \in {"host", "destroy"})
     => registry = {} /\ (left = {} \/ refused)

(* A dead stack leaves nothing on the closing and deferred lists for the   *)
(* sweep of a later stack to reach (F-059).                                *)
DeadStackForgotten ==
  left # {} => stack \/ \E a \in Actors : pc[a] \in {"host", "destroy"}

(* The IP thread is never in the cork's pass, and the ARexx host never at  *)
(* the stack's interfaces, once the teardown may free them.                *)
NothingInsideTeardown ==
  /\ pass => memory /\ \A a \in Actors : pc[a] \notin {"host", "destroy"}
  /\ host \in {"kill", "walk"} => memory /\ \A a \in Actors : pc[a] # "destroy"

(* A close and the teardown it starts end: a last close waiting for the    *)
(* ARexx host and a KILL waiting for the last close do not wait on each    *)
(* other.                                                                  *)
CloseCompletes == \A o \in Openers : pc[o] = "gate" ~> pc[o] = "out"
=============================================================================
