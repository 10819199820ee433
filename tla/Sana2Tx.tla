------------------------------ MODULE Sana2Tx -------------------------------
(***************************************************************************)
(* The SANA-II transmit path of one interface: the ring of write requests, *)
(* the queue behind it, the one-launcher flag, the collection of finished  *)
(* writes, the stop and wake of TCP, lazy collection, acknowledgment       *)
(* pacing, and the way down: drain, removal, and the free of an interface  *)
(* only once the device gives everything back.                             *)
(*                                                                         *)
(* A Forbid() or Disable() section is one step, and so is a store outside  *)
(* one.  Senders and the deferred processing of the IP thread run under    *)
(* nx_ip_protection (prot); the reader does not, which is what the flag    *)
(* and the atomic counts are for.  A thread's place in the nested calls is *)
(* its record in `loc`.                                                    *)
(***************************************************************************)
EXTENDS Naturals, Sequences, FiniteSets, FiniteSetsExt, TLC

CONSTANTS Senders,      \* threads that send: NetX Duo's callers, bpf writes
          Reader, Ip, Admin,
          NoOne,        \* nx_ip_protection is free
          NSlots,       \* tx_slots
          Pend,         \* AMI_SANA2_TX_PEND
          StopAt,       \* AMI_SANA2_TX_STOP_AT
          Quicks,       \* what tx_quick_ok may be: finished inside BeginIO()
          Sizes,        \* writes a packet may be cut into (a GSO block)
          Limits,       \* limits a measuring window may come to
          Lazy,         \* lazy collection is on, and has its tick
          AckQ,         \* AMI_SANA2_ACKQ; 0: the interface does not pace
          MaxPackets,   \* packets sent in a behaviour
          MaxRefused,   \* raw writes without room for their header
          MaxOutages,   \* times the unit goes out of service
          Removals      \* RemoveInterface() (0 or 1)

ASSUME TxAssumption ==
    /\ NSlots \in Nat \ {0} /\ Pend \in Nat \ {0}
    /\ Limits \subseteq Nat /\ \A n \in Limits : n >= 2

Slots   == 1..NSlots
Packets == 1..MaxPackets
Actors  == Senders \cup {Reader, Ip, Admin}

VARIABLES
    quick,              \* tx_quick_ok, settled by the open
    busy, slotPkt,      \* tx[]: claimed, and the packet being written
    dev, port,          \* requests the device holds; replies on tx_port
    pend, kicking,      \* tx_pend, tx_kicking
    devWrites, limit, starved, stopped,   \* the queue limit
    size, out, released,  \* a packet's writes; shares outstanding; releases
    portSig, bound, parked, timerUp, age, sig, deferred,  \* who is told
    ackq, ackOn, armed, \* held acknowledgments, ack_task, its timer
    online, detaching, stop, orphaned, rxOrphaned, life,
    prot, sent, refused, outages, removals,
    wire,               \* the packet BeginIO() was given last
    loc

(* Where the limit starts, and its ceiling. *)
Ceiling == StopAt + (IF quick THEN 0 ELSE NSlots)

ring  == <<busy, slotPkt, dev, port, devWrites>>
flow  == <<limit, starved, stopped>>
pkts  == <<size, out, released>>
lazy  == <<portSig, bound, parked, timerUp, age, sig, deferred>>
acks  == <<ackq, ackOn, armed>>
admin == <<quick, online, detaching, stop, orphaned, rxOrphaned, life>>
env   == <<sent, refused, outages, removals>>
vars  == <<ring, pend, kicking, flow, pkts, lazy, acks, admin, prot, env,
           wire, loc>>

(***************************************************************************)
(* A thread's place: pc; the packet it sends and how many writes of it are *)
(* still to be started; the slots claimed for them; the slot and packet of *)
(* the launch or completion it is in, and which loop that belongs to; the  *)
(* replies it took off the port; what it read earlier and uses later.      *)
(***************************************************************************)
At(where) == [pc |-> where, pkt |-> 0, left |-> 0, claim |-> {}, slot |-> 0,
              cur |-> 0, phase |-> "none", batch |-> {}, reaping |-> FALSE,
              held |-> FALSE, back |-> FALSE, look |-> FALSE, count |-> 0]

Step(a, from, upd) ==
    /\ loc[a].pc = from
    /\ loc' = [loc EXCEPT ![a] = upd @@ @]

To(p) == [pc |-> p]

Init ==
    /\ quick \in Quicks
    /\ busy = [s \in Slots |-> FALSE] /\ slotPkt = [s \in Slots |-> 0]
    /\ dev = {} /\ port = {} /\ pend = <<>> /\ kicking = FALSE
    /\ devWrites = 0 /\ limit = Ceiling /\ starved = FALSE /\ stopped = FALSE
    /\ size = [p \in Packets |-> 0]
    /\ out = [p \in Packets |-> 0] /\ released = [p \in Packets |-> 0]
    /\ portSig = TRUE /\ bound = TRUE /\ parked = FALSE /\ timerUp = Lazy
    /\ age = 0 /\ sig = FALSE /\ deferred = FALSE
    /\ ackq = <<>> /\ ackOn = (AckQ > 0) /\ armed = FALSE
    /\ online = TRUE /\ detaching = FALSE /\ stop = FALSE
    /\ orphaned = FALSE /\ rxOrphaned = FALSE /\ life = "open"
    /\ prot = NoOne /\ sent = 0 /\ refused = 0 /\ outages = 0
    /\ removals = 0 /\ wire = 0
    /\ loc = [a \in Actors |-> At(IF a = Reader THEN "top" ELSE "idle")]

Free == {s \in Slots : ~busy[s]}

(* The n lowest free slots, as the scans from index 0 find them. *)
Lowest(n) == {s \in Free : Cardinality({r \in Free : r <= s}) <= n}

(* ami_sana2_tx_flow(): stop TCP at the limit, wake it at half. *)
Flow(count) ==
    /\ stopped' = IF count >= limit THEN TRUE
                  ELSE IF count <= limit \div 2 THEN FALSE ELSE stopped
    /\ starved' = (starved \/ (count >= limit /\ ~stopped))
    /\ UNCHANGED limit

(* ami_sana2_dev_put() and the counting of a claim: not for a quick device. *)
Counted(n) == IF quick THEN 0 ELSE n

(* Mutant: every child's share releases the parent. *)
PutSharesMutant(p, n) ==
    /\ out' = [out EXCEPT ![p] = @ - n]
    /\ released' = [released EXCEPT ![p] = @ + 1]
    /\ UNCHANGED size

(* Shares of a packet given back; the last one releases it, once. *)
PutShares(p, n) ==
    /\ out' = [out EXCEPT ![p] = @ - n]
    /\ released' = IF out[p] = n THEN [released EXCEPT ![p] = @ + 1]
                                 ELSE released
    /\ UNCHANGED size

-----------------------------------------------------------------------------
(* Collection: ami_sana2_tx_reap(), ami_sana2_tx_complete(). *)

AfterReap(a) == IF loc[a].pkt # 0 THEN "send"
                ELSE IF a = Reader THEN "ack"
                ELSE IF a = Admin THEN "count" ELSE "done"

(* The empty-port test, outside any lock. *)
Reap(a) ==
    /\ Step(a, "reap", To(IF port = {} THEN AfterReap(a) ELSE "splice"))
    /\ UNCHANGED <<ring, pend, kicking, flow, pkts, lazy, acks, admin, prot,
                   env, wire>>

(* The whole list off the port under Disable(). *)
Splice(a) ==
    /\ Step(a, "splice", [pc |-> "batch", batch |-> port, reaping |-> TRUE,
                          phase |-> "batch"])
    /\ port' = {}
    /\ UNCHANGED <<busy, slotPkt, dev, devWrites, pend, kicking, flow, pkts,
                   lazy, acks, admin, prot, env, wire>>

(* The packet back to NetX Duo, or a GSO child's share of its parent: for  *)
(* the next reply of the batch, or for a write done inside BeginIO().      *)
Complete(a) ==
    LET s == IF loc[a].pc = "batch" THEN Min(loc[a].batch) ELSE loc[a].slot
    IN /\ \/ /\ loc[a].batch # {}
             /\ Step(a, "batch", [pc |-> "put", slot |-> s,
                                  batch |-> loc[a].batch \ {s}])
          \/ Step(a, "release", To("put"))
       /\ PutShares(slotPkt[s], 1)
       /\ slotPkt' = [slotPkt EXCEPT ![s] = 0]
       /\ UNCHANGED <<busy, dev, port, devWrites, pend, kicking, flow, lazy,
                      acks, admin, prot, env, wire>>


(* After the last reply: the slots are what the queued writes wait for. *)
BatchDone(a) ==
    /\ loc[a].batch = {}
    /\ Step(a, "batch", To(IF pend # <<>> THEN "kick" ELSE "settle"))
    /\ UNCHANGED <<ring, pend, kicking, flow, pkts, lazy, acks, admin, prot,
                   env, wire>>

(* tx_dev_writes down by one, before the slot is handed back. *)
DevPut(a) ==
    /\ \/ Step(a, "put", To("free"))
       \/ Step(a, "uput", To("ufree"))
    /\ devWrites' = devWrites - Counted(1)
    /\ UNCHANGED <<busy, slotPkt, dev, port, pend, kicking, flow, pkts, lazy,
                   acks, admin, prot, env, wire>>

Resume(a) == CASE loc[a].phase = "batch"  -> "batch"
               [] loc[a].phase = "kick"   -> "kdone"
               [] loc[a].phase = "direct" -> "after"

(* The store that hands the slot back, last. *)
HandBack(a) ==
    /\ \/ Step(a, "free", To(Resume(a)))
       \/ Step(a, "ufree", To("uback"))
    /\ busy' = [busy EXCEPT ![loc[a].slot] = FALSE]
    /\ UNCHANGED <<slotPkt, dev, port, devWrites, pend, kicking, flow, pkts,
                   lazy, acks, admin, prot, env, wire>>

(* A write that never started: its packet, or its share, goes back. *)
GiveBack(a) ==
    /\ Step(a, "uback", To(Resume(a)))
    /\ PutShares(loc[a].cur, 1)
    /\ UNCHANGED <<ring, pend, kicking, flow, lazy, acks, admin, prot, env,
                   wire>>

(* ami_sana2_tx_settle(): the count is two loads ... *)
SettleRead(a) ==
    /\ IF quick
       THEN Step(a, "settle", [pc |-> AfterReap(a), reaping |-> FALSE,
                               phase |-> "none", slot |-> 0, cur |-> 0])
       ELSE Step(a, "settle", [pc |-> "settle2", count |-> Len(pend),
                               reaping |-> FALSE, phase |-> "none",
                               slot |-> 0, cur |-> 0])
    /\ UNCHANGED <<ring, pend, kicking, flow, pkts, lazy, acks, admin, prot,
                   env, wire>>

SettleRead2(a) ==
    /\ Step(a, "settle2", [pc |-> "wake", count |-> loc[a].count + devWrites])
    /\ UNCHANGED <<ring, pend, kicking, flow, pkts, lazy, acks, admin, prot,
                   env, wire>>

(* ... used here, outside Forbid(): a queue that ran dry behind a stop     *)
(* doubles the limit, TCP is woken at half of it, and a measuring window   *)
(* that is due sets it anew, at most half a step down.                     *)
Doubled == Min({IF limit < StopAt THEN 2 * limit ELSE limit, Ceiling})

SettleWake(a) ==
    LET n   == loc[a].count
        lim == IF n = 0 /\ starved THEN Doubled ELSE limit
    IN /\ Step(a, "wake", [pc |-> AfterReap(a), count |-> 0])
       /\ starved' = (starved /\ n # 0)
       /\ stopped' = (stopped /\ n > lim \div 2)
       /\ limit' \in {lim} \cup
                    {m \in Limits : m >= lim \div 2 /\ m <= Ceiling}
       /\ UNCHANGED <<ring, pend, kicking, pkts, lazy, acks, admin, prot, env,
                      wire>>

-----------------------------------------------------------------------------
(* Starting writes: ami_sana2_tx_kick(), ami_sana2_tx_launch(). *)

CanKick == ~kicking /\ pend # <<>> /\ Free # {}

(* One Forbid() section: the launcher flag, a slot and the head together. *)
Kick(a) ==
    /\ IF CanKick
       THEN LET s == Min(Free) IN
            /\ Step(a, "kick", [pc |-> "kgo", slot |-> s, cur |-> Head(pend),
                                phase |-> "kick"])
            /\ busy' = [busy EXCEPT ![s] = TRUE]
            /\ kicking' = TRUE
            /\ pend' = Tail(pend)
            /\ devWrites' = devWrites + Counted(1)
            /\ Flow(Len(pend) - 1 + devWrites + Counted(1))
       ELSE /\ Step(a, "kick", [pc |-> IF loc[a].reaping THEN "settle"
                                       ELSE "done", slot |-> 0, cur |-> 0])
            /\ UNCHANGED <<busy, kicking, pend, devWrites, flow>>
    /\ UNCHANGED <<slotPkt, dev, port, pkts, lazy, acks, admin, prot, env,
                   wire>>

(* Went down while the write waited: it goes back unstarted. *)
KickGo(a) ==
    /\ Step(a, "kgo", To(IF online THEN "look" ELSE "uput"))
    /\ UNCHANGED <<ring, pend, kicking, flow, pkts, lazy, acks, admin, prot,
                   env, wire>>

(* The flag back; the loop looks at the queue again. *)
KickDone(a) ==
    /\ Step(a, "kdone", To("kick"))
    /\ kicking' = FALSE
    /\ UNCHANGED <<ring, pend, flow, pkts, lazy, acks, admin, prot, env,
                   wire>>

(* Up to the parking decision, made on what this thread reads now; or a    *)
(* raw write without room for its link header.                             *)
Look(a) ==
    /\ \/ /\ Step(a, "look", [pc |-> "begin",
                              look |-> timerUp /\ ~parked /\ pend = <<>>])
          /\ age' = 0
          /\ UNCHANGED refused
       \/ /\ refused < MaxRefused
          /\ Step(a, "look", To("uput"))
          /\ size[loc[a].cur] = 1
          /\ refused' = refused + 1
          /\ UNCHANGED age
    /\ UNCHANGED <<ring, pend, kicking, flow, pkts, portSig, bound, parked,
                   timerUp, sig, deferred, acks, admin, prot, sent, outages,
                   removals, wire>>

(* The port parked, then BeginIO().  The device queues the write, or keeps *)
(* IOF_QUICK and is done with it.                                          *)
Begin(a) ==
    LET s    == loc[a].slot
        park == loc[a].look /\ bound /\ portSig
    IN /\ loc[a].pc = "begin"
       /\ slotPkt' = [slotPkt EXCEPT ![s] = loc[a].cur]
       /\ wire' = loc[a].cur
       /\ portSig' = (portSig /\ ~park)
       /\ parked' = (parked \/ park)
       /\ \/ /\ Step(a, "begin", [pc |-> Resume(a), look |-> FALSE])
             /\ dev' = dev \cup {s}
          \/ /\ quick
             /\ Step(a, "begin", [pc |-> "release", look |-> FALSE])
             /\ UNCHANGED dev
       /\ UNCHANGED <<busy, port, devWrites, pend, kicking, flow, pkts, bound,
                      timerUp, age, sig, deferred, acks, admin, prot, env>>

-----------------------------------------------------------------------------
(* ami_sana2_tx_send_now(), ami_sana2_gso_send(). *)

(* After the reap: an interface that is down hands the packet back. *)
Send(a) ==
    /\ IF online
       THEN /\ Step(a, "send", To("claim"))
            /\ UNCHANGED pkts
       ELSE /\ Step(a, "send", [pc |-> "done", left |-> 0])
            /\ PutShares(loc[a].pkt, loc[a].left)
    /\ UNCHANGED <<ring, pend, kicking, flow, lazy, acks, admin, prot, env,
                   wire>>

ClaimSlots(a, n) ==
    /\ busy' = [s \in Slots |-> busy[s] \/ s \in Lowest(n)]
    /\ devWrites' = devWrites + Counted(Cardinality(Lowest(n)))
    /\ IF devWrites' >= limit THEN Flow(Len(pend) + devWrites')
                              ELSE UNCHANGED flow

(* Mutant: a free slot is enough, whoever is launching. *)
ClaimMutant(a) ==
    /\ IF pend = <<>> /\ Free # {}
       THEN /\ Step(a, "claim", [pc |-> "next", claim |-> Lowest(loc[a].left),
                                 held |-> TRUE, phase |-> "direct"])
            /\ ClaimSlots(a, loc[a].left)
            /\ kicking' = TRUE
       ELSE /\ Step(a, "claim", To("enqueue"))
            /\ UNCHANGED <<busy, devWrites, kicking, flow>>
    /\ UNCHANGED <<slotPkt, dev, port, pend, pkts, lazy, acks, admin, prot,
                   env, wire>>

(* Straight into slots, with the launcher flag; else behind what waits. *)
Claim(a) ==
    /\ IF ~kicking /\ pend = <<>> /\ Free # {}
       THEN /\ Step(a, "claim", [pc |-> "next", claim |-> Lowest(loc[a].left),
                                 held |-> TRUE, phase |-> "direct"])
            /\ ClaimSlots(a, loc[a].left)
            /\ kicking' = TRUE
       ELSE /\ Step(a, "claim", To("enqueue"))
            /\ UNCHANGED <<busy, devWrites, kicking, flow>>
    /\ UNCHANGED <<slotPkt, dev, port, pend, pkts, lazy, acks, admin, prot,
                   env, wire>>

(* The claimed slots are launched in order; when none is left and one came *)
(* straight back, more are claimed; the rest joins the queue.              *)
NextChild(a) ==
    /\ \/ /\ loc[a].claim # {}
          /\ LET s == Min(loc[a].claim) IN
             Step(a, "next", [pc |-> "look", slot |-> s, cur |-> loc[a].pkt,
                              claim |-> loc[a].claim \ {s},
                              left |-> loc[a].left - 1])
       \/ /\ loc[a].claim = {}
          /\ Step(a, "next", [pc |-> IF loc[a].back /\ loc[a].left > 0
                                        /\ pend = <<>>
                                     THEN "again" ELSE "reflow",
                              slot |-> 0, cur |-> 0, back |-> FALSE])
    /\ UNCHANGED <<ring, pend, kicking, flow, pkts, lazy, acks, admin, prot,
                   env, wire>>

(* After one child's launch: did its slot come back at once? *)
ChildOut(a) ==
    /\ Step(a, "after", [pc |-> "next",
                         back |-> loc[a].back \/ ~busy[loc[a].slot]])
    /\ UNCHANGED <<ring, pend, kicking, flow, pkts, lazy, acks, admin, prot,
                   env, wire>>

ClaimAgain(a) ==
    /\ IF pend = <<>> /\ Free # {}
       THEN /\ Step(a, "again", [pc |-> "next", claim |-> Lowest(loc[a].left)])
            /\ ClaimSlots(a, loc[a].left)
       ELSE /\ Step(a, "again", To("reflow"))
            /\ UNCHANGED <<busy, devWrites, flow>>
    /\ UNCHANGED <<slotPkt, dev, port, pend, kicking, pkts, lazy, acks, admin,
                   prot, env, wire>>

(* Children that finished inside BeginIO() leave no reply behind to run    *)
(* the wake: a stop is looked at again.                                    *)
Reflow(a) ==
    /\ Step(a, "reflow", To(IF loc[a].left > 0 THEN "enqueue" ELSE "unclaim"))
    /\ IF stopped /\ size[loc[a].pkt] > 1
       THEN Flow(Len(pend) + devWrites) ELSE UNCHANGED flow
    /\ UNCHANGED <<ring, pend, kicking, pkts, lazy, acks, admin, prot, env,
                   wire>>

(* ami_sana2_tx_enqueue(): all of the rest or none of it. *)
Enqueue(a) ==
    /\ IF Pend - Len(pend) >= loc[a].left
       THEN /\ Step(a, "enqueue", [pc |-> "unpark", left |-> 0])
            /\ pend' = pend \o [i \in 1..loc[a].left |-> loc[a].pkt]
            /\ Flow(Len(pend) + loc[a].left + devWrites)
            /\ UNCHANGED pkts
       ELSE /\ Step(a, "enqueue", [pc |-> IF loc[a].held THEN "unclaim"
                                          ELSE "done", left |-> 0])
            /\ PutShares(loc[a].pkt, loc[a].left)
            /\ UNCHANGED <<pend, flow>>
    /\ UNCHANGED <<ring, kicking, lazy, acks, admin, prot, env, wire>>

(* While writes wait, the reader is told of every completion. *)
Unpark(a) ==
    /\ Step(a, "unpark", To(IF loc[a].held THEN "unclaim" ELSE "kick"))
    /\ portSig' = (portSig \/ (parked /\ bound))
    /\ parked' = FALSE
    /\ UNCHANGED <<ring, pend, kicking, flow, pkts, bound, timerUp, age, sig,
                   deferred, acks, admin, prot, env, wire>>

(* The launcher flag back ... *)
Unclaim(a) ==
    /\ Step(a, "unclaim", [pc |-> "unkick", held |-> FALSE])
    /\ kicking' = FALSE
    /\ UNCHANGED <<ring, pend, flow, pkts, lazy, acks, admin, prot, env,
                   wire>>

(* ... then what queued behind it. *)
UnclaimKick(a) ==
    /\ Step(a, "unkick", To(IF pend # <<>> THEN "kick" ELSE "done"))
    /\ UNCHANGED <<ring, pend, kicking, flow, pkts, lazy, acks, admin, prot,
                   env, wire>>

Return(a) ==
    /\ loc[a].pc = "done"
    /\ loc' = [loc EXCEPT ![a] = At(IF a # Reader THEN "idle"
                                    ELSE IF ackOn THEN "ack" ELSE "flush")]
    /\ prot' = IF a = Reader THEN prot ELSE NoOne
    /\ UNCHANGED <<ring, pend, kicking, flow, pkts, lazy, acks, admin, env,
                   wire>>

(* NetX Duo's driver entry, under nx_ip_protection: n writes of a packet. *)
(* A removal in progress refuses it; a pure acknowledgment may be held.   *)
Call(a, n, ack) ==
    LET p == sent + 1 IN
    /\ loc[a].pc = "idle" /\ a \in Senders
    /\ prot = NoOne /\ life = "open"
    /\ sent < MaxPackets
    /\ ack => (n = 1 /\ AckQ > 0)
    /\ sent' = p
    /\ size' = [size EXCEPT ![p] = n]
    /\ IF detaching
       THEN /\ released' = [released EXCEPT ![p] = 1]
            /\ UNCHANGED <<out, loc, prot>>
       ELSE /\ out' = [out EXCEPT ![p] = n]
            /\ Step(a, "idle", [pc |-> IF ack THEN "hold" ELSE "reap",
                                pkt |-> p, left |-> n])
            /\ prot' = a
            /\ UNCHANGED released
    /\ UNCHANGED <<ring, pend, kicking, flow, lazy, acks, admin, refused,
                   outages, removals, wire>>

(* ami_sana2_ack_hold(): early, there is room and a reader to let it go.   *)
(* Otherwise it goes now, in or out of turn.                               *)
Hold(a) ==
    /\ \/ /\ ackOn /\ Len(ackq) < AckQ
          /\ ackq' = Append(ackq, loc[a].pkt)
          /\ Step(a, "hold", [pc |-> "done", pkt |-> 0, left |-> 0])
          /\ sig' = TRUE
       \/ /\ Step(a, "hold", To("reap"))
          /\ UNCHANGED <<ackq, sig>>
    /\ UNCHANGED <<ring, pend, kicking, flow, pkts, portSig, bound, parked,
                   timerUp, age, deferred, ackOn, armed, admin, prot, env,
                   wire>>

-----------------------------------------------------------------------------
(* The reader, the lazy tick, the IP thread and the device. *)

ReaderTop ==
    /\ Step(Reader, "top", To(IF stop THEN "ackoff" ELSE "reap"))
    /\ UNCHANGED <<ring, pend, kicking, flow, pkts, lazy, acks, admin, prot,
                   env, wire>>

(* ami_sana2_ack_release(): one that is due goes, outside nx_ip_protection; *)
(* with one still held the timer is running when the reader goes on.       *)
ReaderAck ==
    /\ ackq # <<>>
    /\ Step(Reader, "ack", [pc |-> "reap", pkt |-> Head(ackq), left |-> 1])
    /\ ackq' = Tail(ackq)
    /\ UNCHANGED <<ring, pend, kicking, flow, pkts, lazy, ackOn, armed, admin,
                   prot, env, wire>>

ReaderRest ==
    /\ Step(Reader, "ack", To("wait"))
    /\ armed' = (armed \/ ackq # <<>>)
    /\ UNCHANGED <<ring, pend, kicking, flow, pkts, lazy, ackq, ackOn, admin,
                   prot, env, wire>>

(* Wait(): a completion, a held acknowledgment, its timer, the stop, or a  *)
(* received frame, which may come at any time.                             *)
Woken == sig \/ armed \/ stop

ReaderWake ==
    /\ Step(Reader, "wait", To("top"))
    /\ sig' = FALSE
    /\ armed' = FALSE
    /\ UNCHANGED <<ring, pend, kicking, flow, pkts, portSig, bound, parked,
                   timerUp, age, deferred, ackq, ackOn, admin, prot, env,
                   wire>>

(* ami_sana2_ack_reader_stop(): nothing is held from here on ...           *)
ReaderAckOff ==
    /\ Step(Reader, "ackoff", To("flush"))
    /\ ackOn' = FALSE
    /\ UNCHANGED <<ring, pend, kicking, flow, pkts, lazy, ackq, armed, admin,
                   prot, env, wire>>

(* ami_sana2_tx_reap_unbind(): the port is nobody's, not parked. *)
Unbind == portSig' = FALSE /\ bound' = FALSE /\ parked' = FALSE

(* ... and all that is held goes; then the reply port lets go of the task. *)
ReaderFlush ==
    /\ \/ /\ ackq # <<>>
          /\ Step(Reader, "flush", [pc |-> "reap", pkt |-> Head(ackq),
                                    left |-> 1])
          /\ ackq' = Tail(ackq)
          /\ UNCHANGED <<portSig, bound, parked>>
       \/ /\ ackq = <<>>
          /\ Step(Reader, "flush", To("out"))
          /\ Unbind
          /\ UNCHANGED ackq
    /\ UNCHANGED <<ring, pend, kicking, flow, pkts, timerUp, age, sig,
                   deferred, ackOn, armed, admin, prot, env, wire>>

(* ReplyMsg() onto tx_port: the reader is signalled unless it is parked.   *)
Reply(s) ==
    /\ s \in dev
    /\ dev' = dev \ {s}
    /\ port' = port \cup {s}
    /\ sig' = (sig \/ (portSig /\ bound))
    /\ UNCHANGED <<busy, slotPkt, devWrites, pend, kicking, flow, pkts,
                   portSig, bound, parked, timerUp, age, deferred, acks,
                   admin, prot, env, loc, wire>>

(* Mutant: the tick collects only when it is the one to unpark the port. *)
LazyTickMutant ==
    LET quiet == parked /\ age >= 1 IN
    /\ timerUp
    /\ age' = IF parked /\ ~quiet THEN 1 ELSE 0
    /\ portSig' = (portSig \/ (quiet /\ bound))
    /\ parked' = (parked /\ ~quiet)
    /\ deferred' = (deferred \/ (quiet /\ port # {}))
    /\ UNCHANGED <<ring, pend, kicking, flow, pkts, bound, timerUp, sig, acks,
                   admin, prot, env, loc, wire>>

(* ami_sana2_tx_lazy_tick(): two ticks after the last send the port        *)
(* signals again; what is on it already goes to the IP thread.             *)
LazyTick ==
    LET quiet == parked /\ age >= 1 IN
    /\ timerUp
    /\ age' = IF parked /\ ~quiet THEN 1 ELSE 0
    /\ portSig' = (portSig \/ (quiet /\ bound))
    /\ parked' = (parked /\ ~quiet)
    /\ deferred' = (deferred \/ port # {})
    /\ UNCHANGED <<ring, pend, kicking, flow, pkts, bound, timerUp, sig, acks,
                   admin, prot, env, loc, wire>>

(* NX_LINK_DEFERRED_PROCESSING, on the IP thread. *)
Deferred ==
    /\ deferred /\ prot = NoOne /\ life = "open"
    /\ deferred' = FALSE
    /\ IF detaching
       THEN UNCHANGED <<loc, prot>>
       ELSE Step(Ip, "idle", To("reap")) /\ prot' = Ip
    /\ UNCHANGED <<ring, pend, kicking, flow, pkts, portSig, bound, parked,
                   timerUp, age, sig, acks, admin, env, wire>>

(* A read came back S2ERR_OUTOFSERVICE, and later the unit is back.        *)
Outage ==
    /\ loc[Reader].pc \in {"wait", "top"} /\ ~stop
    /\ \/ online /\ outages < MaxOutages /\ outages' = outages + 1
       \/ ~online /\ outages > 0 /\ ~detaching /\ UNCHANGED outages
    /\ online' = ~online
    /\ UNCHANGED <<ring, pend, kicking, flow, pkts, lazy, acks, quick,
                   detaching, stop, orphaned, rxOrphaned, life, prot, sent,
                   refused, removals, loc, wire>>

-----------------------------------------------------------------------------
(* Going down: a removal, ami_sana2_close(), the retained sweep. *)

(* AMI_LINK_DETACH_BEGIN, under nx_ip_protection; what follows is not.     *)
Detach ==
    /\ removals < Removals /\ life = "open" /\ prot = NoOne
    /\ Step(Admin, "idle", To("rxstop"))
    /\ removals' = removals + 1
    /\ detaching' = TRUE
    /\ UNCHANGED <<ring, pend, kicking, flow, pkts, lazy, acks, quick, online,
                   stop, orphaned, rxOrphaned, life, prot, sent, refused,
                   outages, wire>>

(* ami_sana2_tx_lazy_stop(): without the tick no parking is safe. *)
LazyStop ==
    /\ timerUp' = FALSE
    /\ portSig' = (portSig \/ (timerUp /\ bound))
    /\ parked' = FALSE

(* ami_sana2_rx_stop(): the lazy tick goes first, then the reader is told, *)
RxStop ==
    /\ Step(Admin, "rxstop", To("offline"))
    /\ LazyStop
    /\ stop' = TRUE
    /\ UNCHANGED <<ring, pend, kicking, flow, pkts, bound, age, sig, deferred,
                   acks, quick, online, detaching, orphaned, rxOrphaned, life,
                   prot, env, wire>>

(* then the wire goes offline, *)
Offline ==
    /\ Step(Admin, "offline", To("join"))
    /\ online' = FALSE
    /\ UNCHANGED <<ring, pend, kicking, flow, pkts, lazy, acks, quick,
                   detaching, stop, orphaned, rxOrphaned, life, prot, env,
                   wire>>

(* then its semaphore, or five seconds: a reader that late is held in      *)
(* the device, or in its receive half.                                     *)
Join ==
    /\ loc[Reader].pc \in {"out", "begin", "wait"}
    /\ Step(Admin, "join", To("drain"))
    /\ rxOrphaned' = (loc[Reader].pc # "out")
    /\ UNCHANGED <<ring, pend, kicking, flow, pkts, lazy, acks, quick, online,
                   detaching, stop, orphaned, life, prot, env, wire>>

(* ami_sana2_tx_drain(): the queue back to the pool, one write at a time,  *)
(* each with its look at the stop; then the device is asked (AbortIO()).   *)
Drain ==
    /\ IF pend # <<>>
       THEN /\ Step(Admin, "drain", [pc |-> "drained", cur |-> Head(pend)])
            /\ pend' = Tail(pend)
            /\ Flow(Len(pend) - 1 + devWrites)
       ELSE /\ Step(Admin, "drain", To("reap"))
            /\ Flow(devWrites)
            /\ UNCHANGED pend
    /\ UNCHANGED <<ring, kicking, pkts, lazy, acks, admin, prot, env, wire>>

Drained ==
    /\ Step(Admin, "drained", [pc |-> "drain", cur |-> 0])
    /\ PutShares(loc[Admin].cur, 1)
    /\ UNCHANGED <<ring, pend, kicking, flow, lazy, acks, admin, prot, env,
                   wire>>

(* Reaped, the busy slots are counted: none, or after 64 tries given up.   *)
(* The sweep asks once.                                                    *)
Count ==
    /\ \/ /\ Free = Slots
          /\ orphaned' = FALSE
          /\ Step(Admin, "count", To("close"))
       \/ /\ Free # Slots
          /\ orphaned' = TRUE
          /\ Step(Admin, "count", To("close"))
       \/ /\ Free # Slots /\ life = "open"
          /\ Step(Admin, "count", To("reap"))
          /\ UNCHANGED orphaned
    /\ UNCHANGED <<ring, pend, kicking, flow, pkts, lazy, acks, quick, online,
                   detaching, stop, rxOrphaned, life, prot, env, wire>>

(* Mutant: the close asks for the reader and not for the writes. *)
CloseMutant ==
    /\ IF rxOrphaned /\ (life = "open" \/ loc[Reader].pc # "out")
       THEN /\ Step(Admin, "close", To("retained"))
            /\ life' = "retained"
       ELSE /\ Step(Admin, "close", To("gone"))
            /\ life' = "freed"
    /\ UNCHANGED <<ring, pend, kicking, flow, pkts, lazy, acks, quick, online,
                   detaching, stop, orphaned, rxOrphaned, prot, env, wire>>

(* ami_sana2_close() and the retained sweep: freed only when neither the   *)
(* reader nor a request is still out; the sweep asks again later.          *)
Close ==
    /\ IF orphaned \/ (rxOrphaned /\ (life = "open" \/ loc[Reader].pc # "out"))
       THEN /\ Step(Admin, "close", To("retained"))
            /\ life' = "retained"
       ELSE /\ Step(Admin, "close", To("gone"))
            /\ life' = "freed"
    /\ UNCHANGED <<ring, pend, kicking, flow, pkts, lazy, acks, quick, online,
                   detaching, stop, orphaned, rxOrphaned, prot, env, wire>>

Sweep ==
    /\ Step(Admin, "retained", To("reap"))
    /\ UNCHANGED <<ring, pend, kicking, flow, pkts, lazy, acks, admin, prot,
                   env, wire>>

-----------------------------------------------------------------------------
Work(a) ==
    \/ Reap(a) \/ Splice(a) \/ Complete(a) \/ BatchDone(a)
    \/ DevPut(a) \/ HandBack(a) \/ GiveBack(a)
    \/ SettleRead(a) \/ SettleRead2(a) \/ SettleWake(a)
    \/ Kick(a) \/ KickGo(a) \/ KickDone(a) \/ Look(a) \/ Begin(a)
    \/ Send(a) \/ Claim(a) \/ NextChild(a) \/ ChildOut(a) \/ ClaimAgain(a)
    \/ Reflow(a) \/ Enqueue(a) \/ Unpark(a) \/ Unclaim(a) \/ UnclaimKick(a)
    \/ Return(a) \/ Hold(a)

ReaderLoop ==
    ReaderTop \/ ReaderAck \/ ReaderRest \/ ReaderAckOff \/ ReaderFlush

AdminStep ==
    \/ RxStop \/ Offline \/ Join \/ Drain \/ Drained
    \/ Count \/ Close \/ Sweep

Next ==
    \/ \E a \in Actors : Work(a)
    \/ \E a \in Senders, n \in Sizes, ack \in BOOLEAN : Call(a, n, ack)
    \/ ReaderLoop \/ ReaderWake
    \/ \E s \in Slots : Reply(s)
    \/ LazyTick \/ Deferred \/ Outage
    \/ Detach \/ AdminStep

Spec == Init /\ [][Next]_vars

(***************************************************************************)
(* The scheduling the code relies on: each thread runs when it can, the    *)
(* reader comes back to a held acknowledgment when it is due, the tick     *)
(* runs, and the device answers the writes it took.                        *)
(***************************************************************************)
Thread(a) ==
    \/ loc[a].pc \notin {"idle", "wait", "out", "gone"} /\ Work(a)
    \/ a = Reader /\ (ReaderLoop \/ (Woken /\ ReaderWake))
    \/ a = Ip /\ Deferred
    \/ a = Admin /\ AdminStep

FairSpec ==
    /\ Spec
    /\ \A a \in Actors : WF_vars(Thread(a))
    /\ SF_vars(ReaderAck)
    /\ \A s \in Slots : WF_vars(Reply(s))
    /\ WF_vars(LazyTick)

-----------------------------------------------------------------------------
TypeOK ==
    /\ busy \in [Slots -> BOOLEAN] /\ slotPkt \in [Slots -> 0..MaxPackets]
    /\ dev \subseteq Slots /\ port \subseteq Slots
    /\ Len(pend) <= Pend /\ devWrites \in 0..NSlots
    /\ limit \in 2..Ceiling

(* The writes a thread has claimed and not yet given to the device. *)
InHand(a) ==
    (IF loc[a].pc \in {"kgo", "look", "begin"} THEN <<loc[a].cur>> ELSE <<>>)
    \o [i \in 1..Cardinality(loc[a].claim) |-> loc[a].pkt]

Launchers == {a \in Actors : InHand(a) # <<>>}

(* The launcher's, whoever has the flag, then those queued. *)
Line ==
    IF kicking /\ Launchers # {}
    THEN InHand(CHOOSE a \in Launchers : TRUE) \o pend ELSE pend

(***************************************************************************)
(* The device gets the writes in the order the claims and the queue took   *)
(* them on, whoever starts them and whatever goes down meanwhile, and each *)
(* packet goes back once and after its last write (TxLine).                *)
(***************************************************************************)
LineOf == INSTANCE TxLine WITH
              line <- Line, MaxWrites <- Max(Sizes)

OneLine == LineOf!Spec

(***************************************************************************)
(* Every share of a packet is in exactly one place: a slot, the queue, the *)
(* held acknowledgments or a thread's hands.  So a packet is back with     *)
(* NetX Duo exactly when nothing here can touch it: never twice, never     *)
(* under a device that still reads it, and never lost.                     *)
(***************************************************************************)
Carried(a, p) ==
    (IF loc[a].pkt = p THEN loc[a].left ELSE 0) +
    (IF loc[a].cur = p /\ loc[a].pc \in {"kgo", "look", "begin", "uput",
                                         "ufree", "uback", "drained"}
     THEN 1 ELSE 0)

Places(p) ==
    Cardinality({s \in Slots : slotPkt[s] = p}) +
    Cardinality({i \in DOMAIN pend : pend[i] = p}) +
    Cardinality({i \in DOMAIN ackq : ackq[i] = p}) +
    FoldSet(LAMBDA a, n : Carried(a, p) + n, 0, Actors)

SharesKept ==
    \A p \in 1..sent : /\ out[p] = Places(p)
                       /\ released[p] = (IF out[p] = 0 THEN 1 ELSE 0)

(***************************************************************************)
(* An interface is freed only when the device holds no request of it, no   *)
(* reply is on its way, no write or acknowledgment waits in it, and no     *)
(* thread is inside.                                                       *)
(***************************************************************************)
FreedClear ==
    life = "freed" =>
        /\ dev = {} /\ port = {} /\ pend = <<>> /\ ackq = <<>> /\ Free = Slots
        /\ loc[Reader].pc = "out"
        /\ \A a \in Senders \cup {Ip} : loc[a].pc = "idle"


(* TCP stopped at the limit is always let go on. *)
StopEnds == stopped ~> ~stopped
=============================================================================
