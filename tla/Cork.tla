-------------------------------- MODULE Cork --------------------------------
(***************************************************************************)
(* The small-write cork of one TCP socket: src/bsdsocket/cork.c with its   *)
(* writers in transfer.c, its notifies in select.c, its closes in socket.c *)
(* and the start and stop library.c drives.  The actors are the header's   *)
(* of cork.c: application Tasks sharing the socket, inside the bracket (A, *)
(* B) and outside it (F); the IP thread (I); the window and disconnect     *)
(* notifies (R); the timer (T); and the Task that stops the stack.         *)
(*                                                                         *)
(* A Forbid() section is one step, a call into NetX Duo is one step, and   *)
(* every actor may run between two of them, except that a bracketed Task   *)
(* keeps the baton where it calls no service; what nx_ip_protection        *)
(* excludes is a guard.  A segment is the sequence of its bytes, <<>> for  *)
(* NULL.                                                                   *)
(***************************************************************************)
EXTENDS Naturals, Sequences, FiniteSets, Functions

CONSTANTS Tasks,      \* application Tasks that hold the socket
          Ops,        \* the calls each of them makes
          Cap,        \* as_CorkCap, and the segment size mss
          Windows,    \* what an acknowledgment opens the window to
          MaxBytes,   \* bound on what the Tasks write
          MaxFaults,  \* bound on empty pools and refused sends
          MaxStops,   \* bound on bsd_cork_stop() calls
          Breaks,     \* a break signal may end a blocking write
          Reopens,    \* the library is opened again after a refused stop
          IP, None

ASSUME CorkAssumption ==
  /\ IP \notin Tasks /\ None \notin Tasks \cup {IP}
  /\ Cap \in Nat /\ Windows \subseteq Nat

VARIABLES state, owner, flags, pkt,     \* as_CorkState/Owner/Flags/Pkt
          hand,                         \* an actor's detached segment
          why,                          \* what it will wait on
          job,                          \* each Task's call
          refs, life,                   \* Tasks with a reference; the socket
          wrshut, soErr, faults,        \* ASF_WRSHUT, as_SoError, bound
          conn, finSent, win,           \* external: the NetX Duo socket
          event, ipPc,                  \* NX_IP_CORK_EVENT; the IP thread
          running, tickIp,              \* bsd_cork_ip, bsd_cork_tick_ip
          made, live, ticking,          \* the timer: ours, flagged, in ThreadX
          stopPc, entered, unproven, stops, up,
          written, gone, lost           \* bytes credited, sent, thrown away

seg   == <<state, owner, flags, pkt>>
timer == <<made, live, ticking>>
nx    == <<conn, finSent, win>>
lib   == <<running, tickIp, stopPc, entered, unproven, stops, up>>
sock  == <<refs, life, wrshut, soErr, faults>>
bytes == <<written, gone, lost>>
ip    == <<event, ipPc>>

vars == <<seg, hand, why, job, sock, nx, ip, lib, timer, bytes>>

Actors == Tasks \cup {IP}

Places == {"idle", "copy", "kick", "claim", "work", "give", "fin", "direct",
           "test", "drop", "end"}

TypeOK ==
  /\ state \in {"IDLE", "APPEND", "FLUSH"} /\ owner \in Actors \cup {None}
  /\ flags \subseteq {"ON", "STALLED", "FIN", "TICK", "LINKED", "KICK"}
  /\ DOMAIN pkt \subseteq 1..Cap /\ DOMAIN hand = Actors
  /\ why \in [Actors -> SUBSET {"STALLED", "TICK"}]
  /\ job \in [Tasks -> [pc : Places, len : 0..Cap,
                        op : {"", "send", "drain", "push", "shut", "close", "linger"},
                        then : {"idle", "direct", "drain", "park", "test", "drop"}]]
  /\ refs \subseteq Tasks /\ life \in {"open", "parked", "freed"}
  /\ {wrshut, soErr, conn, finSent, event, running, tickIp, made, live,
      ticking, unproven, up} \subseteq BOOLEAN
  /\ win \in 0..Cap /\ faults \in 0..MaxFaults /\ stops \in 0..MaxStops
  /\ ipPc \in {"wait", "call", "detach", "send", "give", "fin", "settle"}
  /\ stopPc \in {"none", "timer", "flag", "delete", "mutex", "handler",
                 "list", "free", "leave"}
  /\ entered \in {"ok", "refused"}
  /\ {written, gone, lost} \subseteq [Tasks -> 0..MaxBytes]

(* A Task's call: where it is, what it does, with how many bytes, and      *)
(* where it goes once it has given the segment back.                       *)
Job(p, o, n, next) == [pc |-> p, op |-> o, len |-> n, then |-> next]

Idle == Job("idle", "", 0, "idle")

pc(t) == job[t].pc

Ready(t) == pc(t) = "idle" /\ t \in refs /\ running

Do(t, j) == job' = [job EXCEPT ![t] = j]

Goto(t, p) == Do(t, IF p = "idle" THEN Idle ELSE [job[t] EXCEPT !.pc = p])

Then(t, p, next) == Do(t, [job[t] EXCEPT !.pc = p, !.then = next])

(* A connected socket whose Tasks have set TCP_NODELAY 0 or not, with the  *)
(* stack up and the cork not yet started.                                  *)
Init ==
  /\ state = "IDLE" /\ owner = None /\ flags = {} /\ pkt = <<>>
  /\ hand = [a \in Actors |-> <<>>] /\ why = [a \in Actors |-> {}]
  /\ job = [t \in Tasks |-> Idle]
  /\ refs = Tasks /\ life = "open" /\ wrshut = FALSE /\ soErr = FALSE
  /\ faults = 0 /\ conn = TRUE /\ finSent = FALSE /\ win = 0
  /\ event = FALSE /\ ipPc = "wait" /\ running = FALSE /\ tickIp = FALSE
  /\ made = FALSE /\ live = FALSE /\ ticking = FALSE
  /\ stopPc = "none" /\ entered = "ok" /\ unproven = FALSE /\ stops = 0
  /\ up = TRUE
  /\ written = [t \in Tasks |-> 0] /\ gone = written /\ lost = written

----------------------------------------------------------------------------
(* nx_ip_protection is held by the IP thread for its whole event pass and  *)
(* by a stop that got the bracket, from the get to the put.                *)
MutexFree ==
  /\ ipPc = "wait"
  /\ ~(entered = "ok" /\ stopPc \in {"handler", "list", "free", "leave"})

(* bsd_cork_can_send(): a state that carries data, on an interface.        *)
CanSend == conn /\ ~finSent

Count(s, t) == Len(SelectSeq(s, LAMBDA b : b[1] = t))

Drop(s, n) == SubSeq(s, n + 1, Len(s))

Total == FoldFunction(LAMBDA m, n : m + n, 0, written)

(* Bytes a Task is about to be credited.                                   *)
New(t, n) == [i \in 1..n |-> <<t, written[t] + i>>]

(* External: nx_tcp_socket_send() on a detached segment, and what          *)
(* bsd_cork_settle() makes of its status.  A window or transmit queue with *)
(* too little room takes what fits and trims the segment.                  *)
Outcome(sent, left, w, fault) ==
  [sent |-> sent, left |-> left, why |-> w, fault |-> fault]

SettleMutant(s) ==
  IF ~CanSend THEN {Outcome(0, <<>>, {}, FALSE)}
  ELSE (IF Len(s) <= win THEN {Outcome(Len(s), <<>>, {}, FALSE)}
        ELSE {Outcome(win, s, {"STALLED"}, FALSE)})
       \cup (IF faults = MaxFaults THEN {}
             ELSE {Outcome(0, s, {"TICK"}, TRUE), Outcome(0, <<>>, {}, TRUE)})
Settle(s) ==
  IF ~CanSend THEN {Outcome(0, <<>>, {}, FALSE)}
  ELSE (IF Len(s) <= win THEN {Outcome(Len(s), <<>>, {}, FALSE)}
        ELSE {Outcome(win, Drop(s, win), {"STALLED"}, FALSE)})
       \cup (IF faults = MaxFaults THEN {}
             ELSE {Outcome(0, s, {"TICK"}, TRUE), Outcome(0, <<>>, {}, TRUE)})

(* bsd_cork_flush_wait(): a send that waits, or that a break ends before   *)
(* its first try, which leaves the whole segment waiting for the window.   *)
FlushWait(s) ==
  Settle(s) \cup {o \in {Outcome(0, s, {"STALLED"}, FALSE)} : Breaks}

(* The effect of actor a sending s with outcome o.                         *)
Sent(a, s, o) ==
  /\ gone' = [t \in Tasks |-> gone[t] + Count(SubSeq(s, 1, o.sent), t)]
  /\ lost' = [t \in Tasks |-> lost[t] +
                Count(s, t) - Count(SubSeq(s, 1, o.sent), t) - Count(o.left, t)]
  /\ win' = win - o.sent
  /\ hand' = [hand EXCEPT ![a] = o.left]
  /\ why' = [why EXCEPT ![a] = o.why]
  /\ soErr' = (soErr \/ (o.fault /\ o.left = <<>>))
  /\ faults' = IF o.fault THEN faults + 1 ELSE faults
  /\ UNCHANGED <<conn, finSent>>

----------------------------------------------------------------------------
(* The armed list, one socket long, and the tick.                          *)

(* bsd_cork_link_locked(): on the list; the tick started if asked for.     *)
Link(f) ==
  /\ flags' = f \cup {"LINKED"}
  /\ IF "TICK" \in f /\ running /\ made /\ ~live
     THEN live' = TRUE /\ ticking' = TRUE /\ made' = made
     ELSE UNCHANGED timer

(* bsd_cork_claim(): an IDLE socket is taken, off the list, with its       *)
(* segment detached.                                                       *)
Take(a) ==
  /\ state = "IDLE"
  /\ state' = "FLUSH" /\ owner' = a
  /\ flags' = flags \ {"LINKED", "STALLED", "TICK", "KICK"}
  /\ hand' = [hand EXCEPT ![a] = pkt] /\ pkt' = <<>>

(* bsd_cork_unclaim(): what the remainder waits on, given what arrived     *)
(* while the socket was owned.                                             *)
WaitsMutant(w) ==
  LET parked == IF life = "parked" THEN w \cup {"TICK"} ELSE w
  IN IF parked = {} THEN {"TICK"} ELSE parked
WaitsOn(w) ==
  LET kicked == IF "STALLED" \in w /\ "KICK" \in flags THEN {"TICK"} ELSE w
      parked == IF life = "parked" THEN kicked \cup {"TICK"} ELSE kicked
  IN IF parked = {} THEN {"TICK"} ELSE parked

Unclaim(a) ==
  /\ state' = "IDLE" /\ owner' = None /\ pkt' = hand[a]
  /\ hand' = [hand EXCEPT ![a] = <<>>] /\ why' = [why EXCEPT ![a] = {}]
  /\ IF hand[a] # <<>>
     THEN Link((flags \cup WaitsOn(why[a])) \ {"KICK"})
     ELSE flags' = flags \ {"STALLED", "TICK", "FIN", "KICK"} /\ UNCHANGED timer

(* ... and TRUE when the caller now sends the FIN.                         *)
FinDue(a) == hand[a] = <<>> /\ "FIN" \in flags

(* bsd_cork_fin_behind() that left nothing: its caller sends it as well.   *)
FinNow(t) == hand[t] = <<>> /\ job[t].op \in {"shut", "close"}

(* bsd_tcp_send_fin().                                                     *)
SendFin == finSent' = (finSent \/ conn) /\ UNCHANGED <<conn, win>>

(* bsd_cork_window_open(): wake the pass, or leave KICK for the owner.     *)
WindowNotify ==
  IF "STALLED" \in flags
  THEN flags' = flags \ {"STALLED"} /\ event' = (event \/ running)
  ELSE /\ flags' = IF state # "IDLE" THEN flags \cup {"KICK"} ELSE flags
       /\ event' = event

----------------------------------------------------------------------------
(* The fast path, outside the bracket.                                     *)

(* bsd_cork_fast_append(): a write that fits with room to spare.           *)
FastTakeMutant(t, n) ==
  /\ Ready(t)
  /\ "ON" \in flags /\ state = "IDLE" /\ pkt # <<>>
  /\ n < Cap - Len(pkt) /\ Total + n <= MaxBytes
  /\ ~wrshut /\ ~soErr /\ CanSend
  /\ Do(t, Job("copy", "", n, "idle"))
  /\ UNCHANGED <<seg, hand, why, sock, nx, ip, lib, timer, bytes>>
FastTake(t, n) ==
  /\ Ready(t)
  /\ "ON" \in flags /\ state = "IDLE" /\ pkt # <<>> /\ "STALLED" \notin flags
  /\ n < Cap - Len(pkt) /\ Total + n <= MaxBytes
  /\ ~wrshut /\ ~soErr /\ CanSend
  /\ state' = "APPEND"
  /\ Do(t, Job("copy", "", n, "idle"))
  /\ UNCHANGED <<owner, flags, pkt, hand, why, sock, nx, ip, lib,
                 timer, bytes>>

(* ... the copy is done: the length, and the state back to IDLE.           *)
FastDone(t) ==
  /\ pc(t) = "copy"
  /\ pkt' = pkt \o New(t, job[t].len) /\ state' = "IDLE"
  /\ written' = [written EXCEPT ![t] = @ + job[t].len]
  /\ Goto(t, IF "KICK" \in flags THEN "kick" ELSE "idle")
  /\ UNCHANGED <<owner, flags, hand, why, sock, nx, ip,
                 lib, timer, gone, lost>>

(* bsd_cork_kick_tick().                                                   *)
FastKick(t) ==
  /\ pc(t) = "kick" /\ Goto(t, "idle")
  /\ IF "KICK" \in flags /\ state = "IDLE" /\ pkt # <<>>
     THEN Link((flags \ {"KICK", "STALLED"}) \cup {"TICK"})
     ELSE UNCHANGED <<flags, timer>>
  /\ UNCHANGED <<state, owner, pkt, hand, why, sock, nx,
                 ip, lib, bytes>>

----------------------------------------------------------------------------
(* The bracketed calls, up to their claim.  A Task that holds the socket   *)
(* has opened the library, so the cork runs until the last one is gone.    *)

(* A claim for operation o.                                                *)
ToClaim(t, o, n, next) == Do(t, Job("claim", o, n, next))

Corked == pkt # <<>> \/ state # "IDLE"

(* bsd_send_tcp() and the checks before its claim.                         *)
Send(t, n) ==
  /\ Ready(t) /\ ~wrshut
  /\ Total + n <= MaxBytes
  /\ IF "ON" \notin flags /\ ~Corked
     THEN Do(t, Job("direct", "", n, "idle")) /\ soErr' = soErr
     ELSE IF soErr THEN soErr' = FALSE /\ UNCHANGED job
     ELSE ToClaim(t, "send", n, "idle") /\ soErr' = soErr
  /\ UNCHANGED <<seg, hand, why, refs, life, wrshut, faults, nx, ip, lib,
                 timer, bytes>>

(* send(MSG_OOB): one urgent byte, behind whatever is corked.              *)
SendOob(t) ==
  /\ Ready(t) /\ Total < MaxBytes
  /\ IF Corked THEN ToClaim(t, "drain", 1, "direct")
     ELSE Do(t, Job("direct", "", 1, "idle"))
  /\ UNCHANGED <<seg, hand, why, sock, nx, ip, lib, timer, bytes>>

(* recv() that reports the error a pass left, or is about to wait;         *)
(* WaitSelect() with nothing to read.                                      *)
Push(t) ==
  /\ Ready(t)
  /\ \/ soErr /\ "ON" \in flags /\ soErr' = FALSE /\ UNCHANGED job
     \/ pkt # <<>> /\ ToClaim(t, "push", 0, "idle") /\ soErr' = soErr
  /\ UNCHANGED <<seg, hand, why, refs, life, wrshut, faults, nx, ip, lib,
                 timer, bytes>>

(* setsockopt(TCP_NODELAY, 0), refused unless the cork runs.               *)
SetCork(t) ==
  /\ Ready(t)
  /\ flags' = flags \cup {"ON"}
  /\ UNCHANGED <<state, owner, pkt, hand, why, job, sock, nx, ip, lib, timer, bytes>>

(* setsockopt(TCP_NODELAY, 1).                                             *)
ClearCork(t) ==
  /\ Ready(t)
  /\ flags' = flags \ {"ON"}
  /\ IF pkt # <<>> THEN ToClaim(t, "push", 0, "idle") ELSE UNCHANGED job
  /\ UNCHANGED <<state, owner, pkt, hand, why, sock, nx, ip, lib, timer, bytes>>

(* shutdown(SHUT_WR).                                                      *)
Shut(t) ==
  /\ Ready(t)
  /\ wrshut' = TRUE
  /\ IF Corked THEN ToClaim(t, "shut", 0, "idle")
     ELSE Goto(t, "fin")
  /\ UNCHANGED <<seg, hand, why, refs, life, soErr, faults, nx, ip, lib, timer, bytes>>

(* CloseSocket(): the last reference closes, in the way SO_LINGER and      *)
(* unread data ask for.                                                    *)
Close(t, how) ==
  /\ Ready(t)
  /\ refs' = refs \ {t}
  /\ IF refs' # {} THEN UNCHANGED job
     ELSE IF how = "abort" \/ (how = "linger" /\ ~Corked)
     THEN Then(t, "drop", "drop")
     ELSE IF Corked THEN ToClaim(t, how, 0, "drop")
     ELSE Then(t, "fin", "test")
  /\ UNCHANGED <<seg, hand, why, life, wrshut, soErr, faults, nx, ip, lib, timer, bytes>>

(* bsd_cork_claim(), and giving up on it: NX_NO_WAIT, the budget, a break. *)
Claim(t) ==
  /\ pc(t) = "claim" /\ Take(t) /\ Goto(t, "work")
  /\ UNCHANGED <<why, sock, nx, ip, lib, timer, bytes>>

GiveUp(t) ==
  /\ pc(t) = "claim" /\ state # "IDLE" /\ job[t].op \in {"send", "drain", "push"}
  /\ Goto(t, "idle")
  /\ UNCHANGED <<seg, hand, why, sock, nx, ip, lib, timer, bytes>>

----------------------------------------------------------------------------
(* The socket claimed: bsd_send_tcp_cork() and its kin.                    *)

(* Done with the segment: give back s, waiting on w, then go on.           *)
ToGive(t, s, w, next) ==
  /\ Then(t, "give", next)
  /\ hand' = [hand EXCEPT ![t] = s] /\ why' = [why EXCEPT ![t] = w]
  /\ UNCHANGED <<seg, refs, life, wrshut, soErr, nx, ip, lib,
                 timer, gone, lost>>

(* bsd_cork_corkable().                                                    *)
Corkable == "ON" \in flags /\ running /\ CanSend

Working(t, o) == pc(t) = "work" /\ job[t].op = o

(* TCP_NODELAY 1 since, or nothing to cork on: the segment only drains.    *)
Uncorked(t) ==
  /\ Working(t, "send") /\ ~Corkable
  /\ ToGive(t, hand[t], {"TICK"}, "drain") /\ UNCHANGED <<faults, written>>

(* A segment's worth with nothing pending goes around; so does a small     *)
(* write for which there is no packet, unless a break ends the call.       *)
Bypass(t) ==
  /\ Working(t, "send") /\ Corkable /\ hand[t] = <<>>
  /\ \/ job[t].len >= Cap /\ ToGive(t, <<>>, {}, "direct") /\ faults' = faults
     \/ /\ job[t].len < Cap /\ faults < MaxFaults /\ faults' = faults + 1
        /\ \E next \in {"direct", "idle"} : ToGive(t, <<>>, {}, next)
  /\ written' = written

(* It fits: into a new segment or the pending one.                         *)
Grow(t) ==
  /\ Working(t, "send") /\ Corkable /\ Len(hand[t]) + job[t].len < Cap
  /\ ToGive(t, hand[t] \o New(t, job[t].len), {"TICK"}, "idle")
  /\ written' = [written EXCEPT ![t] = @ + job[t].len] /\ faults' = faults

(* A NetX Duo call by Task t with the segment s, then on to next.          *)
NxSend(t, s, o, next) ==
  /\ MutexFree /\ Sent(t, s, o)
  /\ Then(t, "give", next)
  /\ UNCHANGED <<seg, refs, life, wrshut, ip, lib, timer>>

(* It fills the segment: sent now, and credited whatever the answer.       *)
Fill(t) ==
  /\ Working(t, "send") /\ Corkable
  /\ hand[t] # <<>> /\ Len(hand[t]) + job[t].len = Cap
  /\ LET s == hand[t] \o New(t, job[t].len) IN \E o \in Settle(s) : NxSend(t, s, o, "idle")
  /\ written' = [written EXCEPT ![t] = @ + job[t].len]

(* It does not fit: the pending bytes go first.  A caller that may not     *)
(* wait leaves what fits behind a remainder; sent, the rest goes around.   *)
Flush(t) ==
  /\ Working(t, "send") /\ Corkable
  /\ hand[t] # <<>> /\ Len(hand[t]) + job[t].len > Cap
  /\ MutexFree
  /\ \E o \in FlushWait(hand[t]), waits \in BOOLEAN :
       LET room == Cap - Len(o.left)
           n == IF o.left = <<>> \/ waits \/ o \notin Settle(hand[t]) THEN 0
                ELSE IF job[t].len < room THEN job[t].len ELSE room
       IN /\ Sent(t, hand[t] \o New(t, n), [o EXCEPT !.left = @ \o New(t, n)])
          /\ written' = [written EXCEPT ![t] = @ + n]
          /\ Then(t, "give", IF o.left = <<>> THEN "direct" ELSE "idle")
  /\ UNCHANGED <<seg, refs, life, wrshut, ip, lib, timer>>

(* bsd_cork_drain(): everything pending before anything goes around it.    *)
Drain(t) ==
  /\ Working(t, "drain") /\ written' = written
  /\ IF hand[t] = <<>> THEN ToGive(t, <<>>, {}, "direct") /\ faults' = faults
     ELSE \E o \in FlushWait(hand[t]) :
            NxSend(t, hand[t], o, IF o.left = <<>> THEN "direct" ELSE "idle")

(* bsd_cork_push(): one send that does not wait.                           *)
PushNow(t) ==
  /\ Working(t, "push") /\ written' = written
  /\ IF hand[t] = <<>> THEN ToGive(t, <<>>, {}, "idle") /\ faults' = faults
     ELSE \E o \in Settle(hand[t]) : NxSend(t, hand[t], o, "idle")

(* bsd_cork_fin_behind(): a remainder carries the FIN and keeps the tick;  *)
(* with nothing left the caller sends it after the unclaim.                *)
FinBehindMutant(t) ==
  /\ Working(t, "shut") \/ Working(t, "close")
  /\ MutexFree /\ written' = written
  /\ \E o \in IF hand[t] = <<>> THEN {Outcome(0, <<>>, {}, FALSE)} ELSE Settle(hand[t]) :
       /\ Sent(t, hand[t], o)
       /\ Then(t, "give", IF job[t].op = "shut" THEN "idle"
                          ELSE IF o.left # <<>> THEN "park" ELSE "test")
       /\ flags' = IF o.left # <<>> THEN flags \cup {"FIN"} ELSE flags
  /\ UNCHANGED <<state, owner, pkt, refs, life, wrshut, ip, lib, timer>>
FinBehind(t) ==
  /\ Working(t, "shut") \/ Working(t, "close")
  /\ MutexFree /\ written' = written
  /\ \E o \in IF hand[t] = <<>> THEN {Outcome(0, <<>>, {}, FALSE)} ELSE Settle(hand[t]) :
       /\ Sent(t, hand[t], [o EXCEPT !.why = @ \cup {"TICK"}])
       /\ Then(t, "give", IF job[t].op = "shut" THEN "idle"
                          ELSE IF o.left # <<>> THEN "park" ELSE "test")
       /\ flags' = IF o.left # <<>> THEN flags \cup {"FIN"} ELSE flags
  /\ UNCHANGED <<state, owner, pkt, refs, life, wrshut, ip, lib, timer>>

(* bsd_cork_close_linger(): sent within the linger time, or thrown away    *)
(* and the connection aborted.                                             *)
Linger(t) ==
  /\ Working(t, "linger") /\ written' = written
  /\ IF hand[t] = <<>> THEN ToGive(t, <<>>, {}, "drop") /\ faults' = faults
     ELSE /\ MutexFree
          /\ \E o \in Settle(hand[t]) : Sent(t, hand[t], [o EXCEPT !.left = <<>>, !.why = {}])
          /\ Then(t, "give", "drop")
          /\ UNCHANGED <<seg, refs, life, wrshut, ip, lib, timer>>

(* Where a Task goes once the segment is given back and any FIN is out.    *)
(* bsd_cork_close_graceful() that deferred the FIN has the socket parked   *)
(* next, with no ThreadX service between: the baton is not given up there. *)
GoOn(t) ==
  IF job[t].then = "park" THEN Goto(t, "idle") /\ soErr' = soErr
  ELSE IF job[t].then = "drain"
  THEN ToClaim(t, "drain", job[t].len, "direct") /\ soErr' = soErr
  ELSE IF job[t].then = "direct" /\ soErr
  THEN Goto(t, "idle") /\ soErr' = FALSE
  ELSE Goto(t, job[t].then) /\ soErr' = soErr

Give(t) ==
  /\ pc(t) = "give" /\ Unclaim(t)
  /\ IF FinNow(t) \/ (FinDue(t) /\ job[t].op # "linger")
     THEN Goto(t, "fin") /\ soErr' = soErr ELSE GoOn(t)
  /\ life' = IF job[t].then = "park" THEN "parked" ELSE life
  /\ UNCHANGED <<refs, wrshut, faults, nx, ip, lib, bytes>>

Fin(t) ==
  /\ pc(t) = "fin" /\ MutexFree /\ SendFin /\ GoOn(t)
  /\ UNCHANGED <<seg, hand, why, refs, life, wrshut, faults, ip,
                 lib, timer, bytes>>

(* bsd_send_tcp_run(): around the cork, as much as the window takes.       *)
Direct(t) ==
  /\ pc(t) = "direct" /\ MutexFree /\ Goto(t, "idle")
  /\ \E n \in IF wrshut \/ ~CanSend THEN {0} ELSE {k \in 0..job[t].len : k <= win} :
       /\ written' = [written EXCEPT ![t] = @ + n]
       /\ gone' = [gone EXCEPT ![t] = @ + n]
       /\ win' = win - n
  /\ UNCHANGED <<seg, hand, why, sock, conn, finSent, ip,
                 lib, timer, lost>>

(* The tail of bsd_tcp_close_start(): parked, or over already.             *)
Park(t) ==
  /\ \/ pc(t) = "test" /\ conn /\ life' = "parked" /\ Goto(t, "idle")
     \/ pc(t) = "test" /\ ~conn /\ life' = life /\ Goto(t, "drop")
  /\ UNCHANGED <<seg, hand, why, refs, wrshut, soErr,
                 faults, nx, ip, lib, timer, bytes>>

(* bsd_closing_sweep() of a finished or overdue close.                     *)
Sweep(t) ==
  /\ pc(t) = "idle" /\ life = "parked" /\ up /\ stopPc = "none"
  /\ \A u \in Tasks : pc(u) = "idle"
  /\ MutexFree /\ conn' = FALSE /\ Goto(t, "drop")
  /\ UNCHANGED <<seg, hand, why, sock, finSent, win, ip,
                 lib, timer, bytes>>

(* bsd_cork_drop() of an IDLE socket.  An owned one is waited for.         *)
DropSegment(t) ==
  /\ pc(t) = "drop" /\ state = "IDLE" /\ Goto(t, "end")
  /\ lost' = [u \in Tasks |-> lost[u] + Count(pkt, u)] /\ pkt' = <<>>
  /\ flags' = flags \ {"LINKED", "STALLED", "TICK", "FIN", "KICK"}
  /\ UNCHANGED <<state, owner, hand, why, sock, nx, ip, lib, timer, written, gone>>

(* The rest of bsd_socket_destroy(): the abort, nx_tcp_socket_delete(),    *)
(* which takes the mutex, and the memory back.                             *)
Destroy(t) ==
  /\ pc(t) = "end" /\ MutexFree /\ Goto(t, "idle")
  /\ life' = "freed" /\ conn' = FALSE
  /\ UNCHANGED <<seg, hand, why, refs, wrshut, soErr, faults, finSent, win, ip,
                 lib, timer, bytes>>

----------------------------------------------------------------------------
(* The IP thread: bsd_cork_ip_pass().                                      *)

(* The event is taken and the handler read; the mutex is held from here.   *)
IpWake ==
  /\ ipPc = "wait" /\ event /\ up /\ MutexFree
  /\ event' = FALSE
  /\ ipPc' = IF running THEN "call" ELSE "wait"
  /\ UNCHANGED <<seg, hand, why, job, sock, nx, lib, timer, bytes>>

(* The list is taken: claim the socket, keep it for later, or let it go.   *)
PassTakeMutant ==
  /\ ipPc = "call"
  /\ IF ~running \/ "LINKED" \notin flags
     THEN /\ ipPc' = IF running THEN "settle" ELSE "wait"
          /\ UNCHANGED <<seg, timer>>
     ELSE IF state = "IDLE" /\ pkt # <<>> /\ ("STALLED" \notin flags \/ "TICK" \in flags)
     THEN /\ state' = "FLUSH" /\ owner' = IP /\ ipPc' = "detach"
          /\ flags' = flags \ {"LINKED", "STALLED", "TICK", "KICK"}
          /\ UNCHANGED <<pkt, timer>>
     ELSE /\ IF Corked THEN Link(flags) ELSE flags' = flags \ {"LINKED", "STALLED", "TICK"} /\ UNCHANGED timer
          /\ ipPc' = "settle" /\ UNCHANGED <<state, owner, pkt>>
  /\ UNCHANGED <<hand, why, job, sock, nx, event, lib, bytes>>
PassTake ==
  /\ ipPc = "call"
  /\ IF ~running \/ "LINKED" \notin flags
     THEN /\ ipPc' = IF running THEN "settle" ELSE "wait"
          /\ UNCHANGED <<seg, timer>>
     ELSE IF state = "IDLE" /\ pkt # <<>> /\ ("STALLED" \notin flags \/ "TICK" \in flags)
     THEN /\ state' = "FLUSH" /\ owner' = IP /\ ipPc' = "detach"
          /\ flags' = flags \ {"LINKED", "STALLED", "TICK", "KICK"}
          /\ UNCHANGED <<pkt, timer>>
     ELSE /\ IF Corked
             THEN Link(IF state = "APPEND" THEN flags \cup {"TICK"} ELSE flags)
             ELSE flags' = flags \ {"LINKED", "STALLED", "TICK"} /\ UNCHANGED timer
          /\ ipPc' = "settle" /\ UNCHANGED <<state, owner, pkt>>
  /\ UNCHANGED <<hand, why, job, sock, nx, event, lib, bytes>>

(* bsd_cork_ip_flush(): detach, send, give back, the FIN.                  *)
PassDetach ==
  /\ ipPc = "detach" /\ ipPc' = "send"
  /\ hand' = [hand EXCEPT ![IP] = pkt] /\ pkt' = <<>>
  /\ UNCHANGED <<state, owner, flags, why, job, sock, nx, event, lib, timer, bytes>>

PassSend ==
  /\ ipPc = "send" /\ ipPc' = "give"
  /\ \E o \in Settle(hand[IP]) : Sent(IP, hand[IP], o)
  /\ UNCHANGED <<seg, job, refs, life, wrshut, event, lib, timer, written>>

PassGive ==
  /\ ipPc = "give" /\ Unclaim(IP)
  /\ ipPc' = IF FinDue(IP) THEN "fin" ELSE "settle"
  /\ UNCHANGED <<job, sock, nx, event, lib, bytes>>

PassFin ==
  /\ ipPc = "fin" /\ ipPc' = "settle" /\ SendFin
  /\ UNCHANGED <<seg, hand, why, job, sock, event, lib, timer, bytes>>

(* bsd_cork_tick_settle_locked(), and the end of the event pass.           *)
PassSettle ==
  /\ ipPc = "settle" /\ ipPc' = "wait"
  /\ IF live /\ ~("LINKED" \in flags /\ "TICK" \in flags)
     THEN live' = FALSE /\ ticking' = FALSE /\ made' = made
     ELSE UNCHANGED timer
  /\ UNCHANGED <<seg, hand, why, job, sock, nx, event, lib, bytes>>

(* bsd_cork_tick().                                                        *)
Tick ==
  /\ ticking /\ tickIp /\ up /\ ~event /\ event' = TRUE
  /\ UNCHANGED <<seg, hand, why, job, sock, nx, ipPc, lib, timer, bytes>>

----------------------------------------------------------------------------
(* The notifies, with the mutex held.  A parked socket has no              *)
(* nx_tcp_socket_reserved_ptr, so they do not find it.                     *)

(* External: an acknowledgment makes room.  bsd_tcp_window_notify().       *)
WindowOpens(w) ==
  /\ MutexFree /\ up /\ conn /\ life # "freed" /\ win < w /\ win' = w
  /\ IF life = "open" THEN WindowNotify ELSE UNCHANGED <<flags, event>>
  /\ UNCHANGED <<state, owner, pkt, hand, why, job, sock, conn, finSent, ipPc,
                 lib, timer, bytes>>

(* External: a reset.  bsd_tcp_disconnect_callback().                      *)
Reset ==
  /\ MutexFree /\ up /\ conn /\ conn' = FALSE
  /\ IF life = "open" /\ pkt # <<>>
     THEN /\ flags' = IF "STALLED" \in flags THEN flags \ {"STALLED"}
                      ELSE IF state # "IDLE" THEN flags \cup {"KICK"} ELSE flags
          /\ event' = (event \/ running)
     ELSE UNCHANGED <<flags, event>>
  /\ UNCHANGED <<state, owner, pkt, hand, why, job, sock, finSent, win, ipPc,
                 lib, timer, bytes>>

----------------------------------------------------------------------------
(* bsd_cork_start() at the first opener, bsd_cork_stop() at the last.      *)

(* Start needs the bracket, so the IP thread waits, or waits in a send.    *)
Start ==
  /\ up /\ ~running /\ stopPc = "none" /\ (stops = 0 \/ Reopens)
  /\ ipPc \in {"wait", "send"}
  /\ running' = TRUE /\ tickIp' = TRUE /\ unproven' = FALSE
  /\ made' = TRUE
  /\ UNCHANGED <<seg, hand, why, job, sock, nx, ip, live, ticking, stopPc,
                 entered, stops, up, bytes>>

Stopped(p, q) ==
  /\ stopPc = p /\ stopPc' = q
  /\ UNCHANGED <<hand, why, job, entered, stops, refs, wrshut, soErr, faults,
                 finSent, win, ip, written, gone>>

(* No Task holds a socket.  The bracket is got, or refused; the timer's    *)
(* callback is cut off.                                                    *)
Stop(e) ==
  /\ stopPc = "none" /\ stops < MaxStops /\ up /\ (running \/ unproven)
  /\ refs = {} /\ \A t \in Tasks : pc(t) = "idle"
  /\ entered' = e /\ stops' = stops + 1 /\ tickIp' = FALSE
  /\ stopPc' = IF made THEN "timer" ELSE "mutex"
  /\ UNCHANGED <<seg, hand, why, job, sock, nx, ip, running, unproven, up,
                 timer, bytes>>

StopTimer ==
  /\ \/ Stopped("timer", "flag") /\ ticking' = FALSE /\ UNCHANGED <<made, live>>
     \/ Stopped("flag", "delete") /\ live' = FALSE /\ UNCHANGED <<made, ticking>>
     \/ Stopped("delete", "mutex") /\ made' = FALSE /\ ticking' = FALSE /\ live' = live
  /\ UNCHANGED <<seg, life, conn, running, tickIp, unproven, up, lost>>

(* The mutex, if it may be taken; then the handler and bsd_cork_ip go.     *)
StopHandlerMutant ==
  /\ \/ Stopped("mutex", "handler") /\ UNCHANGED running
     \/ Stopped("handler", "list") /\ running' = FALSE
  /\ UNCHANGED <<seg, life, conn, tickIp, unproven, up, timer, lost>>
StopHandler ==
  /\ \/ /\ Stopped("mutex", "handler") /\ (entered = "ok" => ipPc = "wait")
        /\ UNCHANGED running
     \/ Stopped("handler", "list") /\ running' = FALSE
  /\ UNCHANGED <<seg, life, conn, tickIp, unproven, up, timer, lost>>

(* The armed list is taken; an IDLE socket on it loses its segment.        *)
StopList ==
  /\ \/ /\ Stopped("list", IF "LINKED" \in flags THEN "free" ELSE "leave")
        /\ flags' = flags \ {"LINKED"} /\ UNCHANGED <<state, pkt, lost>>
     \/ /\ Stopped("free", "leave") /\ state' = state
        /\ IF state = "IDLE"
           THEN /\ flags' = flags \ {"STALLED", "TICK", "FIN", "KICK"}
                /\ pkt' = <<>> /\ lost' = [t \in Tasks |-> lost[t] + Count(pkt, t)]
           ELSE UNCHANGED <<flags, pkt, lost>>
  /\ UNCHANGED <<owner, life, conn, running, tickIp, unproven, up, timer>>

(* Proven quiet: netstack_shutdown() and bsd_orphans_reclaim() follow.     *)
(* Refused: the stack is kept, and the next stop owes the proof.           *)
StopLeave ==
  /\ Stopped("leave", "none")
  /\ IF entered = "ok"
     THEN up' = FALSE /\ unproven' = FALSE /\ life' = "freed" /\ conn' = FALSE
     ELSE unproven' = TRUE /\ UNCHANGED <<up, life, conn>>
  /\ UNCHANGED <<seg, running, tickIp, timer, lost>>

----------------------------------------------------------------------------
Pass == IpWake \/ PassTake \/ PassDetach \/ PassSend \/ PassGive \/ PassFin \/ PassSettle

StopStep == StopTimer \/ StopHandler \/ StopList \/ StopLeave

Calls(t) ==
  \/ "write" \in Ops[t] /\ \E n \in 1..Cap : FastTake(t, n) \/ Send(t, n)
  \/ "oob" \in Ops[t] /\ SendOob(t)
  \/ "push" \in Ops[t] /\ Push(t)
  \/ "cork" \in Ops[t] /\ SetCork(t)
  \/ "nodelay" \in Ops[t] /\ ClearCork(t)
  \/ "shut" \in Ops[t] /\ Shut(t)
  \/ \E how \in {"close", "linger", "abort"} \cap Ops[t] : Close(t, how)
  \/ Sweep(t)

Steps(t) ==
  \/ FastDone(t) \/ FastKick(t) \/ Claim(t) \/ Uncorked(t) \/ Bypass(t)
  \/ Grow(t) \/ Fill(t) \/ Flush(t) \/ Drain(t) \/ PushNow(t) \/ FinBehind(t)
  \/ Linger(t) \/ Give(t) \/ Fin(t) \/ Direct(t) \/ Park(t) \/ DropSegment(t) \/ Destroy(t)

Next ==
  \/ \E t \in Tasks : Calls(t) \/ GiveUp(t) \/ Steps(t)
  \/ Pass \/ Tick \/ Reset
  \/ \E w \in Windows : WindowOpens(w)
  \/ Start \/ \E e \in {"ok", "refused"} : Stop(e)
  \/ StopStep

Spec == Init /\ [][Next]_vars

(* The mutex goes to whoever waits longest, a window the peer shut opens   *)
(* again, and a Task in a call, the IP thread and the tick keep running.   *)
Fairness ==
  /\ \A t \in Tasks : WF_vars(Steps(t))
  /\ WF_vars(Pass) /\ WF_vars(Tick) /\ WF_vars(StopStep)
  /\ SF_vars(\E w \in Windows : WindowOpens(w))

FairSpec == Spec /\ Fairness

----------------------------------------------------------------------------
(* Properties.                                                             *)

(* The segment has one owner: while it is copied into it is attached and   *)
(* exactly one fast path is copying; while an actor has it detached, the   *)
(* state is FLUSH, that actor is the owner and nothing is attached.        *)
SegmentOwned ==
  /\ Cardinality({t \in Tasks : pc(t) = "copy"}) = (IF state = "APPEND" THEN 1 ELSE 0)
  /\ state = "APPEND" => pkt # <<>> /\ Len(pkt) < Cap
  /\ (state = "FLUSH") = (owner # None)
  /\ \A a \in Actors : hand[a] # <<>> => owner = a /\ pkt = <<>>
  /\ \A t \in Tasks : (pc(t) \in {"work", "give"}) = (owner = t)
  /\ (ipPc \in {"detach", "send", "give"}) = (owner = IP)

(* No lost wake-up: a pending segment nobody holds is on the armed list    *)
(* with something coming for it: a pass under way or asked for, a tick     *)
(* that runs and can be seen, or a window still too small for it whose     *)
(* notify will find it.                                                    *)
NotStranded ==
  (pkt # <<>> /\ state = "IDLE" /\ running /\ stopPc = "none" /\ CanSend
     /\ \A t \in Tasks : pc(t) # "kick") =>
    /\ "LINKED" \in flags
    /\ \/ event \/ ipPc = "call"
       \/ "TICK" \in flags /\ live /\ ticking /\ tickIp
       \/ "STALLED" \in flags /\ win < Len(pkt) /\ life = "open"

(* A socket that was freed, or a stack that was torn down, is out of every *)
(* actor's reach: no pass holds it, the armed list does not, and the tick  *)
(* signals nothing.                                                        *)
OutOfReach ==
  /\ life = "freed" =>
       pkt = <<>> /\ state = "IDLE" /\ "LINKED" \notin flags
         /\ ipPc \notin {"detach", "send", "give", "fin"}
  /\ ~up => ipPc = "wait" /\ ~tickIp /\ ~running /\ ~ticking

Held == IF pkt # <<>> THEN pkt ELSE IF owner # None THEN hand[owner] ELSE <<>>

(* The cork keeps what CorkStream promises its writers.                    *)
Stream == INSTANCE CorkStream WITH
  Writers <- Tasks, held <- Held, fin <- finSent,
  cut <- ~CanSend \/ soErr \/ ~running \/ life = "freed"
           \/ \E t \in Tasks : job[t].then = "drop"

StreamKept == Stream!Spec

(* Credited bytes do not stay: whatever is held goes to NetX Duo, unless   *)
(* the connection or the cork goes first.                                  *)
HeldGoes == (Held # <<>>) ~> (Held = <<>> \/ ~CanSend \/ ~running)

(* A FIN deferred behind a segment is sent, unless the connection goes.    *)
FinGoes == ("FIN" \in flags) ~> (finSent \/ ~conn \/ ~running)
=============================================================================
