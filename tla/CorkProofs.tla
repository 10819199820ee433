----------------------------- MODULE CorkProofs -----------------------------
(***************************************************************************)
(* The cork's segment has one owner, a freed socket and a torn down stack  *)
(* are out of every actor's reach, and a pending segment is not stranded,  *)
(* for any number of Tasks sharing the socket, any segment size, windows,  *)
(* faults and stops.                                                       *)
(*                                                                         *)
(* Ownership is inductive once the place of every actor is tied to the     *)
(* segment's state.  That nothing reaches a freed socket rests on who is   *)
(* still in a call when the last reference goes (Closing) and on the order *)
(* in which bsd_cork_stop() takes things away (Stopping).  The wake-up of  *)
(* a pending segment (Ticking, Attached) depends on what its owner will    *)
(* leave it waiting for (Detached), and on what the notifies leave the     *)
(* owner.                                                                  *)
(***************************************************************************)
EXTENDS Cork, TLAPS

Byte == Tasks \X Nat

Segment == {s \in Seq(Byte) : Len(s) <= Cap}

Waits == {"STALLED", "TICK"}

Jobs ==
  [pc : Places, op : {"", "send", "drain", "push", "shut", "close", "linger"},
   len : Nat, then : {"idle", "direct", "drain", "park", "test", "drop"}]

IpPlaces == {"wait", "call", "detach", "send", "give", "fin", "settle"}

StopPlaces == {"none", "timer", "flag", "delete", "mutex", "handler", "list",
               "free", "leave"}

Typed ==
  /\ state \in {"IDLE", "APPEND", "FLUSH"}
  /\ pkt \in Segment /\ hand \in [Actors -> Segment]
  /\ why \in [Actors -> SUBSET Waits]
  /\ job \in [Tasks -> Jobs]
  /\ refs \subseteq Tasks /\ life \in {"open", "parked", "freed"}
  /\ win \in Nat /\ stops \in Nat /\ written \in [Tasks -> Nat]
  /\ ipPc \in IpPlaces /\ stopPc \in StopPlaces

Owning == {"work", "give"}

IpOwning == {"detach", "send", "give"}

(* The place of every actor and the state of the segment.                  *)
Owned ==
  /\ state = "FLUSH" <=> owner # None
  /\ owner # None => owner \in Actors
  /\ \A t \in Tasks : pc(t) \in Owning <=> owner = t
  /\ ipPc \in IpOwning <=> owner = IP
  /\ \A a \in Actors : hand[a] # <<>> => owner = a
  /\ state = "FLUSH" /\ ipPc # "detach" => pkt = <<>>
  /\ ipPc = "detach" => hand[IP] = <<>>
  /\ state = "APPEND" => pkt # <<>> /\ \E t \in Tasks : pc(t) = "copy"
  /\ \A t \in Tasks : pc(t) = "copy" =>
       /\ state = "APPEND" /\ Len(pkt) + job[t].len < Cap
       /\ \A u \in Tasks : pc(u) = "copy" => u = t

Busy(t) == pc(t) # "idle"

(* In the close of the last reference.                                     *)
Last(t) ==
  \/ pc(t) \in {"test", "drop", "end"}
  \/ job[t].then \in {"test", "drop", "park"}
  \/ job[t].op \in {"close", "linger"}

(* Nothing pending, nobody working on it and not on the armed list.        *)
Bare == pkt = <<>> /\ state = "IDLE" /\ "LINKED" \notin flags

(* A call has a reference, or is the only one; who closes the last one is  *)
(* alone with the IP thread until the socket is bare.                      *)
Closing ==
  /\ \A t \in Tasks : Busy(t) /\ t \notin refs =>
       refs = {} /\ \A u \in Tasks : Busy(u) => u = t
  /\ \A t \in Tasks : Last(t) => refs = {}
  /\ life # "open" => refs = {}
  /\ \A t \in Tasks : pc(t) = "end" => Bare
  /\ life = "freed" => Bare /\ ipPc # "fin" /\ \A t \in Tasks : ~Busy(t)
  /\ pkt # <<>> /\ state # "FLUSH" => "LINKED" \in flags \/ stopPc = "free"

(* What bsd_cork_stop() has taken away at each of its steps.               *)
Stopping ==
  /\ stopPc # "none" => refs = {} /\ ~tickIp /\ \A t \in Tasks : ~Busy(t)
  /\ entered = "ok" /\ stopPc \in {"handler", "list", "free", "leave"} =>
       ipPc = "wait"
  /\ entered = "ok" /\ stopPc \in {"free", "leave"} => "LINKED" \notin flags
  /\ entered = "ok" /\ stopPc = "leave" => pkt = <<>>
  /\ stopPc \in {"list", "free", "leave"} => ~running
  /\ stopPc \in {"mutex", "handler", "list", "free", "leave"} => ~made
  /\ ~made => ~ticking
  /\ ~up => /\ life = "freed" /\ ipPc = "wait" /\ stopPc = "none"
            /\ ~tickIp /\ ~running /\ ~made

IInv == Typed /\ Owned /\ Closing /\ Stopping

----------------------------------------------------------------------------
(* Segments.                                                               *)

LEMMA NewBytes ==
  ASSUME Typed, NEW t \in Tasks, NEW n \in Nat
  PROVE  New(t, n) \in Seq(Byte) /\ Len(New(t, n)) = n
<1>1. written[t] \in Nat
  BY Zenon DEF Typed
<1>2. \A i \in 1..n : <<t, written[t] + i>> \in Byte
  BY <1>1 DEF Byte
<1> QED
  BY <1>2 DEF New

LEMMA Appended ==
  ASSUME NEW s \in Seq(Byte), NEW r \in Seq(Byte)
  PROVE  /\ s \o r \in Seq(Byte) /\ Len(s \o r) = Len(s) + Len(r)
         /\ Len(s) \in Nat /\ Len(r) \in Nat
OBVIOUS

LEMMA Emptied ==
  ASSUME NEW s \in Seq(Byte)
  PROVE  (s = <<>> <=> Len(s) = 0) /\ Len(s) \in Nat
OBVIOUS

LEMMA NoBytes == <<>> \in Segment
BY CorkAssumption DEF Segment

LEMMA Segments ==
  ASSUME NEW s \in Segment
  PROVE  s \in Seq(Byte) /\ Len(s) \in Nat /\ Len(s) <= Cap /\ (s = <<>> <=> Len(s) = 0)
BY Emptied DEF Segment

LEMMA Dropped ==
  ASSUME NEW s \in Segment, NEW n \in Nat, n < Len(s)
  PROVE  Drop(s, n) \in Segment /\ Len(Drop(s, n)) = Len(s) - n
BY CorkAssumption DEF Drop, Segment

(* What a send leaves: a remainder that waits for the window is one the    *)
(* window has no room for.                                                 *)
Sends(s, o) ==
  /\ o.sent \in Nat /\ o.sent <= win
  /\ o.left \in Segment /\ o.why \in SUBSET Waits
  /\ "STALLED" \in o.why => win - o.sent < Len(o.left)

LEMMA Settled ==
  ASSUME Typed, NEW s \in Segment, NEW o \in Settle(s)
  PROVE  Sends(s, o) /\ o = [sent |-> o.sent, left |-> o.left, why |-> o.why, fault |-> o.fault]
<1> win \in Nat /\ Len(s) \in Nat
  BY Segments DEF Typed
<1>1. ASSUME NEW b, o = Outcome(0, <<>>, {}, b)
      PROVE  Sends(s, o) /\ o = [sent |-> o.sent, left |-> o.left, why |-> o.why, fault |-> o.fault]
  <2>1. o.sent = 0 /\ o.left = <<>> /\ o.why = {}
    BY Zenon, <1>1 DEF Outcome
  <2>2. o = [sent |-> o.sent, left |-> o.left, why |-> o.why, fault |-> o.fault]
    BY Zenon, <1>1 DEF Outcome
  <2> QED
    BY <2>1, <2>2, NoBytes DEF Sends
<1>2. CASE Len(s) <= win /\ o = Outcome(Len(s), <<>>, {}, FALSE)
  BY <1>2, NoBytes DEF Outcome, Sends
<1>3. CASE o = Outcome(0, s, {"TICK"}, TRUE)
  BY <1>3 DEF Outcome, Sends, Waits
<1>4. CASE ~(Len(s) <= win) /\ o = Outcome(win, Drop(s, win), {"STALLED"}, FALSE)
  <2>1. Drop(s, win) \in Segment /\ Len(Drop(s, win)) = Len(s) - win
    BY <1>4, Dropped
  <2> QED
    BY <1>4, <2>1 DEF Outcome, Sends, Waits
<1> QED
  BY Zenon, <1>1, <1>2, <1>3, <1>4 DEF Settle

LEMMA FlushWaited ==
  ASSUME Typed, NEW s \in Segment, NEW o \in FlushWait(s)
  PROVE  /\ o.sent \in Nat /\ o.sent <= win
         /\ o.left \in Segment /\ o.why \in SUBSET Waits
         /\ ~Breaks => Sends(s, o)
         /\ o = [sent |-> o.sent, left |-> o.left, why |-> o.why, fault |-> o.fault]
<1>1. CASE o \in Settle(s)
  BY Zenon, <1>1, Settled DEF Sends
<1>2. CASE Breaks /\ o = Outcome(0, s, {"STALLED"}, FALSE)
  <2>1. win \in Nat
    BY Zenon DEF Typed
  <2>2. o.sent = 0 /\ o.left = s /\ o.why = {"STALLED"}
    BY Zenon, <1>2 DEF Outcome
  <2> QED
    BY <1>2, <2>1, <2>2 DEF Outcome, Waits
<1> QED
  BY Zenon, <1>1, <1>2 DEF FlushWait

----------------------------------------------------------------------------
(* The calls with the socket claimed.                                      *)

(* Task t is done with the segment: s of it is left, which waits on w.     *)
Gives(t, s, w, next) ==
  /\ pc(t) = "work" /\ Then(t, "give", next)
  /\ hand' = [hand EXCEPT ![t] = s] /\ s \in Segment
  /\ why' = [why EXCEPT ![t] = w] /\ w \in SUBSET Waits
  /\ win' \in Nat /\ win' <= win /\ written' \in [Tasks -> Nat]
  /\ ~Breaks /\ "STALLED" \in w => win' < Len(s)
  /\ next \in {"idle", "direct", "drain", "park", "test", "drop"}
  /\ next = "park" => s # <<>> /\ "TICK" \in w /\ job[t].op = "close"
  /\ next = "test" => s = <<>> /\ job[t].op = "close"
  /\ next = "drop" => job[t].op = "linger"
  /\ flags' = flags \/ flags' = flags \cup {"FIN"}
  /\ UNCHANGED <<state, owner, pkt, refs, life, ip, lib, timer>>

LEMMA Credited ==
  ASSUME Typed, NEW t \in Tasks, NEW n \in Nat,
         written' = [written EXCEPT ![t] = @ + n]
  PROVE  written' \in [Tasks -> Nat]
<1>1. written \in [Tasks -> Nat] /\ written[t] \in Nat
  BY Zenon DEF Typed
<1>2. written[t] + n \in Nat
  BY <1>1
<1> QED
  BY Zenon, <1>1, <1>2

(* Without a call into NetX Duo.                                           *)
LEMMA HandsBack ==
  ASSUME Typed, NEW t \in Tasks, pc(t) = "work", NEW s \in Segment,
         NEW w \in SUBSET {"TICK"}, NEW next \in {"idle", "direct", "drain", "drop"},
         ToGive(t, s, w, next), next = "drop" => job[t].op = "linger",
         written' \in [Tasks -> Nat]
  PROVE  Gives(t, s, w, next)
<1>1. win' = win /\ win' \in Nat /\ win' <= win
  BY DEF Typed, ToGive, nx
<1>2. UNCHANGED <<state, owner, flags, pkt, refs, life, ip, lib, timer>>
  BY Zenon DEF ToGive, seg
<1>3. w \in SUBSET Waits /\ "STALLED" \notin w
  BY Zenon DEF Waits
<1> QED
  BY Zenon, <1>1, <1>2, <1>3 DEF Gives, ToGive

(* With one.                                                               *)
LEMMA SendsOff ==
  ASSUME Typed, NEW t \in Tasks, pc(t) = "work", NEW s, NEW o,
         o.sent \in Nat, o.sent <= win,
         o.left \in Segment, o.why \in SUBSET Waits,
         ~Breaks /\ "STALLED" \in o.why => win - o.sent < Len(o.left),
         NEW next \in {"idle", "direct", "park", "test", "drop"},
         next = "park" => o.left # <<>> /\ "TICK" \in o.why /\ job[t].op = "close",
         next = "test" => o.left = <<>> /\ job[t].op = "close",
         next = "drop" => job[t].op = "linger",
         Sent(t, s, o), Then(t, "give", next),
         flags' = flags \/ flags' = flags \cup {"FIN"},
         UNCHANGED <<state, owner, pkt, refs, life, ip, lib, timer>>,
         written' \in [Tasks -> Nat]
  PROVE  Gives(t, o.left, o.why, next)
<1>1. win' = win - o.sent
  BY Zenon DEF Sent
<1>2. win' \in Nat /\ win' <= win
  BY <1>1 DEF Typed
<1>3. hand' = [hand EXCEPT ![t] = o.left] /\ why' = [why EXCEPT ![t] = o.why]
  BY Zenon DEF Sent
<1> QED
  BY Zenon, <1>1, <1>2, <1>3 DEF Gives

(* The outcomes of a send that keeps the call's bytes as they are.         *)
LEMMA NxSends ==
  ASSUME Typed, NEW t \in Tasks, pc(t) = "work", NEW s \in Segment,
         NEW o \in FlushWait(s), NEW next \in {"idle", "direct"},
         NxSend(t, s, o, next), written' \in [Tasks -> Nat]
  PROVE  Gives(t, o.left, o.why, next)
<1>1. /\ o.sent \in Nat /\ o.sent <= win
      /\ o.left \in Segment /\ o.why \in SUBSET Waits
      /\ ~Breaks /\ "STALLED" \in o.why => win - o.sent < Len(o.left)
  BY Zenon, FlushWaited DEF Sends
<1>2. /\ Sent(t, s, o) /\ Then(t, "give", next) /\ flags' = flags
      /\ UNCHANGED <<state, owner, pkt, refs, life, ip, lib, timer>>
  BY Zenon DEF NxSend, seg
<1> QED
  BY Zenon, <1>1, <1>2, SendsOff

Worked(t) ==
  \/ Uncorked(t) \/ Bypass(t) \/ Grow(t) \/ Fill(t) \/ Flush(t) \/ Drain(t)
  \/ PushNow(t) \/ FinBehind(t) \/ Linger(t)

(* A segment and the bytes that still fit.                                 *)
LEMMA Extended ==
  ASSUME Typed, NEW t \in Tasks, NEW n \in Nat, NEW s \in Segment, Len(s) + n <= Cap
  PROVE  s \o New(t, n) \in Segment /\ Len(s \o New(t, n)) = Len(s) + n
<1>1. New(t, n) \in Seq(Byte) /\ Len(New(t, n)) = n /\ s \in Seq(Byte)
  BY Zenon, NewBytes, Segments
<1>2. s \o New(t, n) \in Seq(Byte) /\ Len(s \o New(t, n)) = Len(s) + n
  BY Zenon, <1>1, Appended
<1> QED
  BY Zenon, <1>2 DEF Segment

(* A remainder waits for a window with no room for it, unless a break cut  *)
(* the send short; a close parks the socket behind a remainder only.       *)
LEMMA WorkGives ==
  ASSUME Typed, NEW t \in Tasks, Worked(t)
  PROVE  \E s, w, next : Gives(t, s, w, next)
<1> job[t].len \in Nat /\ hand[t] \in Segment /\ written \in [Tasks -> Nat]
  BY Zenon DEF Typed, Jobs, Actors
<1>0. pc(t) = "work"
  BY Zenon DEF Worked, Uncorked, Bypass, Grow, Fill, Flush, Drain, PushNow, FinBehind, Linger, Working
<1>1. CASE Uncorked(t)
  <2>1. ToGive(t, hand[t], {"TICK"}, "drain") /\ written' \in [Tasks -> Nat]
    BY Zenon, <1>1 DEF Uncorked
  <2> QED
    BY Zenon, <1>0, <2>1, HandsBack
<1>2. CASE Bypass(t)
  <2>1. PICK next \in {"direct", "idle"} : ToGive(t, <<>>, {}, next)
    BY Zenon, <1>2 DEF Bypass
  <2>2. written' \in [Tasks -> Nat] /\ {} \in SUBSET {"TICK"}
    BY Zenon, <1>2 DEF Bypass
  <2> QED
    BY Zenon, <1>0, <2>1, <2>2, HandsBack, NoBytes
<1>3. CASE Grow(t)
  <2>1. ToGive(t, hand[t] \o New(t, job[t].len), {"TICK"}, "idle")
    BY Zenon, <1>3 DEF Grow
  <2>2. written' \in [Tasks -> Nat]
    BY Zenon, <1>3, Credited DEF Grow
  <2>3. hand[t] \o New(t, job[t].len) \in Segment
    <3>1. Len(hand[t]) + job[t].len < Cap
      BY Zenon, <1>3 DEF Grow
    <3>2. Len(hand[t]) + job[t].len <= Cap
      BY <3>1, Segments, CorkAssumption
    <3> QED
      BY Zenon, <3>2, Extended
  <2> QED
    BY Zenon, <1>0, <2>1, <2>2, <2>3, HandsBack
<1>4. CASE Fill(t)
  <2> DEFINE s == hand[t] \o New(t, job[t].len)
  <2>1. PICK o \in Settle(s) : NxSend(t, s, o, "idle")
    BY Zenon, <1>4 DEF Fill
  <2>2. written' \in [Tasks -> Nat]
    BY Zenon, <1>4, Credited DEF Fill
  <2>3. s \in Segment
    <3>1. Len(hand[t]) + job[t].len = Cap
      BY Zenon, <1>4 DEF Fill
    <3>2. Len(hand[t]) + job[t].len <= Cap
      BY <3>1, CorkAssumption
    <3> QED
      BY Zenon, <3>2, Extended
  <2> HIDE DEF s
  <2>4. o \in FlushWait(s)
    BY Zenon, <2>1 DEF FlushWait
  <2> QED
    BY Zenon, <1>0, <2>1, <2>2, <2>3, <2>4, NxSends
<1>5. CASE Flush(t)
  <2>1. PICK o \in FlushWait(hand[t]), waits \in BOOLEAN :
     LET room == Cap - Len(o.left)
         n == IF o.left = <<>> \/ waits \/ o \notin Settle(hand[t]) THEN 0
              ELSE IF job[t].len < room THEN job[t].len ELSE room
     IN /\ Sent(t, hand[t] \o New(t, n), [o EXCEPT !.left = @ \o New(t, n)])
        /\ written' = [written EXCEPT ![t] = @ + n]
        /\ Then(t, "give", IF o.left = <<>> THEN "direct" ELSE "idle")
    BY Zenon, <1>5 DEF Flush
  <2> DEFINE room == Cap - Len(o.left)
             n == IF o.left = <<>> \/ waits \/ o \notin Settle(hand[t]) THEN 0
                  ELSE IF job[t].len < room THEN job[t].len ELSE room
             next == IF o.left = <<>> THEN "direct" ELSE "idle"
             q == [o EXCEPT !.left = @ \o New(t, n)]
  <2>2. /\ Sent(t, hand[t] \o New(t, n), q)
        /\ written' = [written EXCEPT ![t] = @ + n]
        /\ Then(t, "give", next)
    BY Zenon, <2>1
  <2>3. /\ o.sent \in Nat /\ o.sent <= win
        /\ o.left \in Segment /\ o.why \in SUBSET Waits
        /\ ~Breaks => Sends(hand[t], o)
        /\ o = [sent |-> o.sent, left |-> o.left, why |-> o.why, fault |-> o.fault]
    BY Zenon, FlushWaited
  <2>4. n \in Nat /\ Len(o.left) + n <= Cap /\ Len(o.left) \in Nat
    <3>1. Len(o.left) \in Nat /\ Len(o.left) <= Cap /\ Cap \in Nat
      BY Zenon, <2>3, Segments, CorkAssumption
    <3> QED
      BY <3>1
  <2> HIDE DEF n, next
  <2>5. q.left = o.left \o New(t, n) /\ q.sent = o.sent /\ q.why = o.why
    BY ONLY <2>3
  <2> HIDE DEF q
  <2>6. q.left \in Segment /\ Len(q.left) = Len(o.left) + n
    BY Zenon, <2>3, <2>4, <2>5, Extended
  <2>7. ~Breaks /\ "STALLED" \in q.why => win - q.sent < Len(q.left)
    BY <2>3, <2>4, <2>5, <2>6 DEF Sends, Typed
  <2>8. written' \in [Tasks -> Nat]
    BY Zenon, <2>2, <2>4, Credited
  <2>9. UNCHANGED <<state, owner, flags, pkt, refs, life, ip, lib, timer>>
    BY Zenon, <1>5 DEF Flush, seg
  <2>10. next \in {"idle", "direct"}
    BY Zenon DEF next
  <2> QED
    BY Zenon, <1>0, <2>2, <2>3, <2>5, <2>6, <2>7, <2>8, <2>9, <2>10, SendsOff
<1>6. CASE Drain(t)
  <2>1. written' \in [Tasks -> Nat]
    BY Zenon, <1>6 DEF Drain
  <2>2. CASE hand[t] = <<>>
    <3>1. ToGive(t, <<>>, {}, "direct") /\ {} \in SUBSET {"TICK"}
      BY Zenon, <1>6, <2>2 DEF Drain
    <3> QED
      BY Zenon, <1>0, <2>1, <3>1, HandsBack, NoBytes
  <2>3. CASE hand[t] # <<>>
    <3>1. PICK o \in FlushWait(hand[t]), next \in {"idle", "direct"} :
            NxSend(t, hand[t], o, next)
      BY Zenon, <1>6, <2>3 DEF Drain
    <3> QED
      BY Zenon, <1>0, <2>1, <3>1, NxSends
  <2> QED
    BY Zenon, <2>2, <2>3
<1>7. CASE PushNow(t)
  <2>1. written' \in [Tasks -> Nat]
    BY Zenon, <1>7 DEF PushNow
  <2>2. CASE hand[t] = <<>>
    <3>1. ToGive(t, <<>>, {}, "idle") /\ {} \in SUBSET {"TICK"}
      BY Zenon, <1>7, <2>2 DEF PushNow
    <3> QED
      BY Zenon, <1>0, <2>1, <3>1, HandsBack, NoBytes
  <2>3. CASE hand[t] # <<>>
    <3>1. PICK o \in FlushWait(hand[t]) : NxSend(t, hand[t], o, "idle")
      BY Zenon, <1>7, <2>3 DEF PushNow, FlushWait
    <3> QED
      BY Zenon, <1>0, <2>1, <3>1, NxSends
  <2> QED
    BY Zenon, <2>2, <2>3
<1>8. CASE FinBehind(t)
  <2>1. PICK o \in IF hand[t] = <<>> THEN {Outcome(0, <<>>, {}, FALSE)} ELSE Settle(hand[t]) :
       /\ Sent(t, hand[t], [o EXCEPT !.why = @ \cup {"TICK"}])
       /\ Then(t, "give", IF job[t].op = "shut" THEN "idle"
                          ELSE IF o.left # <<>> THEN "park" ELSE "test")
       /\ flags' = IF o.left # <<>> THEN flags \cup {"FIN"} ELSE flags
    BY Zenon, <1>8 DEF FinBehind
  <2>2. /\ Sends(hand[t], o)
        /\ o = [sent |-> o.sent, left |-> o.left, why |-> o.why, fault |-> o.fault]
    <3>1. CASE hand[t] = <<>>
      <4>1. o = Outcome(0, <<>>, {}, FALSE)
        BY Zenon, <2>1, <3>1
      <4>2. o.sent = 0 /\ o.left = <<>> /\ o.why = {}
        BY Zenon, <4>1 DEF Outcome
      <4>3. o = [sent |-> o.sent, left |-> o.left, why |-> o.why, fault |-> o.fault]
        BY Zenon, <4>1 DEF Outcome
      <4> QED
        BY <4>2, <4>3, NoBytes DEF Sends, Typed
    <3>2. CASE hand[t] # <<>>
      BY Zenon, <2>1, <3>2, Settled
    <3> QED
      BY Zenon, <3>1, <3>2
  <2> DEFINE q == [o EXCEPT !.why = @ \cup {"TICK"}]
             next == IF job[t].op = "shut" THEN "idle"
                     ELSE IF o.left # <<>> THEN "park" ELSE "test"
  <2>3. q.left = o.left /\ q.sent = o.sent /\ q.why = o.why \cup {"TICK"}
    BY ONLY <2>2
  <2>4. Sent(t, hand[t], q) /\ Then(t, "give", next)
    BY Zenon, <2>1
  <2> HIDE DEF q
  <2>5. q.why \in SUBSET Waits
    BY Zenon, <2>2, <2>3 DEF Sends, Waits
  <2>6. "STALLED" \in q.why => win - q.sent < Len(q.left)
    BY Zenon, <2>2, <2>3 DEF Sends
  <2>7. job[t].op \in {"shut", "close"}
    BY Zenon, <1>8 DEF FinBehind, Working
  <2>8. /\ next \in {"idle", "park", "test"}
        /\ next = "park" => q.left # <<>> /\ "TICK" \in q.why /\ job[t].op = "close"
        /\ next = "test" => q.left = <<>> /\ job[t].op = "close"
    BY Zenon, <2>3, <2>7
  <2> HIDE DEF next
  <2>9. /\ flags' = flags \/ flags' = flags \cup {"FIN"}
        /\ UNCHANGED <<state, owner, pkt, refs, life, ip, lib, timer>>
        /\ written' \in [Tasks -> Nat]
    BY Zenon, <1>8, <2>1 DEF FinBehind
  <2>10. next # "drop"
    BY Zenon, <2>8
  <2> QED
    BY Zenon, <1>0, <2>2, <2>3, <2>4, <2>5, <2>6, <2>8, <2>9, <2>10, SendsOff DEF Sends
<1>9. CASE Linger(t)
  <2>1. written' \in [Tasks -> Nat] /\ job[t].op = "linger"
    BY Zenon, <1>9 DEF Linger, Working
  <2>2. CASE hand[t] = <<>>
    <3>1. ToGive(t, <<>>, {}, "drop") /\ {} \in SUBSET {"TICK"}
      BY Zenon, <1>9, <2>2 DEF Linger
    <3> QED
      BY Zenon, <1>0, <2>1, <3>1, HandsBack, NoBytes
  <2>3. CASE hand[t] # <<>>
    <3>1. PICK o \in Settle(hand[t]) : Sent(t, hand[t], [o EXCEPT !.left = <<>>, !.why = {}])
      BY Zenon, <1>9, <2>3 DEF Linger
    <3> DEFINE q == [o EXCEPT !.left = <<>>, !.why = {}]
    <3>2. /\ Sends(hand[t], o)
          /\ o = [sent |-> o.sent, left |-> o.left, why |-> o.why, fault |-> o.fault]
      BY Zenon, Settled
    <3>3. q.left = <<>> /\ q.sent = o.sent /\ q.why = {}
      BY ONLY <3>2
    <3>4. Sent(t, hand[t], q)
      BY Zenon, <3>1
    <3> HIDE DEF q
    <3>5. /\ Then(t, "give", "drop") /\ flags' = flags
          /\ UNCHANGED <<state, owner, pkt, refs, life, ip, lib, timer>>
      BY Zenon, <1>9, <2>3 DEF Linger, seg
    <3>6. q.why \in SUBSET Waits /\ "STALLED" \notin q.why /\ q.left \in Segment
      BY Zenon, <3>3, NoBytes
    <3> QED
      BY Zenon, <1>0, <2>1, <3>2, <3>3, <3>4, <3>5, <3>6, SendsOff DEF Sends
  <2> QED
    BY Zenon, <2>2, <2>3
<1> QED
  BY Zenon, <1>1, <1>2, <1>3, <1>4, <1>5, <1>6, <1>7, <1>8, <1>9 DEF Worked

----------------------------------------------------------------------------
(* Steps of the Tasks.                                                     *)

Others(t) == \A u \in Tasks : u # t => job'[u] = job[u]

LEMMA Does ==
  ASSUME Typed, NEW t \in Tasks, NEW j \in Jobs, Do(t, j)
  PROVE  job' \in [Tasks -> Jobs] /\ job'[t] = j /\ Others(t)
BY Zenon DEF Typed, Do, Others

LEMMA IsJob ==
  ASSUME NEW p \in Places, NEW n \in Nat,
         NEW o \in {"", "send", "drain", "push", "shut", "close", "linger"},
         NEW next \in {"idle", "direct", "drain", "park", "test", "drop"}
  PROVE  /\ Job(p, o, n, next) \in Jobs
         /\ Job(p, o, n, next).pc = p /\ Job(p, o, n, next).op = o
         /\ Job(p, o, n, next).len = n /\ Job(p, o, n, next).then = next
BY DEF Job, Jobs

LEMMA IsIdle == Idle \in Jobs /\ Idle.pc = "idle" /\ Idle.op = "" /\ Idle.then = "idle"
BY DEF Idle, Job, Jobs, Places

LEMMA Goes ==
  ASSUME Typed, NEW t \in Tasks, NEW p \in Places, Goto(t, p)
  PROVE  /\ job' \in [Tasks -> Jobs] /\ Others(t) /\ job'[t].pc = p
         /\ p = "idle" => job'[t].op = "" /\ job'[t].then = "idle"
         /\ p # "idle" => job'[t].op = job[t].op /\ job'[t].then = job[t].then
<1>1. CASE p = "idle"
  BY Zenon, <1>1, Does, IsIdle DEF Goto
<1>2. CASE p # "idle"
  <2> DEFINE j == [job[t] EXCEPT !.pc = p]
  <2>1. job[t] \in Jobs
    BY Zenon DEF Typed
  <2>2. j \in Jobs /\ j.pc = p /\ j.op = job[t].op /\ j.then = job[t].then
    BY <2>1 DEF Jobs
  <2>3. Do(t, j)
    BY Zenon, <1>2 DEF Goto
  <2> HIDE DEF j
  <2> QED
    BY Zenon, <1>2, <2>2, <2>3, Does
<1> QED
  BY Zenon, <1>1, <1>2

LEMMA Thens ==
  ASSUME Typed, NEW t \in Tasks, NEW p \in Places,
         NEW next \in {"idle", "direct", "drain", "park", "test", "drop"}, Then(t, p, next)
  PROVE  /\ job' \in [Tasks -> Jobs] /\ Others(t) /\ job'[t].pc = p
         /\ job'[t].op = job[t].op /\ job'[t].then = next
<1> DEFINE j == [job[t] EXCEPT !.pc = p, !.then = next]
<1>1. job[t] \in Jobs
  BY Zenon DEF Typed
<1>2. j \in Jobs /\ j.pc = p /\ j.op = job[t].op /\ j.then = next
  BY <1>1 DEF Jobs
<1>3. Do(t, j)
  BY Zenon DEF Then
<1> HIDE DEF j
<1> QED
  BY Zenon, <1>2, <1>3, Does

LEMMA Distinct ==
  ASSUME NEW t \in Tasks
  PROVE  t # IP /\ t # None /\ IP # None /\ t \in Actors /\ IP \in Actors
BY Zenon, CorkAssumption DEF Actors

(* While a Task is in a call or has a reference, the stack is up and       *)
(* nothing stops it.                                                       *)
LEMMA InCall ==
  ASSUME IInv, NEW t \in Tasks, Busy(t) \/ t \in refs
  PROVE  /\ stopPc = "none" /\ up /\ life # "freed"
         /\ t \in refs => life = "open" /\ ~Last(t)
BY Zenon DEF IInv, Closing, Stopping

LEMMA StaysUp ==
  ASSUME stopPc' = "none", up', ~made' => ~ticking'
  PROVE  Stopping'
BY Zenon DEF Stopping

(* Who is alone with the last reference stays alone.                       *)
LEMMA ClosingKept ==
  ASSUME IInv, NEW t \in Tasks, Busy(t) \/ t \in refs, Others(t), refs' = refs,
         life' # "freed", life' # "open" => refs = {},
         Last(t)' => refs = {}, pc(t)' = "end" => Bare',
         pkt' # <<>> /\ state' # "FLUSH" => "LINKED" \in flags' \/ stopPc' = "free"
  PROVE  Closing'
<1>1. \A u \in Tasks : u # t => (Busy(u)' <=> Busy(u)) /\ (Last(u)' <=> Last(u)) /\ pc(u)' = pc(u)
  BY Zenon DEF Others, Busy, Last, pc
<1>2. \A u \in Tasks : u # t => pc(u) # "end"
  BY Zenon DEF IInv, Closing, Busy, Last
<1>3. \A u \in Tasks : Busy(u)' /\ u \notin refs =>
       refs = {} /\ \A v \in Tasks : Busy(v)' => v = u
  BY Zenon, <1>1 DEF IInv, Closing
<1> QED
  BY Zenon, <1>1, <1>2, <1>3 DEF IInv, Closing

LEMMA GivesStep ==
  ASSUME IInv, NEW t \in Tasks, NEW s, NEW w, NEW next, Gives(t, s, w, next)
  PROVE  IInv'
<1>1. /\ job' \in [Tasks -> Jobs] /\ Others(t) /\ job'[t].pc = "give"
      /\ job'[t].op = job[t].op /\ job'[t].then = next /\ pc(t) = "work"
  BY Zenon, Thens DEF IInv, Gives, Places
<1>2. UNCHANGED <<state, owner, pkt, refs, life, event, ipPc, running, tickIp,
                  stopPc, entered, stops, up, made, live, ticking>>
  BY Zenon DEF Gives, ip, lib, timer
<1>3. t \in Actors /\ t # IP /\ t # None
  BY Zenon, Distinct
<1>4. Typed'
  BY Zenon, <1>1, <1>2, <1>3 DEF IInv, Typed, Gives
<1>5. Owned'
  <2>1. \A u \in Tasks : u # t => pc(u)' = pc(u) /\ job'[u].len = job[u].len
    BY Zenon, <1>1 DEF Others, pc
  <2>2. pc(t)' = "give" /\ owner = t /\ state = "FLUSH"
    BY Zenon, <1>1, <1>3 DEF pc, IInv, Owned, Owning
  <2>3. \A a \in Actors : a # t => hand'[a] = hand[a]
    BY Zenon DEF IInv, Typed, Gives
  <2> QED
    BY Zenon, <1>1, <1>2, <1>3, <2>1, <2>2, <2>3, Distinct DEF IInv, Owned, Owning, IpOwning
<1>6. Closing'
  <2>1. Last(t)' => Last(t)
    BY Zenon, <1>1 DEF Last, Gives, pc
  <2>2. Busy(t) /\ pc(t)' # "end" /\ state = "FLUSH"
    BY Zenon, <1>1, <1>3 DEF Busy, pc, IInv, Owned, Owning
  <2>3. Last(t)' => refs = {}
    BY Zenon, <2>1 DEF IInv, Closing
  <2> QED
    BY Zenon, <1>1, <1>2, <2>2, <2>3, InCall, ClosingKept DEF IInv, Closing
<1>7. Stopping'
  BY Zenon, <1>1, <1>2, InCall, StaysUp DEF Busy, IInv, Stopping
<1> QED
  BY Zenon, <1>4, <1>5, <1>6, <1>7 DEF IInv

(* Task t goes on without touching the segment.                            *)
Moves(t) ==
  /\ UNCHANGED <<state, owner, pkt, hand, why, event, ipPc, running, tickIp,
                 stopPc, entered, stops, up, made, live, ticking>>
  /\ job' \in [Tasks -> Jobs] /\ Others(t)
  /\ pc(t) \notin {"copy", "work", "give"}
  /\ job'[t].pc \notin {"copy", "work", "give", "end"}
  /\ \A f \in {"LINKED", "STALLED", "TICK", "KICK"} : f \in flags' <=> f \in flags
  /\ win' \in Nat /\ win' <= win /\ written' \in [Tasks -> Nat]
  /\ refs' \subseteq Tasks /\ life' \in {"open", "parked", "freed"}

LEMMA MovesOwned ==
  ASSUME IInv, NEW t \in Tasks, Moves(t)
  PROVE  Typed' /\ Owned'
<1>1. Typed'
  BY Zenon DEF IInv, Typed, Moves
<1>2. \A u \in Tasks : u # t => pc(u)' = pc(u) /\ job'[u].len = job[u].len
  BY Zenon DEF Others, Moves, pc
<1>3. pc(t)' \notin {"copy", "work", "give"} /\ pc(t) \notin {"copy", "work", "give"}
  BY Zenon DEF Moves, pc
<1>4. UNCHANGED <<state, owner, pkt, hand, ipPc>>
  BY Zenon DEF Moves
<1> QED
  BY Zenon, <1>1, <1>2, <1>3, <1>4 DEF IInv, Owned, Owning, IpOwning

LEMMA MovesStep ==
  ASSUME IInv, NEW t \in Tasks, Moves(t), Busy(t) \/ t \in refs, refs' = refs,
         life' # "freed", life' # "open" => refs = {}, Last(t)' => refs = {}
  PROVE  IInv'
<1>1. Typed' /\ Owned'
  BY Zenon, MovesOwned
<1>2. stopPc = "none" /\ up
  BY Zenon, InCall
<1>3. Closing'
  <2>1. pc(t)' # "end" /\ Others(t) /\ UNCHANGED <<state, pkt, stopPc>>
    BY Zenon DEF Moves, pc
  <2>2. "LINKED" \in flags' <=> "LINKED" \in flags
    BY Zenon DEF Moves
  <2>3. pkt' # <<>> /\ state' # "FLUSH" => "LINKED" \in flags' \/ stopPc' = "free"
    BY Zenon, <2>1, <2>2 DEF IInv, Closing
  <2> QED
    BY Zenon, <2>1, <2>3, ClosingKept
<1>4. Stopping'
  <2>1. stopPc' = "none" /\ up' /\ (~made' => ~ticking')
    BY Zenon, <1>2 DEF Moves, IInv, Stopping
  <2> QED
    BY Zenon, <2>1, StaysUp
<1> QED
  BY Zenon, <1>1, <1>3, <1>4 DEF IInv

Moving(t) ==
  \/ \E n \in 1..Cap : Send(t, n)
  \/ SendOob(t) \/ Push(t) \/ SetCork(t) \/ ClearCork(t) \/ Shut(t)
  \/ GiveUp(t) \/ Fin(t) \/ Direct(t) \/ Park(t)

(* What such a step does with the Task's call.                             *)
NewJob(t) ==
  /\ job' \in [Tasks -> Jobs] /\ Others(t)
  /\ pc(t) \notin {"copy", "work", "give"}
  /\ job'[t].pc \notin {"copy", "work", "give", "end"}
  /\ Last(t)' => refs = {}
  /\ job'[t].pc = "test" => pc(t) = "fin" /\ job[t].then = "test"
  /\ job'[t].pc = "fin" => job'[t].then # "test"

LEMMA CallJob ==
  ASSUME IInv, NEW t \in Tasks, Ready(t), NEW p \in {"direct", "claim"},
         NEW o \in {"", "send", "drain", "push", "shut"}, NEW n \in Nat,
         NEW next \in {"idle", "direct"}, Do(t, Job(p, o, n, next))
  PROVE  NewJob(t)
<1>1. p \in Places
  BY Zenon DEF Places
<1> DEFINE j == Job(p, o, n, next)
<1>2. j \in Jobs /\ j.pc = p /\ j.op = o /\ j.then = next
  BY <1>1 DEF Job, Jobs
<1>3. Do(t, j)
  OBVIOUS
<1> HIDE DEF j
<1>4. job' \in [Tasks -> Jobs] /\ Others(t) /\ job'[t] = j
  BY Zenon, <1>2, <1>3, Does DEF IInv
<1>5. pc(t) = "idle"
  BY Zenon DEF Ready
<1> QED
  BY Zenon, <1>2, <1>4, <1>5 DEF NewJob, Last, pc

LEMMA SameJob ==
  ASSUME IInv, NEW t \in Tasks, Ready(t), job' = job
  PROVE  NewJob(t)
<1>1. pc(t) = "idle" /\ t \in refs
  BY Zenon DEF Ready
<1>2. Last(t)' => Last(t)
  BY Zenon DEF Last, pc
<1>3. Last(t)' => refs = {}
  BY Zenon, <1>2 DEF IInv, Closing
<1> QED
  BY Zenon, <1>1, <1>3 DEF NewJob, IInv, Typed, Others, pc

(* Where a Task goes on to.                                                *)
LEMMA GoneOn ==
  ASSUME IInv, NEW t \in Tasks, GoOn(t)
  PROVE  /\ job' \in [Tasks -> Jobs] /\ Others(t)
         /\ job'[t].pc \in {"idle", "claim", "direct", "test", "drop"}
         /\ Last(t)' => Last(t)
         /\ job'[t].then = "park" => job[t].then = "park"
         /\ job'[t].pc = "test" => job[t].then = "test"
<1> Typed /\ job[t].then \in {"idle", "direct", "drain", "park", "test", "drop"}
  BY Zenon DEF IInv, Typed, Jobs
<1> "idle" \in Places /\ "direct" \in Places /\ "test" \in Places /\ "drop" \in Places
    /\ "claim" \in Places
  BY Zenon DEF Places
<1>1. CASE Goto(t, "idle")
  BY Zenon, <1>1, Goes DEF Last, pc
<1>2. CASE job[t].then = "drain" /\ ToClaim(t, "drain", job[t].len, "direct")
  <2>1. job[t].len \in Nat
    BY Zenon DEF Typed, Jobs
  <2> DEFINE j == Job("claim", "drain", job[t].len, "direct")
  <2>2. j \in Jobs /\ j.pc = "claim" /\ j.op = "drain" /\ j.then = "direct"
    BY <2>1 DEF Job, Jobs, Places
  <2>3. Do(t, j)
    BY Zenon, <1>2 DEF ToClaim
  <2> HIDE DEF j
  <2> QED
    BY Zenon, <2>2, <2>3, Does DEF Last, pc
<1>3. CASE job[t].then \in {"direct", "test", "drop"} /\ Goto(t, job[t].then)
  BY Zenon, <1>3, Goes DEF Last, pc
<1> QED
  BY Zenon, <1>1, <1>2, <1>3 DEF GoOn

LEMMA MovingMoves ==
  ASSUME IInv, NEW t \in Tasks, Moving(t)
  PROVE  /\ Moves(t) /\ NewJob(t) /\ refs' = refs
         /\ Busy(t) \/ (t \in refs /\ running)
         /\ life' = life \/ (life' = "parked" /\ pc(t) = "test")
<1> Typed /\ win \in Nat /\ win <= win /\ written \in [Tasks -> Nat]
    /\ refs \subseteq Tasks /\ life \in {"open", "parked", "freed"} /\ 0 \in Nat /\ 1 \in Nat
  BY DEF IInv, Typed
<1> DEFINE Rest ==
      /\ UNCHANGED <<state, owner, pkt, hand, why, event, ipPc, running, tickIp,
                     stopPc, entered, stops, up, made, live, ticking>>
      /\ \A f \in {"LINKED", "STALLED", "TICK", "KICK"} : f \in flags' <=> f \in flags
      /\ win' \in Nat /\ win' <= win /\ written' \in [Tasks -> Nat]
      /\ refs' = refs
<1> USE DEF seg, sock, nx, ip, lib, timer, bytes
<1>1. ASSUME NEW n \in 1..Cap, Send(t, n) PROVE Rest /\ NewJob(t) /\ Ready(t) /\ life' = life
  <2>1. n \in Nat
    BY <1>1
  <2>2. NewJob(t)
    BY Zenon, <1>1, <2>1, CallJob, SameJob DEF Send, ToClaim
  <2> QED
    BY Zenon, <1>1, <2>2 DEF Send
<1>2. CASE SendOob(t)
  <2>1. NewJob(t)
    BY Zenon, <1>2, CallJob DEF SendOob, ToClaim
  <2>2. Rest /\ Ready(t) /\ life' = life
    BY Zenon, <1>2 DEF SendOob
  <2> QED
    BY Zenon, <2>1, <2>2 DEF Moves, NewJob, Ready
<1>3. CASE Push(t)
  <2>1. NewJob(t)
    BY Zenon, <1>3, CallJob, SameJob DEF Push, ToClaim
  <2>2. Rest /\ Ready(t) /\ life' = life
    BY Zenon, <1>3 DEF Push
  <2> QED
    BY Zenon, <2>1, <2>2 DEF Moves, NewJob, Ready
<1>4. CASE SetCork(t)
  <2>1. NewJob(t)
    BY Zenon, <1>4, SameJob DEF SetCork
  <2>2. Rest /\ Ready(t) /\ life' = life
    BY Zenon, <1>4 DEF SetCork
  <2> QED
    BY Zenon, <2>1, <2>2 DEF Moves, NewJob, Ready
<1>5. CASE ClearCork(t)
  <2>1. NewJob(t)
    BY Zenon, <1>5, CallJob, SameJob DEF ClearCork, ToClaim
  <2>2. Rest /\ Ready(t) /\ life' = life
    BY Zenon, <1>5 DEF ClearCork
  <2> QED
    BY Zenon, <2>1, <2>2 DEF Moves, NewJob, Ready
<1>6. CASE Shut(t)
  <2>1. ASSUME ToClaim(t, "shut", 0, "idle") PROVE NewJob(t)
    BY Zenon, <1>6, <2>1, CallJob DEF Shut, ToClaim
  <2>2. ASSUME Goto(t, "fin") PROVE NewJob(t)
    <3>1. pc(t) = "idle" /\ ~Last(t)
      BY Zenon, <1>6, InCall DEF Shut, Ready
    <3>2. /\ job' \in [Tasks -> Jobs] /\ Others(t) /\ job'[t].pc = "fin"
          /\ job'[t].op = job[t].op /\ job'[t].then = job[t].then
      BY Zenon, <2>2, Goes DEF Places
    <3> QED
      BY Zenon, <3>1, <3>2 DEF NewJob, Last, pc
  <2>3. NewJob(t)
    BY Zenon, <1>6, <2>1, <2>2, CallJob DEF Shut, ToClaim
  <2>4. Rest /\ Ready(t) /\ life' = life
    BY Zenon, <1>6 DEF Shut
  <2> QED
    BY Zenon, <2>3, <2>4 DEF Moves, NewJob, Ready
<1>7. CASE GiveUp(t)
  <2>1. NewJob(t)
    BY Zenon, <1>7, Goes DEF GiveUp, NewJob, Places, Last, pc
  <2>2. Rest /\ Busy(t) /\ life' = life
    BY Zenon, <1>7 DEF GiveUp, Busy
  <2> QED
    BY Zenon, <2>1, <2>2 DEF Moves, NewJob
<1>8. CASE Fin(t)
  <2>1. NewJob(t)
    <3>1. GoOn(t) /\ pc(t) = "fin"
      BY Zenon, <1>8 DEF Fin
    <3>2. Last(t)' => refs = {}
      BY Zenon, <3>1, GoneOn DEF IInv, Closing
    <3> QED
      BY Zenon, <3>1, <3>2, GoneOn DEF NewJob
  <2>2. Rest /\ Busy(t) /\ life' = life
    BY Zenon, <1>8 DEF Fin, SendFin, Busy
  <2> QED
    BY Zenon, <2>1, <2>2 DEF Moves, NewJob
<1>9. CASE Direct(t)
  <2>1. NewJob(t)
    BY Zenon, <1>9, Goes DEF Direct, NewJob, Places, Last, pc
  <2>2. PICK n \in IF wrshut \/ ~CanSend THEN {0} ELSE {k \in 0..job[t].len : k <= win} :
          written' = [written EXCEPT ![t] = @ + n] /\ win' = win - n
    BY Zenon, <1>9 DEF Direct
  <2>3. n \in Nat /\ n <= win
    <3>1. job[t].len \in Nat
      BY Zenon DEF Typed, Jobs
    <3> QED
      BY <3>1
  <2>4. win' \in Nat /\ win' <= win
    BY <2>2, <2>3
  <2>5. written' \in [Tasks -> Nat]
    BY Zenon, <2>2, <2>3, Credited
  <2>6. Rest /\ Busy(t) /\ life' = life
    BY Zenon, <1>9, <2>4, <2>5 DEF Direct, Busy
  <2> QED
    BY Zenon, <2>1, <2>6 DEF Moves, NewJob
<1>10. CASE Park(t)
  <2>1. NewJob(t)
    <3>1. pc(t) = "test" /\ refs = {}
      BY Zenon, <1>10 DEF Park, IInv, Closing, Last
    <3> QED
      BY Zenon, <1>10, <3>1, Goes DEF Park, NewJob, Places
  <2>2. Rest /\ Busy(t) /\ (life' = life \/ (life' = "parked" /\ pc(t) = "test"))
    BY Zenon, <1>10 DEF Park, Busy
  <2> QED
    BY Zenon, <2>1, <2>2 DEF Moves, NewJob
<1>11. ASSUME NEW n \in 1..Cap, Send(t, n) PROVE Moves(t) /\ NewJob(t) /\ refs' = refs
           /\ (Busy(t) \/ (t \in refs /\ running)) /\ life' = life
  BY Zenon, <1>1, <1>11 DEF Moves, NewJob, Ready
<1> QED
  BY Zenon, <1>2, <1>3, <1>4, <1>5, <1>6, <1>7, <1>8, <1>9, <1>10, <1>11 DEF Moving

LEMMA MovingStep ==
  ASSUME IInv, NEW t \in Tasks, Moving(t)
  PROVE  IInv'
<1>1. /\ Moves(t) /\ NewJob(t) /\ refs' = refs
      /\ Busy(t) \/ (t \in refs /\ running)
      /\ life' = life \/ (life' = "parked" /\ pc(t) = "test")
  BY Zenon, MovingMoves
<1>2. life # "freed" /\ (life # "open" => refs = {}) /\ (pc(t) = "test" => refs = {})
  BY Zenon, <1>1, InCall DEF IInv, Closing, Last
<1> QED
  BY Zenon, <1>1, <1>2, MovesStep DEF NewJob

(* CloseSocket(), the sweep of a parked close and the end of both.         *)
LEMMA CloseMoves ==
  ASSUME IInv, NEW t \in Tasks, NEW how \in {"close", "linger", "abort"}, Close(t, how)
  PROVE  /\ Moves(t) /\ refs' = refs \ {t} /\ life' = life /\ Ready(t)
         /\ refs' # {} => job' = job
         /\ job'[t].pc # "test"
         /\ job'[t].pc = "fin" => pkt = <<>> /\ state = "IDLE"
<1> USE DEF seg, sock, nx, ip, lib, timer, bytes
<1>1. Typed /\ win \in Nat /\ win <= win /\ written \in [Tasks -> Nat] /\ 0 \in Nat
      /\ refs \subseteq Tasks /\ life \in {"open", "parked", "freed"}
  BY DEF IInv, Typed
<1>2. Ready(t) /\ refs' = refs \ {t} /\ life' = life /\ pc(t) = "idle"
  BY Zenon DEF Close, Ready
<1>3. /\ job' \in [Tasks -> Jobs] /\ Others(t)
      /\ job'[t].pc \notin {"copy", "work", "give", "end", "test"}
      /\ job'[t].pc = "fin" => pkt = <<>> /\ state = "IDLE"
  <2>1. CASE job' = job
    BY Zenon, <1>1, <1>2, <2>1 DEF Typed, Others, pc
  <2>2. CASE Then(t, "drop", "drop")
    BY Zenon, <1>1, <2>2, Thens DEF Places
  <2>3. ASSUME NEW o \in {"close", "linger"}, ToClaim(t, o, 0, "drop") PROVE <1>3!:
    <3> DEFINE j == Job("claim", o, 0, "drop")
    <3>1. j \in Jobs /\ j.pc = "claim"
      BY DEF Job, Jobs, Places
    <3>2. Do(t, j)
      BY Zenon, <2>3 DEF ToClaim
    <3> HIDE DEF j
    <3> QED
      BY Zenon, <1>1, <3>1, <3>2, Does
  <2>4. CASE ~Corked /\ Then(t, "fin", "test")
    BY Zenon, <1>1, <2>4, Thens DEF Places, Corked
  <2> QED
    BY Zenon, <2>1, <2>2, <2>3, <2>4 DEF Close
<1>4. refs' # {} => job' = job
  BY Zenon DEF Close
<1> QED
  BY Zenon, <1>1, <1>2, <1>3, <1>4 DEF Close, Moves

LEMMA CloseStep ==
  ASSUME IInv, NEW t \in Tasks, NEW how \in {"close", "linger", "abort"}, Close(t, how)
  PROVE  IInv'
<1>1. /\ Moves(t) /\ refs' = refs \ {t} /\ life' = life /\ t \in refs
      /\ refs' # {} => job' = job
  BY Zenon, CloseMoves DEF Ready
<1>2. Typed' /\ Owned'
  BY Zenon, <1>1, MovesOwned
<1>3. stopPc = "none" /\ up /\ life = "open"
  BY Zenon, <1>1, InCall
<1>4. \A u \in Tasks : Busy(u) => u \in refs
  BY Zenon, <1>1 DEF IInv, Closing
<1>5. \A u \in Tasks : u # t => (Busy(u)' <=> Busy(u)) /\ (Last(u)' <=> Last(u))
  BY Zenon, <1>1 DEF Moves, Others, Busy, Last, pc
<1>6. \A u \in Tasks : ~Last(u)
  BY Zenon, <1>1 DEF IInv, Closing
<1>7. UNCHANGED <<state, pkt, stopPc, up, made, ticking>>
      /\ ("LINKED" \in flags' <=> "LINKED" \in flags)
  BY Zenon, <1>1 DEF Moves
<1>8. Closing'
  <2>1. \A u \in Tasks : pc(u)' # "end"
    <3>1. \A u \in Tasks : u # t => job'[u] = job[u]
      BY Zenon, <1>1 DEF Moves, Others
    <3> QED
      BY Zenon, <1>1, <1>6, <3>1 DEF Moves, pc, Last
  <2>2. CASE refs' = {}
    <3>1. \A u \in Tasks : Busy(u)' => u = t
      BY Zenon, <1>1, <1>4, <1>5, <2>2
    <3> QED
      BY Zenon, <1>1, <1>3, <1>7, <2>1, <2>2, <3>1 DEF IInv, Closing
  <2>3. CASE refs' # {}
    <3>1. \A u \in Tasks : (Busy(u)' <=> Busy(u)) /\ (Last(u)' <=> Last(u))
      BY Zenon, <1>1, <2>3 DEF Busy, Last, pc
    <3>2. \A u \in Tasks : Busy(u)' => u \in refs'
      <4>1. Ready(t)
        BY Zenon DEF Close
      <4>2. ~Busy(t)
        BY Zenon, <4>1 DEF Ready, Busy
      <4> QED
        BY Zenon, <1>1, <1>4, <3>1, <4>2
    <3> QED
      BY Zenon, <1>3, <1>1, <1>6, <1>7, <2>1, <3>1, <3>2 DEF IInv, Closing
  <2> QED
    BY Zenon, <2>2, <2>3
<1>9. Stopping'
  <2>1. stopPc' = "none" /\ up' /\ (~made' => ~ticking')
    BY Zenon, <1>3, <1>7 DEF IInv, Stopping
  <2> QED
    BY Zenon, <2>1, StaysUp
<1> QED
  BY Zenon, <1>2, <1>8, <1>9 DEF IInv

LEMMA SweepMoves ==
  ASSUME IInv, NEW t \in Tasks, Sweep(t)
  PROVE  /\ Moves(t) /\ refs' = refs /\ refs = {} /\ life' = life /\ life = "parked"
         /\ job'[t].pc = "drop" /\ stopPc = "none" /\ up
         /\ \A u \in Tasks : ~Busy(u)
<1>1. Typed /\ win \in Nat /\ win <= win
  BY DEF IInv, Typed
<1>2. job' \in [Tasks -> Jobs] /\ Others(t) /\ job'[t].pc = "drop"
  BY Zenon, <1>1, Goes DEF Sweep, Places
<1> QED
  BY Zenon, <1>1, <1>2 DEF Sweep, Moves, Busy, Typed, sock, lib, timer, seg, ip, bytes, IInv, Closing

LEMMA SweepStep ==
  ASSUME IInv, NEW t \in Tasks, Sweep(t)
  PROVE  IInv'
<1>1. /\ Moves(t) /\ refs' = refs /\ refs = {} /\ life' = life /\ life = "parked"
      /\ job'[t].pc = "drop" /\ stopPc = "none" /\ up
      /\ \A u \in Tasks : ~Busy(u)
  BY Zenon, SweepMoves
<1>2. Typed' /\ Owned'
  BY Zenon, <1>1, MovesOwned
<1>3. \A u \in Tasks : u # t => ~Busy(u)' /\ pc(u)' # "end"
  BY Zenon, <1>1 DEF Moves, Others, Busy, pc
<1>4. UNCHANGED <<state, pkt, stopPc, up, made, ticking>>
      /\ ("LINKED" \in flags' <=> "LINKED" \in flags)
  BY Zenon, <1>1 DEF Moves
<1>5. pc(t)' # "end"
  BY Zenon, <1>1 DEF pc
<1>6. Closing'
  BY Zenon, <1>1, <1>3, <1>4, <1>5 DEF IInv, Closing
<1>7. stopPc' = "none" /\ up' /\ (~made' => ~ticking')
  BY Zenon, <1>1, <1>4 DEF IInv, Stopping
<1> QED
  BY Zenon, <1>2, <1>6, <1>7, StaysUp DEF IInv

LEMMA DestroyMoves ==
  ASSUME IInv, NEW t \in Tasks, Destroy(t)
  PROVE  /\ Moves(t) /\ refs' = refs /\ refs = {} /\ life' = "freed" /\ pc(t) = "end"
         /\ Bare /\ ipPc = "wait" /\ \A u \in Tasks : ~Busy(u)'
<1>1. Typed /\ win \in Nat /\ win <= win
  BY DEF IInv, Typed
<1>2. /\ job' \in [Tasks -> Jobs] /\ Others(t) /\ job'[t].pc = "idle" /\ pc(t) = "end"
  BY Zenon, <1>1, Goes DEF Destroy, Places
<1>3. refs = {} /\ Bare /\ \A u \in Tasks : u # t => ~Busy(u)
  BY Zenon, <1>2 DEF IInv, Closing, Busy, Last
<1>4. \A u \in Tasks : ~Busy(u)'
  BY Zenon, <1>2, <1>3 DEF Others, Busy, pc
<1>5. Moves(t)
  BY Zenon, <1>1, <1>2 DEF Destroy, Moves, Typed, lib, timer, seg, ip, bytes
<1> QED
  BY Zenon, <1>2, <1>3, <1>4, <1>5 DEF Destroy, MutexFree

LEMMA DestroyStep ==
  ASSUME IInv, NEW t \in Tasks, Destroy(t)
  PROVE  IInv'
<1>1. /\ Moves(t) /\ refs' = refs /\ refs = {} /\ life' = "freed" /\ pc(t) = "end"
      /\ Bare /\ ipPc = "wait" /\ \A u \in Tasks : ~Busy(u)'
  BY Zenon, DestroyMoves
<1>2. Typed' /\ Owned'
  BY Zenon, <1>1, MovesOwned
<1>3. UNCHANGED <<state, pkt, stopPc, up, made, ticking, ipPc>>
      /\ ("LINKED" \in flags' <=> "LINKED" \in flags)
  BY Zenon, <1>1 DEF Moves
<1>4. Bare'
  BY Zenon, <1>1, <1>3 DEF Bare
<1>5. Closing'
  BY Zenon, <1>1, <1>3, <1>4 DEF Closing, Bare
<1>6. stopPc = "none" /\ up
  BY Zenon, <1>1, InCall DEF Busy
<1>7. stopPc' = "none" /\ up' /\ (~made' => ~ticking')
  BY Zenon, <1>3, <1>6 DEF IInv, Stopping
<1> QED
  BY Zenon, <1>2, <1>5, <1>7, StaysUp DEF IInv

(* The list and the timer, and the owner's return of the segment.          *)
LEMMA Links ==
  ASSUME NEW f, Link(f), ~made => ~ticking
  PROVE  /\ flags' = f \cup {"LINKED"} /\ made' = made /\ (~made' => ~ticking')
         /\ running /\ made /\ "TICK" \in f => live'
<1>1. CASE "TICK" \in f /\ running /\ made /\ ~live
  BY Zenon, <1>1 DEF Link
<1>2. CASE ~("TICK" \in f /\ running /\ made /\ ~live)
  BY Zenon, <1>2 DEF Link, timer
<1> QED
  BY Zenon, <1>1, <1>2

LEMMA Unclaims ==
  ASSUME IInv, NEW a \in Actors, owner = a, Unclaim(a)
  PROVE  /\ state' = "IDLE" /\ owner' = None /\ pkt' = hand[a] /\ pkt' \in Segment
         /\ hand' \in [Actors -> Segment] /\ \A x \in Actors : hand'[x] = <<>>
         /\ why' \in [Actors -> SUBSET Waits]
         /\ pkt' # <<>> => "LINKED" \in flags'
         /\ made' = made /\ (~made' => ~ticking')
<1>1. Typed /\ Owned /\ (~made => ~ticking) /\ {} \in SUBSET Waits
  BY Zenon DEF IInv, Stopping
<1>2. /\ state' = "IDLE" /\ owner' = None /\ pkt' = hand[a]
      /\ hand' = [hand EXCEPT ![a] = <<>>] /\ why' = [why EXCEPT ![a] = {}]
  BY Zenon DEF Unclaim
<1>3. /\ hand' \in [Actors -> Segment] /\ why' \in [Actors -> SUBSET Waits]
      /\ pkt' \in Segment
  BY Zenon, <1>1, <1>2, NoBytes DEF Typed
<1>4. \A x \in Actors : hand'[x] = <<>>
  BY Zenon, <1>1, <1>2 DEF Typed, Owned
<1>5. CASE hand[a] # <<>>
  <2>1. Link((flags \cup WaitsOn(why[a])) \ {"KICK"})
    BY Zenon, <1>5 DEF Unclaim
  <2>2. /\ "LINKED" \in flags' /\ made' = made /\ (~made' => ~ticking')
    BY Zenon, <1>1, <2>1, Links
  <2> QED
    BY Zenon, <1>2, <1>3, <1>4, <2>2
<1>6. CASE hand[a] = <<>>
  <2>1. UNCHANGED <<made, live, ticking>>
    BY Zenon, <1>6 DEF Unclaim, timer
  <2>2. made' = made /\ (~made' => ~ticking')
    BY Zenon, <1>1, <2>1
  <2> QED
    BY Zenon, <1>2, <1>3, <1>4, <1>6, <2>2
<1> QED
  BY Zenon, <1>5, <1>6

LEMMA GiveStep ==
  ASSUME IInv, NEW t \in Tasks, Give(t)
  PROVE  IInv'
<1> Typed
  BY Zenon DEF IInv
<1>1. pc(t) = "give" /\ owner = t /\ t \in Actors /\ t # IP /\ Busy(t) /\ IP # None /\ t # None
  BY Zenon, Distinct DEF Give, IInv, Owned, Owning, Busy
<1>2. /\ state' = "IDLE" /\ owner' = None /\ pkt' \in Segment
      /\ hand' \in [Actors -> Segment] /\ \A x \in Actors : hand'[x] = <<>>
      /\ why' \in [Actors -> SUBSET Waits]
      /\ pkt' # <<>> => "LINKED" \in flags'
      /\ made' = made /\ (~made' => ~ticking')
  BY Zenon, <1>1, Unclaims DEF Give
<1>3. /\ job' \in [Tasks -> Jobs] /\ Others(t)
      /\ job'[t].pc \notin {"copy", "work", "give", "end"} /\ (Last(t)' => Last(t))
  <2>1. CASE GoOn(t)
    BY Zenon, <2>1, GoneOn
  <2>2. CASE Goto(t, "fin")
    BY Zenon, <2>2, Goes DEF Places, Last, pc
  <2> QED
    BY Zenon, <2>1, <2>2 DEF Give
<1>4. UNCHANGED <<refs, win, written, event, ipPc, running, tickIp, stopPc, entered, stops, up>>
  BY Zenon DEF Give, nx, ip, lib, bytes
<1>5. life' \in {life, "parked"} /\ (life' # life => refs = {})
  <2>1. life' # life => job[t].then = "park"
    BY Zenon DEF Give
  <2> QED
    BY Zenon, <2>1 DEF Give, IInv, Closing, Last
<1>6. stopPc = "none" /\ up /\ life # "freed" /\ (life # "open" => refs = {})
  BY Zenon, <1>1, InCall DEF IInv, Closing
<1>7. Typed'
  BY Zenon, <1>2, <1>3, <1>4, <1>5 DEF Typed
<1>8. Owned'
  <2>1. \A u \in Tasks : pc(u)' \notin {"copy", "work", "give"}
    <3>1. \A u \in Tasks : u # t => pc(u) \notin {"copy", "work", "give"}
      BY Zenon, <1>1 DEF IInv, Owned, Owning
    <3> QED
      BY Zenon, <1>3, <3>1 DEF Others, pc
  <2>2. ipPc \notin IpOwning /\ ipPc # "detach"
    BY Zenon, <1>1 DEF IInv, Owned, IpOwning
  <2> QED
    BY Zenon, <1>1, <1>2, <1>4, <2>1, <2>2, Distinct DEF Owned, Owning
<1>9. Closing'
  <2>1. Last(t)' => refs = {}
    BY Zenon, <1>3 DEF IInv, Closing
  <2>2. pc(t)' # "end"
    BY Zenon, <1>3 DEF pc
  <2>3. life' # "freed" /\ (life' # "open" => refs = {})
    BY Zenon, <1>5, <1>6
  <2> QED
    BY Zenon, <1>1, <1>2, <1>3, <1>4, <2>1, <2>2, <2>3, ClosingKept
<1>10. Stopping'
  BY Zenon, <1>2, <1>4, <1>6, StaysUp
<1> QED
  BY Zenon, <1>7, <1>8, <1>9, <1>10 DEF IInv

(* The claim, and the drop of a closed socket's segment.                   *)
LEMMA ClaimStep ==
  ASSUME IInv, NEW t \in Tasks, Claim(t)
  PROVE  IInv'
<1> Typed
  BY Zenon DEF IInv
<1>1. /\ pc(t) = "claim" /\ state = "IDLE" /\ state' = "FLUSH" /\ owner' = t
      /\ hand' = [hand EXCEPT ![t] = pkt] /\ pkt' = <<>>
  BY Zenon DEF Claim, Take
<1>2. /\ job' \in [Tasks -> Jobs] /\ Others(t) /\ job'[t].pc = "work"
      /\ job'[t].op = job[t].op /\ job'[t].then = job[t].then
  BY Zenon, Goes DEF Claim, Places
<1>3. UNCHANGED <<why, refs, life, win, written, ipPc, stopPc, stops, up, made, ticking>>
  BY Zenon DEF Claim, sock, nx, ip, lib, timer, bytes
<1>4. owner = None /\ t \in Actors /\ t # IP /\ t # None /\ ipPc \notin IpOwning
      /\ ipPc # "detach" /\ \A x \in Actors : hand[x] = <<>>
  BY Zenon, <1>1, Distinct DEF IInv, Owned, IpOwning, Actors
<1>5. Typed'
  BY Zenon, <1>1, <1>2, <1>3, <1>4, NoBytes DEF Typed
<1>6. Owned'
  <2>1. \A u \in Tasks : u # t => pc(u)' \notin {"copy", "work", "give"}
    <3>1. \A u \in Tasks : pc(u) \notin {"copy", "work", "give"}
      BY Zenon, <1>1, <1>4, Distinct DEF IInv, Owned, Owning
    <3> QED
      BY Zenon, <1>2, <3>1 DEF Others, pc
  <2>2. pc(t)' = "work"
    BY Zenon, <1>2 DEF pc
  <2>3. \A x \in Actors : x # t => hand'[x] = <<>>
    BY Zenon, <1>1, <1>4 DEF Typed
  <2> QED
    BY Zenon, <1>1, <1>3, <1>4, <2>1, <2>2, <2>3, Distinct DEF Owned, Owning
<1>7. Busy(t) /\ (Last(t)' => Last(t)) /\ pc(t)' # "end"
  BY Zenon, <1>1, <1>2 DEF Busy, Last, pc
<1>8. stopPc = "none" /\ up /\ life # "freed"
  BY Zenon, <1>7, InCall
<1>9. Closing'
  <2>1. (Last(t)' => refs = {}) /\ (life' # "open" => refs = {})
    BY Zenon, <1>3, <1>7 DEF IInv, Closing
  <2> QED
    BY Zenon, <1>1, <1>2, <1>3, <1>7, <1>8, <2>1, ClosingKept
<1>10. stopPc' = "none" /\ up' /\ (~made' => ~ticking')
  BY Zenon, <1>3, <1>8 DEF IInv, Stopping
<1> QED
  BY Zenon, <1>5, <1>6, <1>9, <1>10, StaysUp DEF IInv

LEMMA DropStep ==
  ASSUME IInv, NEW t \in Tasks, DropSegment(t)
  PROVE  IInv'
<1> Typed
  BY Zenon DEF IInv
<1>1. /\ pc(t) = "drop" /\ state = "IDLE" /\ pkt' = <<>>
      /\ flags' = flags \ {"LINKED", "STALLED", "TICK", "FIN", "KICK"}
  BY Zenon DEF DropSegment
<1>2. /\ job' \in [Tasks -> Jobs] /\ Others(t) /\ job'[t].pc = "end"
  BY Zenon, Goes DEF DropSegment, Places
<1>3. UNCHANGED <<state, owner, hand, why, refs, life, win, written, ipPc, stopPc,
                  stops, up, made, ticking>>
  BY Zenon DEF DropSegment, sock, nx, ip, lib, timer
<1>4. Typed'
  BY Zenon, <1>1, <1>2, <1>3, NoBytes DEF Typed
<1>5. Owned'
  <2>1. \A u \in Tasks : u # t => pc(u)' = pc(u) /\ job'[u].len = job[u].len
    BY Zenon, <1>2 DEF Others, pc
  <2>2. pc(t)' = "end"
    BY Zenon, <1>2 DEF pc
  <2>3. \A u \in Tasks : pc(u) # "copy"
    BY Zenon, <1>1 DEF IInv, Owned
  <2> QED
    BY Zenon, <1>1, <1>3, <2>1, <2>2, <2>3 DEF IInv, Owned, Owning
<1>6. Busy(t) /\ Last(t) /\ Bare'
  BY Zenon, <1>1, <1>3 DEF Busy, Last, Bare
<1>7. stopPc = "none" /\ up /\ life # "freed"
  BY Zenon, <1>6, InCall
<1>8. Closing'
  <2>1. refs = {}
    BY Zenon, <1>6 DEF IInv, Closing
  <2> QED
    BY Zenon, <1>1, <1>2, <1>3, <1>6, <1>7, <2>1, ClosingKept
<1>9. stopPc' = "none" /\ up' /\ (~made' => ~ticking')
  BY Zenon, <1>3, <1>7 DEF IInv, Stopping
<1> QED
  BY Zenon, <1>4, <1>5, <1>8, <1>9, StaysUp DEF IInv

(* The fast path: one copier at a time, into a segment with room.          *)
LEMMA FastTakeStep ==
  ASSUME IInv, NEW t \in Tasks, NEW n \in 1..Cap, FastTake(t, n)
  PROVE  IInv'
<1> Typed
  BY Zenon DEF IInv
<1>1. /\ pc(t) = "idle" /\ t \in refs /\ state = "IDLE" /\ pkt # <<>> /\ state' = "APPEND"
      /\ n < Cap - Len(pkt)
  BY Zenon DEF FastTake, Ready
<1>2. n \in Nat /\ Len(pkt) + n < Cap
  <2>1. Len(pkt) \in Nat /\ Cap \in Nat
    BY Zenon, Segments, CorkAssumption DEF Typed
  <2> QED
    BY <1>1, <2>1
<1>3. /\ job' \in [Tasks -> Jobs] /\ Others(t) /\ job'[t].pc = "copy" /\ job'[t].len = n
      /\ job'[t].op = "" /\ job'[t].then = "idle"
  <2> DEFINE j == Job("copy", "", n, "idle")
  <2>1. j \in Jobs /\ j.pc = "copy" /\ j.len = n /\ j.op = "" /\ j.then = "idle"
    BY <1>2 DEF Job, Jobs, Places
  <2>2. Do(t, j)
    BY Zenon DEF FastTake
  <2> HIDE DEF j
  <2> QED
    BY Zenon, <2>1, <2>2, Does
<1>4. UNCHANGED <<owner, flags, pkt, hand, why, refs, life, win, written, ipPc, stopPc,
                  stops, up, made, ticking>>
  BY Zenon DEF FastTake, sock, nx, ip, lib, timer, bytes
<1>5. Typed'
  BY Zenon, <1>1, <1>3, <1>4 DEF Typed
<1>6. Owned'
  <2>1. \A u \in Tasks : u # t => pc(u)' = pc(u)
    BY Zenon, <1>3 DEF Others, pc
  <2>2. pc(t)' = "copy"
    BY Zenon, <1>3 DEF pc
  <2>3. \A u \in Tasks : pc(u) # "copy"
    BY Zenon, <1>1 DEF IInv, Owned
  <2>4. Len(pkt') + job'[t].len < Cap
    BY Zenon, <1>2, <1>3, <1>4
  <2>5. owner = None /\ ipPc # "detach"
    BY Zenon, <1>1, Distinct DEF IInv, Owned, IpOwning
  <2> QED
    BY Zenon, <1>1, <1>4, <2>1, <2>2, <2>3, <2>4, <2>5 DEF IInv, Owned, Owning
<1>7. stopPc = "none" /\ up /\ life = "open"
  BY Zenon, <1>1, InCall
<1>8. Closing'
  <2>1. ~Last(t)' /\ pc(t)' # "end"
    BY Zenon, <1>3 DEF Last, pc
  <2>2. "LINKED" \in flags'
    BY Zenon, <1>1, <1>4, <1>7 DEF IInv, Closing
  <2> QED
    BY Zenon, <1>1, <1>3, <1>4, <1>7, <2>1, <2>2, ClosingKept
<1>9. stopPc' = "none" /\ up' /\ (~made' => ~ticking')
  BY Zenon, <1>4, <1>7 DEF IInv, Stopping
<1> QED
  BY Zenon, <1>5, <1>6, <1>8, <1>9, StaysUp DEF IInv

LEMMA FastDoneStep ==
  ASSUME IInv, NEW t \in Tasks, FastDone(t)
  PROVE  IInv'
<1> Typed
  BY Zenon DEF IInv
<1>1. /\ pc(t) = "copy" /\ state = "APPEND" /\ pkt # <<>> /\ state' = "IDLE"
      /\ pkt' = pkt \o New(t, job[t].len) /\ Len(pkt) + job[t].len < Cap
      /\ written' = [written EXCEPT ![t] = @ + job[t].len]
  BY Zenon DEF FastDone, IInv, Owned
<1>2. /\ job' \in [Tasks -> Jobs] /\ Others(t) /\ job'[t].pc \in {"kick", "idle"}
      /\ Last(t)' => Last(t)
  <2>1. PICK p \in {"kick", "idle"} : Goto(t, p)
    BY Zenon DEF FastDone
  <2> QED
    BY Zenon, <2>1, Goes DEF Places, Last, pc
<1>3. UNCHANGED <<owner, flags, hand, why, refs, life, win, ipPc, stopPc,
                  stops, up, made, ticking>>
  BY Zenon DEF FastDone, sock, nx, ip, lib, timer
<1>4. job[t].len \in Nat /\ pkt \in Segment
  BY Zenon DEF Typed, Jobs
<1>5. pkt' \in Segment
  <2>1. Len(pkt) + job[t].len <= Cap
    BY <1>1, <1>4, Segments, CorkAssumption
  <2> QED
    BY Zenon, <1>1, <1>4, <2>1, Extended
<1>6. written' \in [Tasks -> Nat]
  BY Zenon, <1>1, <1>4, Credited
<1>7. Typed'
  BY Zenon, <1>1, <1>2, <1>3, <1>5, <1>6 DEF Typed
<1>8. Owned'
  <2>1. \A u \in Tasks : u # t => pc(u)' = pc(u) /\ pc(u) # "copy"
    BY Zenon, <1>1, <1>2 DEF Others, pc, IInv, Owned
  <2>2. pc(t)' \in {"kick", "idle"}
    BY Zenon, <1>2 DEF pc
  <2>3. owner = None /\ ipPc # "detach"
    BY Zenon, <1>1, Distinct DEF IInv, Owned, IpOwning
  <2> QED
    BY Zenon, <1>1, <1>3, <2>1, <2>2, <2>3 DEF IInv, Owned, Owning
<1>9. Busy(t) /\ pc(t)' # "end"
  BY Zenon, <1>1, <1>2 DEF Busy, pc
<1>10. stopPc = "none" /\ up /\ life # "freed"
  BY Zenon, <1>9, InCall
<1>11. Closing'
  <2>1. (Last(t)' => refs = {}) /\ (life' # "open" => refs = {}) /\ "LINKED" \in flags'
    BY Zenon, <1>1, <1>2, <1>3, <1>10 DEF IInv, Closing
  <2> QED
    BY Zenon, <1>2, <1>3, <1>9, <1>10, <2>1, ClosingKept
<1>12. stopPc' = "none" /\ up' /\ (~made' => ~ticking')
  BY Zenon, <1>3, <1>10 DEF IInv, Stopping
<1> QED
  BY Zenon, <1>7, <1>8, <1>11, <1>12, StaysUp DEF IInv

LEMMA FastKickStep ==
  ASSUME IInv, NEW t \in Tasks, FastKick(t)
  PROVE  IInv'
<1> Typed
  BY Zenon DEF IInv
<1>1. pc(t) = "kick" /\ Busy(t)
  BY Zenon DEF FastKick, Busy
<1>2. /\ job' \in [Tasks -> Jobs] /\ Others(t) /\ job'[t].pc = "idle" /\ ~Last(t)'
  BY Zenon, Goes DEF FastKick, Places, Last, pc
<1>3. UNCHANGED <<state, owner, pkt, hand, why, refs, life, win, written, ipPc, stopPc,
                  stops, up>>
  BY Zenon DEF FastKick, sock, nx, ip, lib, bytes
<1>4. Typed'
  BY Zenon, <1>2, <1>3 DEF Typed
<1>5. Owned'
  <2>1. \A u \in Tasks : u # t => pc(u)' = pc(u) /\ job'[u].len = job[u].len
    BY Zenon, <1>2 DEF Others, pc
  <2>2. pc(t)' = "idle"
    BY Zenon, <1>2 DEF pc
  <2> QED
    BY Zenon, <1>1, <1>3, <2>1, <2>2 DEF IInv, Owned, Owning
<1>6. stopPc = "none" /\ up /\ life # "freed"
  BY Zenon, <1>1, InCall
<1>7. ("LINKED" \in flags => "LINKED" \in flags') /\ made' = made /\ (~made' => ~ticking')
  <2>1. ~made => ~ticking
    BY Zenon DEF IInv, Stopping
  <2>2. CASE Link((flags \ {"KICK", "STALLED"}) \cup {"TICK"})
    BY Zenon, <2>1, <2>2, Links
  <2>3. CASE UNCHANGED <<flags, timer>>
    <3>1. UNCHANGED <<flags, made, live, ticking>>
      BY Zenon, <2>3 DEF timer
    <3> QED
      BY Zenon, <2>1, <3>1
  <2> QED
    BY Zenon, <2>2, <2>3 DEF FastKick
<1>8. Closing'
  <2>1. pc(t)' # "end" /\ (life' # "open" => refs = {})
    BY Zenon, <1>2, <1>3 DEF pc, IInv, Closing
  <2>2. pkt' # <<>> /\ state' # "FLUSH" => "LINKED" \in flags' \/ stopPc' = "free"
    BY Zenon, <1>3, <1>7 DEF IInv, Closing
  <2> QED
    BY Zenon, <1>1, <1>2, <1>3, <1>6, <2>1, <2>2, ClosingKept
<1>9. Stopping'
  BY Zenon, <1>3, <1>6, <1>7, StaysUp
<1> QED
  BY Zenon, <1>4, <1>5, <1>8, <1>9 DEF IInv

----------------------------------------------------------------------------
(* Steps of the IP thread, the tick and the notifies.                      *)

(* What none of them changes.                                              *)
TasksKept ==
  UNCHANGED <<job, refs, life, running, tickIp, stopPc, entered, stops, up, written>>

LEMMA SamePlaces ==
  ASSUME job' = job
  PROVE  \A t \in Tasks : /\ pc(t)' = pc(t) /\ (Busy(t)' <=> Busy(t))
                          /\ (Last(t)' <=> Last(t)) /\ job'[t].len = job[t].len
BY Zenon DEF pc, Busy, Last

(* The IP thread in a pass: no stop has the mutex, and the stack is up.    *)
LEMMA InPass ==
  ASSUME IInv, ipPc # "wait"
  PROVE  /\ up /\ ~(entered = "ok" /\ stopPc \in {"handler", "list", "free", "leave"})
BY Zenon DEF IInv, Stopping

(* A step that moves the IP thread outside its ownership.                  *)
LEMMA PassMoves ==
  ASSUME IInv, TasksKept, UNCHANGED <<state, owner, pkt, hand, why, made>>,
         win' \in Nat, ipPc' \in IpPlaces \ IpOwning, ipPc \notin IpOwning,
         ipPc' = "fin" => ipPc = "fin",
         ipPc' # "wait" => up /\ ~(entered = "ok" /\ stopPc \in {"handler", "list", "free", "leave"}),
         "LINKED" \in flags' => "LINKED" \in flags,
         "LINKED" \in flags => "LINKED" \in flags' \/ pkt = <<>> \/ state = "FLUSH",
         ~made => ~ticking'
  PROVE  IInv'
<1> USE DEF TasksKept
<1>1. Typed'
  BY Zenon DEF IInv, Typed
<1>2. \A t \in Tasks : /\ pc(t)' = pc(t) /\ (Busy(t)' <=> Busy(t))
                       /\ (Last(t)' <=> Last(t)) /\ job'[t].len = job[t].len
  BY Zenon, SamePlaces
<1>3. Owned'
  <2>1. ipPc' \notin IpOwning /\ ipPc' # "detach" /\ ipPc # "detach"
    BY Zenon DEF IpOwning
  <2> QED
    BY Zenon, <1>2, <2>1 DEF IInv, Owned
<1>4. Bare => Bare'
  BY Zenon DEF Bare
<1>5. Closing'
  BY Zenon, <1>2, <1>4 DEF IInv, Closing
<1>6. Stopping'
  BY Zenon, <1>2 DEF IInv, Stopping
<1> QED
  BY Zenon, <1>1, <1>3, <1>5, <1>6 DEF IInv

(* Nothing the invariant speaks of changes.                                *)
LEMMA NothingMoves ==
  ASSUME IInv, TasksKept, UNCHANGED <<seg, hand, why, win, ipPc, timer>>
  PROVE  IInv'
<1>1. UNCHANGED <<state, owner, flags, pkt, made, live, ticking, job, refs, life, running,
                  tickIp, stopPc, entered, stops, up, written>>
  BY Zenon DEF seg, timer, TasksKept
<1>2. \A t \in Tasks : /\ pc(t)' = pc(t) /\ (Busy(t)' <=> Busy(t))
                       /\ (Last(t)' <=> Last(t)) /\ job'[t].len = job[t].len
  BY Zenon, <1>1, SamePlaces
<1>3. Typed' /\ Owned'
  BY Zenon, <1>1, <1>2 DEF IInv, Typed, Owned
<1>4. Closing'
  BY Zenon, <1>1, <1>2 DEF IInv, Closing, Bare
<1>5. Stopping'
  BY Zenon, <1>1, <1>2 DEF IInv, Stopping
<1> QED
  BY Zenon, <1>3, <1>4, <1>5 DEF IInv

LEMMA PassTakeStep ==
  ASSUME IInv, PassTake
  PROVE  IInv'
<1>0. /\ ipPc = "call" /\ TasksKept /\ UNCHANGED <<hand, why, win>> /\ win \in Nat
      /\ (~made => ~ticking)
  BY Zenon DEF PassTake, TasksKept, sock, nx, lib, bytes, IInv, Typed, Stopping
<1>a. up /\ ~(entered = "ok" /\ stopPc \in {"handler", "list", "free", "leave"})
  BY Zenon, <1>0, InPass
<1>b. "settle" \in IpPlaces \ IpOwning /\ "wait" \in IpPlaces \ IpOwning /\ "call" \notin IpOwning
  BY Zenon DEF IpPlaces, IpOwning
<1>1. CASE ~running \/ "LINKED" \notin flags
  <2>1. /\ UNCHANGED <<state, owner, flags, pkt, made, live, ticking>>
        /\ ipPc' = "settle" \/ ipPc' = "wait"
    BY Zenon, <1>1 DEF PassTake, seg, timer
  <2>2. ~made => ~ticking'
    BY Zenon, <1>0, <2>1
  <2> QED
    BY Zenon, <1>0, <1>a, <1>b, <2>1, <2>2, PassMoves
<1>2. CASE /\ running /\ "LINKED" \in flags /\ state = "IDLE" /\ pkt # <<>>
           /\ "STALLED" \notin flags \/ "TICK" \in flags
  <2>1. /\ state' = "FLUSH" /\ owner' = IP /\ ipPc' = "detach" /\ pkt' = pkt
        /\ UNCHANGED <<made, live, ticking>>
    BY Zenon, <1>2 DEF PassTake, timer
  <2>2. \A t \in Tasks : /\ pc(t)' = pc(t) /\ (Busy(t)' <=> Busy(t))
                         /\ (Last(t)' <=> Last(t))
    BY Zenon, <1>0, SamePlaces DEF TasksKept
  <2>3. Typed'
    BY Zenon, <1>0, <2>1 DEF IInv, Typed, TasksKept, IpPlaces
  <2>4. Owned'
    <3>1. owner = None /\ \A a \in Actors : hand[a] = <<>>
      BY Zenon, <1>2, CorkAssumption DEF IInv, Owned, Actors
    <3>2. \A t \in Tasks : pc(t) \notin Owning /\ pc(t) # "copy"
      BY Zenon, <1>2, <3>1, Distinct DEF IInv, Owned
    <3>3. IP # None /\ IP \in Actors /\ "detach" \in IpOwning
      BY Zenon, CorkAssumption DEF Actors, IpOwning
    <3> QED
      BY Zenon, <1>0, <2>1, <2>2, <3>1, <3>2, <3>3, Distinct DEF Owned
  <2>5. ~Bare
    BY Zenon, <1>2 DEF Bare
  <2>6. Closing'
    BY Zenon, <1>0, <2>1, <2>2, <2>5 DEF IInv, Closing, TasksKept
  <2>7. Stopping'
    BY Zenon, <1>0, <1>a, <2>1, <2>2 DEF IInv, Stopping, TasksKept
  <2> QED
    BY Zenon, <2>3, <2>4, <2>6, <2>7 DEF IInv
<1>3. CASE /\ running /\ "LINKED" \in flags
           /\ ~(state = "IDLE" /\ pkt # <<>> /\ ("STALLED" \notin flags \/ "TICK" \in flags))
  <2>1. ipPc' = "settle" /\ UNCHANGED <<state, owner, pkt>>
    BY Zenon, <1>3 DEF PassTake
  <2>2. CASE Corked
    <3>1. PICK f : flags \subseteq f /\ Link(f)
      BY Zenon, <1>3, <2>2 DEF PassTake
    <3>2. "LINKED" \in flags' /\ made' = made /\ (~made' => ~ticking')
      BY Zenon, <1>0, <3>1, Links
    <3>3. ~made => ~ticking'
      BY Zenon, <3>2
    <3> QED
      BY Zenon, <1>0, <1>3, <1>a, <1>b, <2>1, <3>2, <3>3, PassMoves
  <2>3. CASE ~Corked
    <3>1. pkt = <<>> /\ "LINKED" \notin flags' /\ UNCHANGED <<made, live, ticking>>
      BY Zenon, <1>3, <2>3 DEF PassTake, Corked, timer
    <3>2. ~made => ~ticking'
      BY Zenon, <1>0, <3>1
    <3> QED
      BY Zenon, <1>0, <1>3, <1>a, <1>b, <2>1, <3>1, <3>2, PassMoves
  <2> QED
    BY Zenon, <2>2, <2>3
<1> QED
  BY Zenon, <1>1, <1>2, <1>3

(* The IP thread as the owner, before it gives the segment back.           *)
LEMMA IpWorks ==
  ASSUME IInv, TasksKept, ipPc \in {"detach", "send"}, ipPc' \in {"send", "give"},
         NEW s \in Segment, hand' = [hand EXCEPT ![IP] = s], pkt' = <<>>,
         why' \in [Actors -> SUBSET Waits], win' \in Nat,
         UNCHANGED <<state, owner, flags, made, live, ticking>>
  PROVE  IInv'
<1>1. owner = IP /\ state = "FLUSH" /\ IP \in Actors /\ IP # None /\ ipPc' \in IpOwning
      /\ ipPc' # "detach" /\ ipPc' \in IpPlaces
  BY Zenon, CorkAssumption DEF IInv, Owned, IpOwning, Actors, IpPlaces
<1>2. \A t \in Tasks : /\ pc(t)' = pc(t) /\ (Busy(t)' <=> Busy(t))
                       /\ (Last(t)' <=> Last(t))
  BY Zenon, SamePlaces DEF TasksKept
<1>3. Typed'
  BY Zenon, <1>1, NoBytes DEF IInv, Typed, TasksKept
<1>4. Owned'
  <2>1. \A t \in Tasks : pc(t) \notin Owning /\ pc(t) # "copy" /\ t # IP
    BY Zenon, <1>1, Distinct DEF IInv, Owned
  <2>2. \A a \in Actors : a # IP => hand'[a] = <<>>
    BY Zenon, <1>1 DEF IInv, Owned, Typed
  <2> QED
    BY Zenon, <1>1, <1>2, <2>1, <2>2 DEF Owned
<1>5. ~Bare /\ state' = "FLUSH" /\ ipPc # "wait"
  BY Zenon, <1>1 DEF Bare
<1>6. Closing'
  BY Zenon, <1>2, <1>5 DEF IInv, Closing, TasksKept
<1>7. Stopping'
  BY Zenon, <1>2, <1>5, InPass DEF IInv, Stopping, TasksKept
<1> QED
  BY Zenon, <1>3, <1>4, <1>6, <1>7 DEF IInv

LEMMA PassSendStep ==
  ASSUME IInv, PassDetach \/ PassSend
  PROVE  IInv'
<1>1. CASE PassDetach
  <2>1. /\ TasksKept /\ ipPc = "detach" /\ ipPc' = "send" /\ pkt \in Segment
        /\ hand' = [hand EXCEPT ![IP] = pkt] /\ pkt' = <<>> /\ UNCHANGED <<why, win>>
        /\ UNCHANGED <<state, owner, flags, made, live, ticking>>
    BY Zenon, <1>1 DEF PassDetach, TasksKept, sock, nx, lib, bytes, timer, IInv, Typed
  <2>2. why' \in [Actors -> SUBSET Waits] /\ win' \in Nat
    BY Zenon, <2>1 DEF IInv, Typed
  <2> QED
    BY Zenon, <2>1, <2>2, IpWorks
<1>2. CASE PassSend
  <2>1. PICK o \in Settle(hand[IP]) : Sent(IP, hand[IP], o)
    BY Zenon, <1>2 DEF PassSend
  <2>2. IP \in Actors /\ hand[IP] \in Segment /\ Typed
    BY Zenon DEF IInv, Typed, Actors
  <2>3. Sends(hand[IP], o)
    BY Zenon, <2>2, Settled
  <2>4. /\ hand' = [hand EXCEPT ![IP] = o.left] /\ why' = [why EXCEPT ![IP] = o.why]
        /\ win' = win - o.sent
    BY Zenon, <2>1 DEF Sent
  <2>5. win' \in Nat
    BY <2>2, <2>3, <2>4 DEF Sends, Typed
  <2>6. o.left \in Segment /\ why' \in [Actors -> SUBSET Waits]
    BY Zenon, <2>2, <2>3, <2>4 DEF Sends, Typed
  <2>7. /\ TasksKept /\ ipPc = "send" /\ ipPc' = "give"
        /\ UNCHANGED <<state, owner, flags, pkt, made, live, ticking>>
    BY Zenon, <1>2 DEF PassSend, TasksKept, seg, lib, timer
  <2>8. pkt' = <<>>
    BY Zenon, <2>7, CorkAssumption DEF IInv, Owned, IpOwning
  <2> QED
    BY Zenon, <2>4, <2>5, <2>6, <2>7, <2>8, IpWorks
<1> QED
  BY Zenon, <1>1, <1>2

LEMMA PassGiveStep ==
  ASSUME IInv, PassGive
  PROVE  IInv'
<1>1. ipPc = "give" /\ ipPc' \in {"fin", "settle"} /\ TasksKept /\ win' = win
  BY Zenon DEF PassGive, TasksKept, sock, nx, lib, bytes
<1>2. owner = IP /\ state = "FLUSH" /\ IP \in Actors /\ IP # None /\ ipPc' \notin IpOwning
      /\ ipPc' # "detach" /\ ipPc' \in IpPlaces
  BY Zenon, <1>1, CorkAssumption DEF IInv, Owned, IpOwning, Actors, IpPlaces
<1>3. /\ state' = "IDLE" /\ owner' = None /\ pkt' \in Segment
      /\ hand' \in [Actors -> Segment] /\ \A x \in Actors : hand'[x] = <<>>
      /\ why' \in [Actors -> SUBSET Waits]
      /\ pkt' # <<>> => "LINKED" \in flags'
      /\ made' = made /\ (~made' => ~ticking')
  BY Zenon, <1>2, Unclaims DEF PassGive
<1>4. \A t \in Tasks : /\ pc(t)' = pc(t) /\ (Busy(t)' <=> Busy(t))
                       /\ (Last(t)' <=> Last(t))
  BY Zenon, <1>1, SamePlaces DEF TasksKept
<1>5. Typed'
  BY Zenon, <1>1, <1>2, <1>3 DEF IInv, Typed, TasksKept
<1>6. Owned'
  <2>1. \A t \in Tasks : pc(t) \notin Owning /\ pc(t) # "copy" /\ t # IP /\ t # None
    BY Zenon, <1>2, Distinct DEF IInv, Owned
  <2> QED
    BY Zenon, <1>2, <1>3, <1>4, <2>1 DEF Owned
<1>7. ~Bare /\ ipPc # "wait"
  BY Zenon, <1>1, <1>2 DEF Bare
<1>8. Closing'
  BY Zenon, <1>1, <1>3, <1>4, <1>7 DEF IInv, Closing, TasksKept
<1>9. Stopping'
  BY Zenon, <1>1, <1>3, <1>4, <1>7, InPass DEF IInv, Stopping, TasksKept
<1> QED
  BY Zenon, <1>5, <1>6, <1>8, <1>9 DEF IInv

Waking ==
  \/ IpWake \/ PassFin \/ PassSettle \/ Reset
  \/ \E w \in Windows : WindowOpens(w)

LEMMA WakingStep ==
  ASSUME IInv, Waking
  PROVE  IInv'
<1> USE DEF seg, sock, nx, ip, lib, timer, bytes
<1>1. win \in Nat /\ (~made => ~ticking)
  BY Zenon DEF IInv, Typed, Stopping
<1>2. {"wait", "call", "settle", "fin"} \subseteq IpPlaces \ IpOwning
  BY Zenon DEF IpPlaces, IpOwning
<1>3. CASE IpWake
  <2>1. /\ TasksKept /\ UNCHANGED <<state, owner, flags, pkt, hand, why, made, live, ticking, win>>
        /\ ipPc = "wait" /\ ipPc' \in {"wait", "call"} /\ up
        /\ ~(entered = "ok" /\ stopPc \in {"handler", "list", "free", "leave"})
    BY Zenon, <1>3 DEF IpWake, MutexFree, TasksKept
  <2>2. ~made => ~ticking'
    BY Zenon, <1>1, <2>1
  <2> QED
    BY Zenon, <1>1, <1>2, <2>1, <2>2, PassMoves
<1>4. CASE PassFin
  <2>1. /\ TasksKept /\ UNCHANGED <<state, owner, flags, pkt, hand, why, made, live, ticking, win>>
        /\ ipPc = "fin" /\ ipPc' = "settle"
    BY Zenon, <1>4 DEF PassFin, SendFin, TasksKept
  <2>2. ~made => ~ticking'
    BY Zenon, <1>1, <2>1
  <2>3. up /\ ~(entered = "ok" /\ stopPc \in {"handler", "list", "free", "leave"})
    BY Zenon, <2>1, InPass
  <2> QED
    BY Zenon, <1>1, <1>2, <2>1, <2>2, <2>3, PassMoves
<1>5. CASE PassSettle
  <2>1. /\ TasksKept /\ UNCHANGED <<state, owner, flags, pkt, hand, why, win, made>>
        /\ ipPc = "settle" /\ ipPc' = "wait"
    BY Zenon, <1>5 DEF PassSettle, TasksKept
  <2>2. ~ticking' \/ UNCHANGED <<made, live, ticking>>
    BY Zenon, <1>5 DEF PassSettle
  <2>3. ~made => ~ticking'
    BY Zenon, <1>1, <2>2
  <2> QED
    BY Zenon, <1>1, <1>2, <2>1, <2>3, PassMoves
<1>6. CASE Reset
  <2>1. /\ TasksKept /\ UNCHANGED <<state, owner, pkt, hand, why, made, live, ticking, win>>
        /\ ipPc = "wait" /\ ipPc' = ipPc
    BY Zenon, <1>6 DEF Reset, MutexFree, TasksKept
  <2>2. "LINKED" \in flags' <=> "LINKED" \in flags
    <3>1. flags' = flags \/ flags' = flags \ {"STALLED"} \/ flags' = flags \cup {"KICK"}
      BY Zenon, <1>6 DEF Reset
    <3> QED
      BY Zenon, <3>1
  <2>3. ~made => ~ticking'
    BY Zenon, <1>1, <2>1
  <2> QED
    BY Zenon, <1>1, <1>2, <2>1, <2>2, <2>3, PassMoves
<1>7. ASSUME NEW w \in Windows, WindowOpens(w) PROVE IInv'
  <2>1. /\ TasksKept /\ UNCHANGED <<state, owner, pkt, hand, why, made, live, ticking>>
        /\ ipPc = "wait" /\ ipPc' = ipPc /\ win' = w /\ w \in Nat
    BY Zenon, <1>7, CorkAssumption DEF WindowOpens, MutexFree, TasksKept
  <2>2. "LINKED" \in flags' <=> "LINKED" \in flags
    <3>1. flags' = flags \/ flags' = flags \ {"STALLED"} \/ flags' = flags \cup {"KICK"}
      BY Zenon, <1>7 DEF WindowOpens, WindowNotify
    <3> QED
      BY Zenon, <3>1
  <2>3. ~made => ~ticking'
    BY Zenon, <1>1, <2>1
  <2> QED
    BY Zenon, <1>1, <1>2, <2>1, <2>2, <2>3, PassMoves
<1> QED
  BY Zenon, <1>3, <1>4, <1>5, <1>6, <1>7 DEF Waking

LEMMA TickStep ==
  ASSUME IInv, Tick
  PROVE  IInv'
BY Zenon, NothingMoves DEF Tick, TasksKept, seg, sock, nx, lib, timer, bytes

----------------------------------------------------------------------------
(* The start and the stop.                                                 *)

(* Neither moves a Task, the IP thread or the owner.                       *)
LEMMA StopKeeps ==
  ASSUME IInv, UNCHANGED <<state, owner, hand, why, job, refs, win, written, ipPc>>,
         stops' \in Nat, stopPc' \in StopPlaces, life' \in {"open", "parked", "freed"},
         pkt' = pkt \/ (pkt' = <<>> /\ state = "IDLE")
  PROVE  /\ Typed' /\ Owned'
         /\ \A t \in Tasks : /\ pc(t)' = pc(t) /\ (Busy(t)' <=> Busy(t))
                             /\ (Last(t)' <=> Last(t))
<1>1. \A t \in Tasks : /\ pc(t)' = pc(t) /\ (Busy(t)' <=> Busy(t))
                       /\ (Last(t)' <=> Last(t)) /\ job'[t].len = job[t].len
  BY Zenon, SamePlaces
<1>2. Typed'
  BY Zenon, NoBytes DEF IInv, Typed
<1>3. CASE pkt' = pkt
  BY Zenon, <1>1, <1>2, <1>3 DEF IInv, Owned
<1>4. CASE pkt' = <<>> /\ state = "IDLE"
  <2>1. \A t \in Tasks : pc(t) # "copy"
    BY Zenon, <1>4 DEF IInv, Owned
  <2> QED
    BY Zenon, <1>1, <1>2, <1>4, <2>1 DEF IInv, Owned
<1> QED
  BY Zenon, <1>3, <1>4

(* With the list and the socket left alone, what is known of the closes    *)
(* stays.                                                                  *)
LEMMA StopCloses ==
  ASSUME IInv, UNCHANGED <<state, job, refs, life, ipPc, pkt, flags>>,
         stopPc # "free"
  PROVE  Closing'
<1>1. \A t \in Tasks : /\ pc(t)' = pc(t) /\ (Busy(t)' <=> Busy(t))
                       /\ (Last(t)' <=> Last(t))
  BY Zenon, SamePlaces
<1> QED
  BY Zenon, <1>1 DEF IInv, Closing, Bare

LEMMA StartStep ==
  ASSUME IInv, Start
  PROVE  IInv'
<1>1. UNCHANGED <<state, owner, flags, pkt, hand, why, job, refs, life, win, written, ipPc,
                  stops, stopPc, up>> /\ stopPc = "none" /\ up /\ made'
  BY Zenon DEF Start, seg, sock, nx, ip, bytes
<1>2. Typed' /\ Owned'
  BY Zenon, <1>1, StopKeeps DEF IInv, Typed
<1>3. Closing'
  BY Zenon, <1>1, StopCloses
<1> QED
  BY Zenon, <1>1, <1>2, <1>3, StaysUp DEF IInv

LEMMA StopStarts ==
  ASSUME IInv, NEW e \in {"ok", "refused"}, Stop(e)
  PROVE  IInv'
<1>1. /\ UNCHANGED <<state, owner, flags, pkt, hand, why, job, refs, life, win, written, ipPc,
                     up, running, made, live, ticking>>
      /\ stopPc = "none" /\ up /\ refs = {} /\ ~tickIp' /\ stops' = stops + 1
      /\ stopPc' \in {"timer", "mutex"} /\ (stopPc' = "mutex" => ~made)
      /\ \A t \in Tasks : ~Busy(t)
  BY Zenon DEF Stop, seg, sock, nx, ip, bytes, timer, Busy
<1>2. stops' \in Nat
  BY <1>1 DEF IInv, Typed
<1>3. /\ Typed' /\ Owned' /\ \A t \in Tasks : Busy(t)' <=> Busy(t)
  BY Zenon, <1>1, <1>2, StopKeeps DEF IInv, Typed, StopPlaces
<1>4. Closing'
  BY Zenon, <1>1, StopCloses
<1>5. Stopping'
  BY Zenon, <1>1, <1>3 DEF IInv, Stopping
<1> QED
  BY Zenon, <1>3, <1>4, <1>5 DEF IInv

(* With every Task out of its calls and the IP thread waiting, nobody has  *)
(* the segment.                                                            *)
LEMMA QuietIdle ==
  ASSUME IInv, \A t \in Tasks : ~Busy(t), ipPc = "wait"
  PROVE  state = "IDLE"
<1>1. ipPc \notin IpOwning /\ \A t \in Tasks : pc(t) \notin Owning /\ pc(t) # "copy"
  BY Zenon DEF IpOwning, Owning, Busy
<1>2. owner = None
  BY Zenon, <1>1 DEF IInv, Owned, Actors
<1> QED
  BY Zenon, <1>1, <1>2 DEF IInv, Owned, Typed

LEMMA StopStepKeeps ==
  ASSUME IInv, StopStep
  PROVE  IInv'
<1> USE DEF seg
<1>1. /\ UNCHANGED <<state, owner, hand, why, job, refs, win, written, ipPc, stops, entered>>
      /\ stopPc' \in StopPlaces /\ stopPc # "none" /\ stops \in Nat
      /\ UNCHANGED <<tickIp>>
  BY Zenon DEF StopStep, StopTimer, StopHandler, StopList, StopLeave, Stopped, ip, StopPlaces,
     IInv, Typed
<1>2. refs = {} /\ ~tickIp /\ (\A t \in Tasks : ~Busy(t)) /\ up
  BY Zenon, <1>1 DEF IInv, Stopping
<1>3. ASSUME UNCHANGED <<life, pkt>> PROVE
        Typed' /\ Owned' /\ \A t \in Tasks : /\ pc(t)' = pc(t) /\ (Busy(t)' <=> Busy(t))
                                             /\ (Last(t)' <=> Last(t))
  BY Zenon, <1>1, <1>3, StopKeeps DEF IInv, Typed
<1>4. CASE StopTimer
  <2>1. UNCHANGED <<flags, pkt, life, running, up>>
        /\ stopPc \in {"timer", "flag", "delete"} /\ stopPc' \in {"flag", "delete", "mutex"}
    BY Zenon, <1>4 DEF StopTimer, Stopped
  <2>2. (~made' => ~ticking') /\ (stopPc' = "mutex" => ~made')
    <3>1. CASE Stopped("timer", "flag") /\ ticking' = FALSE /\ UNCHANGED <<made, live>>
      BY Zenon, <3>1 DEF Stopped
    <3>2. CASE Stopped("flag", "delete") /\ live' = FALSE /\ UNCHANGED <<made, ticking>>
      BY Zenon, <3>2 DEF Stopped, IInv, Stopping
    <3>3. CASE Stopped("delete", "mutex") /\ made' = FALSE /\ ticking' = FALSE /\ live' = live
      BY Zenon, <3>3
    <3> QED
      BY Zenon, <1>4, <3>1, <3>2, <3>3 DEF StopTimer
  <2>3. Closing'
    BY Zenon, <1>1, <2>1, StopCloses
  <2>4. Stopping'
    BY Zenon, <1>1, <1>2, <1>3, <2>1, <2>2 DEF Stopping
  <2> QED
    BY Zenon, <1>3, <2>1, <2>3, <2>4 DEF IInv
<1>5. CASE StopHandler
  <2>1. UNCHANGED <<flags, pkt, life, up, made, live, ticking>>
        /\ \/ /\ stopPc = "mutex" /\ stopPc' = "handler" /\ running' = running
              /\ entered = "ok" => ipPc = "wait"
           \/ stopPc = "handler" /\ stopPc' = "list" /\ ~running'
    BY Zenon, <1>5 DEF StopHandler, Stopped, timer
  <2>2. ~made' /\ ~ticking'
    <3>1. ~made /\ ~ticking
      BY Zenon, <2>1 DEF IInv, Stopping
    <3> QED
      BY Zenon, <2>1, <3>1
  <2>3. Closing'
    BY Zenon, <1>1, <2>1, StopCloses
  <2>4. entered = "ok" => ipPc = "wait"
    BY Zenon, <2>1 DEF IInv, Stopping
  <2>5. Stopping'
    BY Zenon, <1>1, <1>2, <1>3, <2>1, <2>2, <2>4 DEF Stopping
  <2> QED
    BY Zenon, <1>3, <2>1, <2>3, <2>5 DEF IInv
<1>6. CASE StopList
  <2>1. UNCHANGED <<life, up, made, live, ticking, running>>
    BY Zenon, <1>6 DEF StopList, timer
  <2>2. \/ /\ stopPc = "list" /\ stopPc' = (IF "LINKED" \in flags THEN "free" ELSE "leave")
           /\ flags' = flags \ {"LINKED"} /\ pkt' = pkt
        \/ /\ stopPc = "free" /\ stopPc' = "leave" /\ state = "IDLE"
           /\ flags' = flags \ {"STALLED", "TICK", "FIN", "KICK"} /\ pkt' = <<>>
        \/ /\ stopPc = "free" /\ stopPc' = "leave" /\ state # "IDLE"
           /\ UNCHANGED <<flags, pkt>>
    BY Zenon, <1>6 DEF StopList, Stopped
  <2>3. /\ Typed' /\ Owned' /\ \A t \in Tasks : /\ pc(t)' = pc(t) /\ (Busy(t)' <=> Busy(t))
                                                /\ (Last(t)' <=> Last(t))
    BY Zenon, <1>1, <2>1, <2>2, StopKeeps DEF IInv, Typed
  <2>4. ~running /\ ~made /\ ~ticking /\ (entered = "ok" => ipPc = "wait")
    BY Zenon, <2>2 DEF IInv, Stopping
  <2>5. ~running' /\ ~made' /\ ~ticking'
    BY Zenon, <2>1, <2>4
  <2>6. "LINKED" \in flags' => "LINKED" \in flags
    BY Zenon, <2>2
  <2>7. Bare => Bare'
    BY Zenon, <1>1, <2>2 DEF Bare
  <2>8. state # "FLUSH" => state = "IDLE"
    <3>1. \A t \in Tasks : pc(t) # "copy"
      BY Zenon, <1>2 DEF Busy
    <3> QED
      BY Zenon, <3>1 DEF IInv, Owned, Typed
  <2>9. pkt' # <<>> /\ state' # "FLUSH" => "LINKED" \in flags' \/ stopPc' = "free"
    BY Zenon, <1>1, <2>2, <2>8 DEF IInv, Closing
  <2>10. Closing'
    BY Zenon, <1>1, <1>2, <2>1, <2>3, <2>7, <2>9 DEF IInv, Closing
  <2>11. entered = "ok" /\ stopPc' \in {"free", "leave"} => "LINKED" \notin flags'
    BY Zenon, <2>2 DEF IInv, Stopping
  <2>12. entered = "ok" /\ stopPc' = "leave" => pkt' = <<>>
    <3>1. entered = "ok" => state = "IDLE"
      BY Zenon, <1>2, <2>4, QuietIdle
    <3>2. stopPc = "list" /\ "LINKED" \notin flags /\ entered = "ok" => pkt = <<>>
      BY Zenon, <3>1 DEF IInv, Closing
    <3> QED
      BY Zenon, <2>2, <3>1, <3>2
  <2>13. Stopping'
    BY Zenon, <1>1, <1>2, <2>1, <2>3, <2>4, <2>5, <2>11, <2>12 DEF Stopping
  <2> QED
    BY Zenon, <2>3, <2>10, <2>13 DEF IInv
<1>7. CASE StopLeave
  <2>1. /\ UNCHANGED <<flags, pkt, running, made, live, ticking>>
        /\ stopPc = "leave" /\ stopPc' = "none"
        /\ IF entered = "ok" THEN ~up' /\ life' = "freed" ELSE UNCHANGED <<up, life>>
    BY Zenon, <1>7 DEF StopLeave, Stopped, timer
  <2>2. ~running /\ ~made /\ ~ticking /\ (entered = "ok" => ipPc = "wait")
        /\ (entered = "ok" => "LINKED" \notin flags /\ pkt = <<>>)
    BY Zenon, <2>1 DEF IInv, Stopping
  <2>3. life' \in {"open", "parked", "freed"}
    BY Zenon, <2>1 DEF IInv, Typed
  <2>4. /\ Typed' /\ Owned' /\ \A t \in Tasks : /\ pc(t)' = pc(t) /\ (Busy(t)' <=> Busy(t))
                                                /\ (Last(t)' <=> Last(t))
    BY Zenon, <1>1, <2>1, <2>3, StopKeeps
  <2>5. ~running' /\ ~made' /\ ~ticking' /\ ~tickIp'
    BY Zenon, <1>1, <1>2, <2>1, <2>2
  <2>6. CASE entered = "ok"
    <3>1. state = "IDLE"
      BY Zenon, <1>2, <2>2, <2>6, QuietIdle
    <3>2. Bare' /\ life' = "freed" /\ ipPc' = "wait" /\ refs' = {}
      BY Zenon, <1>1, <1>2, <2>1, <2>2, <2>6, <3>1 DEF Bare
    <3>3. Closing'
      BY Zenon, <1>2, <2>4, <3>2 DEF Closing, Bare
    <3>4. Stopping'
      BY Zenon, <2>1, <2>5, <3>2 DEF Stopping
    <3> QED
      BY Zenon, <2>4, <3>3, <3>4 DEF IInv
  <2>7. CASE entered # "ok"
    <3>1. UNCHANGED <<up, life>>
      BY Zenon, <2>1, <2>7
    <3>2. Closing'
      BY Zenon, <1>1, <2>1, <3>1, StopCloses
    <3>3. Stopping'
      <4>1. up'
        BY Zenon, <1>2, <3>1
      <4> QED
        BY Zenon, <2>1, <2>5, <4>1, StaysUp
    <3> QED
      BY Zenon, <2>4, <3>2, <3>3 DEF IInv
  <2> QED
    BY Zenon, <2>6, <2>7
<1> QED
  BY Zenon, <1>4, <1>5, <1>6, <1>7 DEF StopStep

----------------------------------------------------------------------------
(* The invariant, and what it says.                                        *)

LEMMA NextStep ==
  ASSUME IInv, [Next]_vars
  PROVE  IInv'
<1>1. ASSUME NEW t \in Tasks, Calls(t) PROVE IInv'
  <2>1. CASE Moving(t)
    BY Zenon, <2>1, MovingStep
  <2>2. ASSUME NEW n \in 1..Cap, FastTake(t, n) PROVE IInv'
    BY Zenon, <2>2, FastTakeStep
  <2>3. ASSUME NEW how \in {"close", "linger", "abort"}, Close(t, how) PROVE IInv'
    BY Zenon, <2>3, CloseStep
  <2>4. CASE Sweep(t)
    BY Zenon, <2>4, SweepStep
  <2> QED
    BY Zenon, <1>1, <2>1, <2>2, <2>3, <2>4 DEF Calls, Moving
<1>2. ASSUME NEW t \in Tasks, GiveUp(t) \/ Steps(t) PROVE IInv'
  <2>1. CASE Moving(t)
    BY Zenon, <2>1, MovingStep
  <2>2. CASE Worked(t)
    BY Zenon, <2>2, WorkGives, GivesStep DEF IInv
  <2>3. CASE FastDone(t) \/ FastKick(t) \/ Claim(t) \/ Give(t) \/ DropSegment(t) \/ Destroy(t)
    BY Zenon, <2>3, FastDoneStep, FastKickStep, ClaimStep, GiveStep, DropStep, DestroyStep
  <2> QED
    BY Zenon, <1>2, <2>1, <2>2, <2>3 DEF Steps, Moving, Worked
<1>3. CASE Pass \/ Tick \/ Reset \/ \E w \in Windows : WindowOpens(w)
  BY Zenon, <1>3, PassTakeStep, PassSendStep, PassGiveStep, WakingStep, TickStep DEF Pass, Waking
<1>4. CASE Start \/ (\E e \in {"ok", "refused"} : Stop(e)) \/ StopStep
  BY Zenon, <1>4, StartStep, StopStarts, StopStepKeeps
<1>5. CASE UNCHANGED vars
  <2>1. TasksKept /\ UNCHANGED <<seg, hand, why, win, ipPc, timer>>
    BY Zenon, <1>5 DEF vars, TasksKept, sock, nx, ip, lib, bytes
  <2> QED
    BY Zenon, <2>1, NothingMoves
<1> QED
  BY Zenon, <1>1, <1>2, <1>3, <1>4, <1>5 DEF Next

LEMMA InitInv ==
  ASSUME Init
  PROVE  IInv
<1>1. job \in [Tasks -> Jobs] /\ \A t \in Tasks : job[t] = Idle
  BY Zenon, IsIdle DEF Init
<1>2. \A t \in Tasks : pc(t) = "idle" /\ ~Busy(t) /\ ~Last(t)
  BY Zenon, <1>1, IsIdle DEF pc, Busy, Last
<1>3. Typed
  <2>1. win \in Nat /\ stops \in Nat /\ written \in [Tasks -> Nat]
    BY DEF Init
  <2>2. hand \in [Actors -> Segment] /\ why \in [Actors -> SUBSET Waits] /\ pkt \in Segment
    BY Zenon, NoBytes DEF Init
  <2> QED
    BY Zenon, <1>1, <2>1, <2>2 DEF Init, Typed, IpPlaces, StopPlaces
<1>4. Owned
  BY Zenon, <1>2, Distinct, CorkAssumption DEF Init, Owned, Owning, IpOwning
<1>5. Closing
  BY Zenon, <1>2 DEF Init, Closing
<1>6. Stopping
  BY Zenon, <1>2 DEF Init, Stopping
<1> QED
  BY Zenon, <1>3, <1>4, <1>5, <1>6 DEF IInv

(* The inductive invariant holds.                                          *)
THEOREM Invariance == Spec => []IInv
<1>1. Init => IInv
  BY Zenon, InitInv
<1>2. IInv /\ [Next]_vars => IInv'
  BY Zenon, NextStep
<1> QED
  BY <1>1, <1>2, PTL DEF Spec

(* What Cardinality makes of no Task and of one.                           *)
LEMMA CountNone == Cardinality({}) = 0
<1> DEFINE F(T, CS) == IF T = {} THEN 0 ELSE 1 + CS[T \ {CHOOSE x : x \in T}]
<1> DEFINE CS == CHOOSE g : g = [T \in SUBSET {} |-> F(T, g)]
<1>1. Cardinality({}) = CS[{}]
  BY Zenon DEF Cardinality
<1>2. \E g : g = [T \in SUBSET {} |-> F(T, g)]
  <2> DEFINE g == [T \in SUBSET {} |-> 0]
  <2>1. \A T \in SUBSET {} : F(T, g) = 0
    BY Zenon
  <2>2. g = [T \in SUBSET {} |-> F(T, g)]
    BY Zenon, <2>1
  <2> QED
    BY Zenon, <2>2
<1>3. CS = [T \in SUBSET {} |-> F(T, CS)]
  BY Zenon, <1>2
<1> QED
  BY Zenon, <1>1, <1>3

LEMMA CountOne == ASSUME NEW a PROVE Cardinality({a}) = 1
<1> DEFINE F(T, CS) == IF T = {} THEN 0 ELSE 1 + CS[T \ {CHOOSE x : x \in T}]
<1> DEFINE CS == CHOOSE g : g = [T \in SUBSET {a} |-> F(T, g)]
<1>1. Cardinality({a}) = CS[{a}]
  BY Zenon DEF Cardinality
<1>7. \A T \in SUBSET {a} : T = {} \/ (T = {a} /\ T \ {CHOOSE x : x \in T} = {})
  <2> SUFFICES ASSUME NEW T \in SUBSET {a}, T # {} PROVE T = {a} /\ T \ {CHOOSE x : x \in T} = {}
    BY Zenon
  <2>1. T = {a}
    BY Zenon
  <2>2. (CHOOSE x : x \in T) = a
    BY Zenon, <2>1
  <2> QED
    BY Zenon, <2>1, <2>2
<1>2. \E g : g = [T \in SUBSET {a} |-> F(T, g)]
  <2> DEFINE g == [T \in SUBSET {a} |-> IF T = {} THEN 0 ELSE 1]
  <2>3. g[{}] = 0
    BY Zenon
  <2>1. \A T \in SUBSET {a} : F(T, g) = IF T = {} THEN 0 ELSE 1
    <3> SUFFICES ASSUME NEW T \in SUBSET {a}, T # {} PROVE F(T, g) = 1
      BY Zenon
    <3>1. g[T \ {CHOOSE x : x \in T}] = 0
      BY Zenon, <1>7, <2>3
    <3> HIDE DEF g
    <3> QED
      BY <3>1
  <2>2. g = [T \in SUBSET {a} |-> F(T, g)]
    BY Zenon, <2>1
  <2> QED
    BY Zenon, <2>2
<1>3. CS = [T \in SUBSET {a} |-> F(T, CS)]
  BY Zenon, <1>2
<1>4. CS[{}] = 0
  BY Zenon, <1>3
<1>5. CS[{a}] = 1 + CS[{a} \ {CHOOSE x : x \in {a}}]
  BY Zenon, <1>3
<1>6. {a} \ {CHOOSE x : x \in {a}} = {}
  BY Zenon, <1>7
<1> HIDE DEF CS
<1> QED
  BY <1>1, <1>4, <1>5, <1>6

(* A segment has one owner: bsd_cork_claim(), the fast path and the IP     *)
(* pass never work on the same one, whatever the interleaving.             *)
THEOREM OneOwner == Spec => []SegmentOwned
<1>1. IInv => SegmentOwned
  <2> SUFFICES ASSUME IInv PROVE SegmentOwned
    BY Zenon
  <2>1. Cardinality({t \in Tasks : pc(t) = "copy"}) = (IF state = "APPEND" THEN 1 ELSE 0)
    <3>1. CASE state = "APPEND"
      <4>1. PICK t \in Tasks : pc(t) = "copy"
        BY Zenon, <3>1 DEF IInv, Owned
      <4>2. {u \in Tasks : pc(u) = "copy"} = {t}
        BY Zenon, <4>1 DEF IInv, Owned
      <4> QED
        BY <3>1, <4>2, CountOne
    <3>2. CASE state # "APPEND"
      <4>1. {u \in Tasks : pc(u) = "copy"} = {}
        BY Zenon, <3>2 DEF IInv, Owned
      <4> QED
        BY <3>2, <4>1, CountNone
    <3> QED
      BY Zenon, <3>1, <3>2
  <2>2. state = "APPEND" => pkt # <<>> /\ Len(pkt) < Cap
    <3> SUFFICES ASSUME state = "APPEND" PROVE pkt # <<>> /\ Len(pkt) < Cap
      BY Zenon
    <3>1. PICK t \in Tasks : pc(t) = "copy"
      BY Zenon DEF IInv, Owned
    <3>2. pkt # <<>> /\ Len(pkt) + job[t].len < Cap /\ job[t].len \in Nat /\ pkt \in Segment
      BY Zenon, <3>1 DEF IInv, Owned, Typed, Jobs
    <3>3. Len(pkt) \in Nat /\ Cap \in Nat
      BY Zenon, <3>2, Segments, CorkAssumption
    <3> QED
      BY <3>2, <3>3
  <2>3. \A a \in Actors : hand[a] # <<>> => owner = a /\ pkt = <<>>
    <3> SUFFICES ASSUME NEW a \in Actors, hand[a] # <<>> PROVE owner = a /\ pkt = <<>>
      BY Zenon
    <3>1. owner = a /\ a # None
      BY Zenon, CorkAssumption DEF IInv, Owned, Actors
    <3>2. ipPc # "detach"
      BY Zenon, <3>1 DEF IInv, Owned, IpOwning
    <3> QED
      BY Zenon, <3>1, <3>2 DEF IInv, Owned
  <2>4. (state = "FLUSH") = (owner # None)
    BY Zenon DEF IInv, Owned
  <2>5. \A t \in Tasks : (pc(t) \in {"work", "give"}) = (owner = t)
    <3>1. \A t \in Tasks : pc(t) \in {"work", "give"} <=> owner = t
      BY Zenon DEF IInv, Owned, Owning
    <3> QED
      BY <3>1
  <2>6. (ipPc \in {"detach", "send", "give"}) = (owner = IP)
    <3>1. ipPc \in {"detach", "send", "give"} <=> owner = IP
      BY Zenon DEF IInv, Owned, IpOwning
    <3> QED
      BY <3>1
  <2> QED
    BY Zenon, <2>1, <2>2, <2>3, <2>4, <2>5, <2>6 DEF SegmentOwned
<1> QED
  BY <1>1, Invariance, PTL

(* Nothing reaches a freed socket or a stack that was torn down: neither   *)
(* the armed list, nor a pass of the IP thread, nor the tick.              *)
THEOREM FreedOutOfReach == Spec => []OutOfReach
<1>1. IInv => OutOfReach
  <2> SUFFICES ASSUME IInv PROVE OutOfReach
    BY Zenon
  <2>1. ASSUME life = "freed"
        PROVE  pkt = <<>> /\ state = "IDLE" /\ "LINKED" \notin flags
                 /\ ipPc \notin {"detach", "send", "give", "fin"}
    <3>1. Bare /\ ipPc # "fin"
      BY Zenon, <2>1 DEF IInv, Closing
    <3>2. ipPc \notin IpOwning
      BY Zenon, <3>1, CorkAssumption DEF Bare, IInv, Owned
    <3> QED
      BY Zenon, <3>1, <3>2 DEF Bare, IpOwning
  <2>2. ~up => ipPc = "wait" /\ ~tickIp /\ ~running /\ ~ticking
    BY Zenon DEF IInv, Stopping
  <2> QED
    BY Zenon, <2>1, <2>2 DEF OutOfReach
<1> QED
  BY <1>1, Invariance, PTL

----------------------------------------------------------------------------
(* A pending segment is not stranded: as long as no break ends a write and *)
(* the library is not opened again after a stop.                           *)

Up == running /\ stopPc = "none"

(* Before the first start there is nothing; after a stop the cork stays    *)
(* off; in between the timer runs for whoever asks for it.                 *)
Ticking ==
  /\ stopPc # "none" => stops # 0
  /\ stops # 0 /\ stopPc = "none" => ~running
  /\ stops = 0 /\ ~running =>
       /\ Bare /\ ~live /\ ~ticking /\ life = "open" /\ ipPc = "wait"
       /\ \A t \in Tasks : ~Busy(t)
  /\ Up => /\ made /\ tickIp /\ (live <=> ticking)
           /\ "TICK" \in flags /\ "LINKED" \in flags => live

(* Something is coming for the segment.                                    *)
Cover ==
  /\ "LINKED" \in flags
  /\ event \/ ipPc = "call" \/ "TICK" \in flags \/ "STALLED" \in flags

(* What the attached segment waits on.                                     *)
Attached ==
  /\ state # "FLUSH" /\ pkt # <<>> /\ "STALLED" \in flags =>
       "TICK" \in flags \/ (win < Len(pkt) /\ life = "open")
  /\ state = "APPEND" => "STALLED" \notin flags
  /\ life = "parked" /\ pkt # <<>> /\ state # "FLUSH" => "TICK" \in flags
  /\ Up /\ pkt # <<>> /\ state # "FLUSH" => Cover

(* What a detached one will wait on: a window that opened meanwhile has    *)
(* left KICK, unless the socket was parked, and then the tick is asked for.*)
Detached ==
  /\ state = "FLUSH" => \A f \in {"LINKED", "STALLED", "TICK"} : f \notin flags
  /\ \A a \in Actors : owner # a => why[a] = {}
  /\ ipPc = "detach" => why[IP] = {}
  /\ \A a \in Actors :
       hand[a] # <<>> /\ "STALLED" \in why[a] /\ "KICK" \notin flags /\ life = "open" =>
         win < Len(hand[a])

(* A close parks the socket behind a remainder that asks for the tick, or  *)
(* with nothing pending.                                                   *)
Parking(t) ==
  /\ pc(t) = "give" /\ job[t].then = "park" => hand[t] # <<>> /\ "TICK" \in why[t]
  /\ pc(t) = "give" /\ job[t].then = "test" => hand[t] = <<>>
  /\ pc(t) = "test" \/ (pc(t) = "fin" /\ job[t].then = "test") =>
       pkt = <<>> /\ state = "IDLE"

Awaited == Ticking /\ Attached /\ Detached /\ \A t \in Tasks : Parking(t)

(* A Task's step leaves the other Tasks' closes alone: there are none.     *)
LEMMA ParkingKept ==
  ASSUME IInv, NEW t \in Tasks, Busy(t) \/ t \in refs, Others(t), Parking(t)'
  PROVE  \A u \in Tasks : Parking(u)'
<1> SUFFICES ASSUME NEW u \in Tasks, u # t PROVE Parking(u)'
  BY Zenon
<1>1. ~(Busy(u) /\ Last(u))
  BY Zenon DEF IInv, Closing
<1>2. job'[u] = job[u]
  BY Zenon DEF Others
<1> QED
  BY Zenon, <1>1, <1>2 DEF Parking, Busy, Last, pc

LEMMA StillSmall ==
  ASSUME win \in Nat, win' \in Nat, win' <= win, NEW s \in Segment, win < Len(s)
  PROVE  win' < Len(s)
BY Segments

(* The start and the stop apart, Ticking is about the list and the timer.  *)
LEMMA TickingKept ==
  ASSUME Ticking, UNCHANGED <<running, tickIp, stopPc, stops>>,
         running \/ stops # 0,
         Up => made' /\ (live' <=> ticking')
                 /\ ("TICK" \in flags' /\ "LINKED" \in flags' => live')
  PROVE  Ticking'
BY Zenon DEF Ticking, Up

(* A Task in a call, or a pass of the IP thread: the cork was started.     *)
LEMMA Started ==
  ASSUME Ticking,
         (\E t \in Tasks : Busy(t)) \/ ipPc # "wait" \/ ~Bare \/ life # "open"
  PROVE  running \/ stops # 0
BY Zenon DEF Ticking

LEMMA GivesAwaited ==
  ASSUME IInv, Awaited, ~Breaks, NEW t \in Tasks, NEW s, NEW w, NEW next, Gives(t, s, w, next)
  PROVE  Awaited'
<1>1. /\ job' \in [Tasks -> Jobs] /\ Others(t) /\ job'[t].pc = "give"
      /\ job'[t].op = job[t].op /\ job'[t].then = next /\ pc(t) = "work" /\ Busy(t)
  BY Zenon, Thens DEF IInv, Gives, Places, Busy
<1>2. UNCHANGED <<state, owner, pkt, refs, life, event, ipPc, running, tickIp,
                  stopPc, entered, stops, up, made, live, ticking>>
  BY Zenon DEF Gives, ip, lib, timer
<1>3. t \in Actors /\ t # IP /\ owner = t /\ state = "FLUSH" /\ t # None
  BY Zenon, <1>1, Distinct DEF IInv, Owned, Owning
<1>4. /\ hand'[t] = s /\ why'[t] = w /\ s \in Segment
      /\ \A a \in Actors : a # t => hand'[a] = hand[a] /\ why'[a] = why[a]
  BY Zenon, <1>3 DEF Gives, IInv, Typed
<1>5. \A f \in {"LINKED", "STALLED", "TICK"} : f \notin flags'
  BY Zenon, <1>3 DEF Awaited, Detached, Gives
<1>6. Ticking'
  <2>1. Up => made' /\ (live' <=> ticking')
                /\ ("TICK" \in flags' /\ "LINKED" \in flags' => live')
    BY <1>2, <1>5 DEF Awaited, Ticking
  <2> QED
    BY Zenon, <1>1, <1>2, <2>1, TickingKept, Started DEF Awaited
<1>7. Attached'
  BY Zenon, <1>2, <1>3 DEF Attached
<1>8. Detached'
  <2>1. ASSUME NEW a \in Actors, hand'[a] # <<>>, "STALLED" \in why'[a] PROVE win' < Len(hand'[a])
    <3>1. CASE a = t
      BY Zenon, <1>4, <2>1, <3>1 DEF Gives
    <3>2. CASE a # t
      BY Zenon, <1>3, <1>4, <2>1, <3>2 DEF IInv, Owned
    <3> QED
      BY Zenon, <3>1, <3>2
  <2>2. \A a \in Actors : owner' # a => why'[a] = {}
    BY Zenon, <1>2, <1>3, <1>4 DEF Awaited, Detached
  <2>3. ipPc' # "detach"
    BY Zenon, <1>2, <1>3 DEF IInv, Owned, IpOwning
  <2> QED
    BY Zenon, <1>5, <2>1, <2>2, <2>3 DEF Detached
<1>9. Parking(t)'
  BY Zenon, <1>1, <1>4 DEF Parking, Gives, pc
<1> QED
  BY Zenon, <1>1, <1>6, <1>7, <1>8, <1>9, ParkingKept DEF Awaited

LEMMA MovesAwaited ==
  ASSUME IInv, Awaited, NEW t \in Tasks, Moves(t), Busy(t) \/ running \/ stops # 0,
         life' = life \/ (pkt = <<>> /\ life' # "open"),
         \A u \in Tasks : Parking(u)'
  PROVE  Awaited'
<1>1. UNCHANGED <<state, owner, pkt, hand, why, event, ipPc, running, tickIp,
                  stopPc, entered, stops, up, made, live, ticking>>
  BY Zenon DEF Moves
<1>2. \A f \in {"LINKED", "STALLED", "TICK", "KICK"} : f \in flags' <=> f \in flags
  BY Zenon DEF Moves
<1>3. win \in Nat /\ win' \in Nat /\ win' <= win /\ pkt \in Segment
      /\ \A a \in Actors : hand[a] \in Segment
  BY Zenon DEF Moves, IInv, Typed
<1>4. Ticking'
  <2>1. Up => made' /\ (live' <=> ticking')
                /\ ("TICK" \in flags' /\ "LINKED" \in flags' => live')
    <3>1. Up => made /\ (live <=> ticking)
                /\ ("TICK" \in flags' /\ "LINKED" \in flags' => live)
      BY Zenon, <1>2 DEF Awaited, Ticking
    <3> QED
      BY <1>1, <3>1
  <2> QED
    BY Zenon, <1>1, <2>1, TickingKept, Started DEF Awaited
<1>5. Attached'
  <2>1. win < Len(pkt) => win' < Len(pkt')
    BY Zenon, <1>1, <1>3, StillSmall
  <2>2. Up' => Up /\ (Cover => Cover')
    BY Zenon, <1>1, <1>2 DEF Up, Cover
  <2> QED
    BY Zenon, <1>1, <1>2, <2>1, <2>2 DEF Awaited, Attached
<1>6. Detached'
  <2>1. \A a \in Actors : win < Len(hand[a]) => win' < Len(hand'[a])
    BY Zenon, <1>1, <1>3, StillSmall
  <2> QED
    BY Zenon, <1>1, <1>2, <2>1 DEF Awaited, Detached
<1> QED
  BY Zenon, <1>4, <1>5, <1>6 DEF Awaited

LEMMA MovingAwaited ==
  ASSUME IInv, Awaited, NEW t \in Tasks, Moving(t)
  PROVE  Awaited'
<1>1. /\ Moves(t) /\ NewJob(t) /\ Others(t)
      /\ Busy(t) \/ (t \in refs /\ running)
      /\ life' = life \/ (life' = "parked" /\ pc(t) = "test")
  BY Zenon, MovingMoves DEF NewJob
<1>2. Parking(t) /\ UNCHANGED <<pkt, state>>
  BY Zenon, <1>1 DEF Awaited, Moves
<1>3. Parking(t)'
  BY Zenon, <1>1, <1>2 DEF NewJob, Parking, pc
<1>4. \A u \in Tasks : Parking(u)'
  BY Zenon, <1>1, <1>3, ParkingKept
<1>5. life' = life \/ (pkt = <<>> /\ life' # "open")
  BY Zenon, <1>1, <1>2 DEF Parking
<1> QED
  BY Zenon, <1>1, <1>4, <1>5, MovesAwaited

LEMMA ClosesAwaited ==
  ASSUME IInv, Awaited, NEW t \in Tasks, Busy(t) \/ Ready(t),
         \/ \E how \in {"close", "linger", "abort"} : Close(t, how)
         \/ Destroy(t)
  PROVE  Awaited'
<1>1. CASE \E how \in {"close", "linger", "abort"} : Close(t, how)
  <2>1. /\ Moves(t) /\ Others(t) /\ life' = life /\ t \in refs /\ running /\ job'[t].pc # "test"
        /\ job'[t].pc = "fin" => pkt = <<>> /\ state = "IDLE"
    BY Zenon, <1>1, CloseMoves DEF Moves, Ready
  <2>2. Parking(t)'
    BY Zenon, <2>1 DEF Moves, Parking, pc
  <2>3. \A u \in Tasks : Parking(u)'
    BY Zenon, <2>1, <2>2, ParkingKept
  <2> QED
    BY Zenon, <2>1, <2>3, MovesAwaited
<1>2. CASE Destroy(t)
  <2>1. /\ Moves(t) /\ life' = "freed" /\ Busy(t) /\ Bare /\ \A u \in Tasks : ~Busy(u)'
    BY Zenon, <1>2, DestroyMoves DEF Busy
  <2>2. \A u \in Tasks : Parking(u)'
    BY Zenon, <2>1 DEF Parking, Busy
  <2> QED
    BY Zenon, <2>1, <2>2, MovesAwaited DEF Bare
<1> QED
  BY Zenon, <1>1, <1>2

LEMMA SweepAwaited ==
  ASSUME IInv, Awaited, NEW t \in Tasks, Sweep(t)
  PROVE  Awaited'
<1>1. /\ Moves(t) /\ Others(t) /\ life' = life /\ life = "parked"
      /\ job'[t].pc = "drop" /\ \A u \in Tasks : ~Busy(u)
  BY Zenon, SweepMoves DEF Moves
<1>2. \A u \in Tasks : pc(u)' \in {"drop", "idle"}
  BY Zenon, <1>1 DEF Others, Busy, pc
<1>3. \A u \in Tasks : Parking(u)'
  BY Zenon, <1>2 DEF Parking
<1> QED
  BY Zenon, <1>1, <1>3, Started, MovesAwaited DEF Awaited

LEMMA LinksTimer ==
  ASSUME NEW f, Link(f), live <=> ticking
  PROVE  live' <=> ticking'
<1>1. CASE "TICK" \in f /\ running /\ made /\ ~live
  BY Zenon, <1>1 DEF Link
<1>2. CASE ~("TICK" \in f /\ running /\ made /\ ~live)
  <2>1. UNCHANGED <<live, ticking>>
    BY Zenon, <1>2 DEF Link, timer
  <2> QED
    BY <2>1
<1> QED
  BY Zenon, <1>1, <1>2

(* A remainder is left waiting on the tick or on the window, and on the    *)
(* window only if no notify came while it was detached.                    *)
LEMMA WaitsFor ==
  ASSUME NEW w \in SUBSET Waits
  PROVE  /\ "TICK" \in WaitsOn(w) \/ "STALLED" \in WaitsOn(w)
         /\ "STALLED" \in WaitsOn(w) => "STALLED" \in w /\ "KICK" \notin flags
         /\ life = "parked" \/ "TICK" \in w => "TICK" \in WaitsOn(w)
<1> DEFINE kicked == IF "STALLED" \in w /\ "KICK" \in flags THEN {"TICK"} ELSE w
<1> DEFINE parked == IF life = "parked" THEN kicked \cup {"TICK"} ELSE kicked
<1>1. WaitsOn(w) = IF parked = {} THEN {"TICK"} ELSE parked
  BY Zenon DEF WaitsOn
<1>2. /\ kicked \in SUBSET Waits /\ ("STALLED" \in kicked => "STALLED" \in w /\ "KICK" \notin flags)
      /\ "TICK" \in w => "TICK" \in kicked
  BY Zenon DEF Waits
<1>3. /\ parked \in SUBSET Waits /\ ("STALLED" \in parked <=> "STALLED" \in kicked)
      /\ life = "parked" \/ "TICK" \in kicked => "TICK" \in parked
  <2> HIDE DEF kicked
  <2> QED
    BY Zenon, <1>2 DEF Waits
<1> HIDE DEF kicked, parked
<1>4. parked # {} => "TICK" \in parked \/ "STALLED" \in parked
  BY Zenon, <1>3 DEF Waits
<1>5. CASE parked = {}
  <2>1. WaitsOn(w) = {"TICK"}
    BY Zenon, <1>1, <1>5
  <2>2. "STALLED" \notin WaitsOn(w) /\ "TICK" \in WaitsOn(w)
    BY <2>1
  <2> QED
    BY Zenon, <2>2
<1>6. CASE parked # {}
  BY Zenon, <1>1, <1>2, <1>3, <1>4, <1>6
<1> QED
  BY Zenon, <1>5, <1>6

LEMMA UnclaimAwaited ==
  ASSUME IInv, Awaited, NEW a \in Actors, owner = a, Unclaim(a), ipPc' # "detach",
         UNCHANGED <<win, running, tickIp, stopPc, stops>>,
         life' = life \/ (life' = "parked" /\ (hand[a] # <<>> => "TICK" \in why[a]))
  PROVE  Ticking' /\ Attached' /\ Detached'
<1>1. /\ state' = "IDLE" /\ owner' = None /\ pkt' = hand[a] /\ made' = made
      /\ \A x \in Actors : hand'[x] = <<>>
  BY Zenon, Unclaims
<1>2. state = "FLUSH" /\ life # "freed" /\ life \in {"open", "parked", "freed"} /\ a # None
  <2>1. state = "FLUSH" /\ a # None
    BY Zenon, CorkAssumption DEF IInv, Owned, Actors
  <2> QED
    BY Zenon, <2>1 DEF IInv, Typed, Closing, Bare
<1>3. \A f \in {"LINKED", "STALLED", "TICK"} : f \notin flags
  BY Zenon, <1>2 DEF Awaited, Detached
<1>4. why \in [Actors -> SUBSET Waits] /\ why' = [why EXCEPT ![a] = {}] /\ why[a] \in SUBSET Waits
  BY Zenon DEF IInv, Typed, Unclaim
<1>5. \A x \in Actors : why'[x] = {}
  BY Zenon, <1>4 DEF Awaited, Detached
<1>6. Detached'
  BY Zenon, <1>1, <1>5 DEF Detached
<1>7. running \/ stops # 0
  BY Zenon, <1>2, Started DEF Awaited, Bare
<1>8. ASSUME hand[a] # <<>> PROVE Ticking' /\ Attached'
  <2> DEFINE w == WaitsOn(why[a])
  <2>1. Link((flags \cup w) \ {"KICK"})
    BY Zenon, <1>8 DEF Unclaim
  <2>2. ~made => ~ticking
    BY Zenon DEF IInv, Stopping
  <2>3. /\ flags' = ((flags \cup w) \ {"KICK"}) \cup {"LINKED"}
        /\ running /\ made /\ "TICK" \in ((flags \cup w) \ {"KICK"}) => live'
    BY Zenon, <2>1, <2>2, Links
  <2>4. /\ "TICK" \in w \/ "STALLED" \in w
        /\ "STALLED" \in w => "STALLED" \in why[a] /\ "KICK" \notin flags
        /\ life = "parked" \/ "TICK" \in why[a] => "TICK" \in w
    BY Zenon, <1>4, WaitsFor
  <2> HIDE DEF w
  <2>5. /\ "LINKED" \in flags' /\ ("TICK" \in flags' <=> "TICK" \in w)
        /\ ("STALLED" \in flags' <=> "STALLED" \in w)
        /\ running /\ made /\ "TICK" \in w => live'
    BY Zenon, <1>3, <2>3
  <2>6. Ticking'
    <3>1. Up => made /\ (live <=> ticking)
      BY Zenon DEF Awaited, Ticking
    <3>2. Up => (live' <=> ticking')
      BY Zenon, <3>1, <2>1, LinksTimer
    <3>3. Up => made'
      BY <1>1, <3>1
    <3>4. Up => running /\ made
      BY Zenon, <3>1 DEF Up
    <3> QED
      BY Zenon, <1>7, <2>5, <3>2, <3>3, <3>4, TickingKept DEF Awaited
  <2>7. "STALLED" \in w /\ life = "open" => win < Len(hand[a])
    BY Zenon, <1>8, <2>4 DEF Awaited, Detached
  <2> QED
    BY Zenon, <1>1, <1>2, <1>8, <2>4, <2>5, <2>6, <2>7 DEF Attached, Cover
<1>9. ASSUME hand[a] = <<>> PROVE Ticking' /\ Attached'
  <2>1. UNCHANGED <<live, ticking>> /\ "TICK" \notin flags'
    BY Zenon, <1>9 DEF Unclaim, timer
  <2>2. Up => made' /\ (live' <=> ticking')
    BY <1>1, <2>1 DEF Awaited, Ticking
  <2>3. Ticking'
    BY Zenon, <1>7, <2>1, <2>2, TickingKept DEF Awaited
  <2> QED
    BY Zenon, <1>1, <1>9, <2>3 DEF Attached
<1> QED
  BY Zenon, <1>6, <1>8, <1>9

LEMMA GiveAwaited ==
  ASSUME IInv, Awaited, NEW t \in Tasks, Give(t)
  PROVE  Awaited'
<1>1. /\ pc(t) = "give" /\ owner = t /\ t \in Actors /\ Busy(t) /\ ipPc # "detach" /\ Unclaim(t)
      /\ Parking(t)
  BY Zenon, Distinct DEF Give, IInv, Owned, Owning, IpOwning, Busy, Awaited
<1>2. UNCHANGED <<win, running, tickIp, stopPc, stops, ipPc>>
  BY Zenon DEF Give, nx, ip, lib
<1>3. life' = life \/ (life' = "parked" /\ (hand[t] # <<>> => "TICK" \in why[t]))
  BY Zenon, <1>1 DEF Give, Parking
<1>4. Ticking' /\ Attached' /\ Detached'
  BY Zenon, <1>1, <1>2, <1>3, UnclaimAwaited
<1>5. state' = "IDLE" /\ pkt' = hand[t]
  BY Zenon, <1>1 DEF Unclaim
<1>6. Others(t) /\ job'[t].pc # "give"
      /\ (job'[t].pc = "test" => job[t].then = "test")
      /\ (job'[t].pc = "fin" => job'[t].then = job[t].then)
  <2>1. CASE GoOn(t)
    BY Zenon, <2>1, GoneOn
  <2>2. CASE Goto(t, "fin")
    BY Zenon, <2>2, Goes DEF IInv, Places
  <2> QED
    BY Zenon, <2>1, <2>2 DEF Give
<1>7. Parking(t)'
  BY Zenon, <1>1, <1>5, <1>6 DEF Parking, pc
<1> QED
  BY Zenon, <1>1, <1>4, <1>6, <1>7, ParkingKept DEF Awaited

(* Steps that leave the list's flags out of the segment's way.             *)
LEMMA OffAwaited ==
  ASSUME Ticking, running \/ stops # 0,
         UNCHANGED <<running, tickIp, stopPc, stops, made, live, ticking>>,
         "TICK" \notin flags'
  PROVE  Ticking'
<1>1. Up => made' /\ (live' <=> ticking')
  BY DEF Ticking
<1> QED
  BY Zenon, <1>1, TickingKept

LEMMA ClaimAwaited ==
  ASSUME IInv, Awaited, NEW t \in Tasks, Claim(t)
  PROVE  Awaited'
<1>1. /\ pc(t) = "claim" /\ Busy(t) /\ state = "IDLE" /\ state' = "FLUSH" /\ owner' = t
      /\ flags' = flags \ {"LINKED", "STALLED", "TICK", "KICK"}
  BY Zenon DEF Claim, Take, Busy
<1>2. Others(t) /\ job'[t].pc = "work"
  BY Zenon, Goes DEF Claim, Places, IInv
<1>3. UNCHANGED <<why, ipPc, running, tickIp, stopPc, stops, made, live, ticking>>
  BY Zenon DEF Claim, ip, lib, timer
<1>4. owner = None /\ ipPc # "detach"
  BY Zenon, <1>1, Distinct DEF IInv, Owned, IpOwning
<1>5. \A a \in Actors : why'[a] = {}
  BY Zenon, <1>3, <1>4, CorkAssumption DEF Awaited, Detached, Actors
<1>6. \A f \in {"LINKED", "STALLED", "TICK"} : f \notin flags'
  BY Zenon, <1>1
<1>7. Ticking'
  BY Zenon, <1>1, <1>3, <1>6, OffAwaited, Started DEF Awaited
<1>8. Attached' /\ Detached'
  BY Zenon, <1>1, <1>3, <1>4, <1>5, <1>6 DEF Attached, Detached
<1>9. Parking(t)'
  BY Zenon, <1>2 DEF Parking, pc
<1> QED
  BY Zenon, <1>1, <1>2, <1>7, <1>8, <1>9, ParkingKept DEF Awaited

LEMMA DropAwaited ==
  ASSUME IInv, Awaited, NEW t \in Tasks, DropSegment(t)
  PROVE  Awaited'
<1>1. /\ pc(t) = "drop" /\ Busy(t) /\ state = "IDLE" /\ pkt' = <<>>
      /\ flags' = flags \ {"LINKED", "STALLED", "TICK", "FIN", "KICK"}
  BY Zenon DEF DropSegment, Busy
<1>2. Others(t) /\ job'[t].pc = "end"
  BY Zenon, Goes DEF DropSegment, Places, IInv
<1>3. UNCHANGED <<state, owner, hand, why, ipPc, running, tickIp, stopPc, stops,
                  made, live, ticking>>
  BY Zenon DEF DropSegment, ip, lib, timer
<1>4. owner = None /\ \A a \in Actors : hand[a] = <<>>
  BY Zenon, <1>1, CorkAssumption DEF IInv, Owned, Actors
<1>5. Ticking'
  BY Zenon, <1>1, <1>3, OffAwaited, Started DEF Awaited
<1>6. Attached' /\ Detached'
  BY Zenon, <1>1, <1>3, <1>4 DEF Awaited, Attached, Detached
<1>7. Parking(t)'
  BY Zenon, <1>2 DEF Parking, pc
<1> QED
  BY Zenon, <1>1, <1>2, <1>5, <1>6, <1>7, ParkingKept DEF Awaited

(* The fast path copies only into a segment that is not stalled.           *)
LEMMA FastAwaited ==
  ASSUME IInv, Awaited, NEW t \in Tasks, FastDone(t) \/ \E n \in 1..Cap : FastTake(t, n)
  PROVE  Awaited'
<1> Typed
  BY Zenon DEF IInv
<1>1. UNCHANGED <<owner, flags, hand, why, life, win, event, ipPc, running, tickIp, stopPc, stops,
                  made, live, ticking>>
  BY Zenon DEF FastTake, FastDone, sock, nx, ip, lib, timer
<1>2. /\ pkt # <<>> /\ state # "FLUSH" /\ state' # "FLUSH" /\ "STALLED" \notin flags
  BY Zenon DEF FastTake, FastDone, IInv, Owned, Awaited, Attached
<1>3. (Busy(t) \/ t \in refs) /\ (Busy(t) \/ running)
  BY Zenon DEF FastTake, FastDone, Busy, Ready
<1>4. Others(t) /\ job'[t].pc \in {"copy", "kick", "idle"}
  <2>1. ASSUME NEW n \in 1..Cap, FastTake(t, n) PROVE <1>4!:
    <3> DEFINE j == Job("copy", "", n, "idle")
    <3>1. j \in Jobs /\ j.pc = "copy"
      BY CorkAssumption DEF Job, Jobs, Places
    <3>2. Do(t, j)
      BY Zenon, <2>1 DEF FastTake
    <3> HIDE DEF j
    <3> QED
      BY Zenon, <3>1, <3>2, Does
  <2>2. ASSUME NEW p \in {"kick", "idle"}, Goto(t, p) PROVE <1>4!:
    BY Zenon, <2>2, Goes DEF Places
  <2> QED
    BY Zenon, <2>1, <2>2 DEF FastDone
<1>5. Ticking'
  <2>1. Up => made' /\ (live' <=> ticking')
                /\ ("TICK" \in flags' /\ "LINKED" \in flags' => live')
    BY <1>1 DEF Awaited, Ticking
  <2> QED
    BY Zenon, <1>1, <1>3, <2>1, TickingKept, Started DEF Awaited
<1>6. Attached'
  <2>1. Up' => Up /\ (Cover => Cover')
    BY Zenon, <1>1 DEF Up, Cover
  <2> QED
    BY Zenon, <1>1, <1>2, <2>1 DEF Awaited, Attached
<1>7. Detached'
  BY Zenon, <1>1, <1>2 DEF Awaited, Detached
<1>8. Parking(t)'
  BY Zenon, <1>4 DEF Parking, pc
<1> QED
  BY Zenon, <1>3, <1>4, <1>5, <1>6, <1>7, <1>8, ParkingKept DEF Awaited

LEMMA FastKickAwaited ==
  ASSUME IInv, Awaited, NEW t \in Tasks, FastKick(t)
  PROVE  Awaited'
<1>1. UNCHANGED <<state, owner, pkt, hand, why, life, win, event, ipPc, running, tickIp,
                  stopPc, stops>>
  BY Zenon DEF FastKick, sock, nx, ip, lib
<1>2. Busy(t) /\ Others(t) /\ job'[t].pc = "idle"
  BY Zenon, Goes DEF FastKick, Places, Busy, IInv
<1>3. Parking(t)'
  BY Zenon, <1>2 DEF Parking, pc
<1>4. CASE Link((flags \ {"KICK", "STALLED"}) \cup {"TICK"}) /\ state = "IDLE"
  <2>1. ~made => ~ticking
    BY Zenon DEF IInv, Stopping
  <2> DEFINE f == (flags \ {"KICK", "STALLED"}) \cup {"TICK"}
  <2>0. Link(f) /\ "TICK" \in f /\ "STALLED" \notin f
    BY Zenon, <1>4
  <2> HIDE DEF f
  <2>2. /\ flags' = f \cup {"LINKED"}
        /\ made' = made /\ (running /\ made => live')
    BY Zenon, <2>0, <2>1, Links
  <2>3. "LINKED" \in flags' /\ "TICK" \in flags' /\ "STALLED" \notin flags'
    BY Zenon, <2>0, <2>2
  <2>4. \A a \in Actors : hand[a] = <<>>
    BY Zenon, <1>4, CorkAssumption DEF IInv, Owned, Actors
  <2>5. Ticking'
    <3>1. Up => made /\ running /\ (live <=> ticking)
      BY Zenon DEF Awaited, Ticking, Up
    <3>2. Up => (live' <=> ticking')
      BY Zenon, <3>1, <2>0, LinksTimer
    <3>3. Up => made'
      BY <2>2, <3>1
    <3> QED
      BY Zenon, <1>1, <1>2, <2>2, <3>1, <3>2, <3>3, TickingKept, Started DEF Awaited
  <2>6. Attached'
    BY Zenon, <1>1, <1>4, <2>3 DEF Attached, Cover
  <2>7. Detached'
    BY Zenon, <1>1, <1>4, <2>4 DEF Awaited, Detached
  <2> QED
    BY Zenon, <1>2, <1>3, <2>5, <2>6, <2>7, ParkingKept DEF Awaited
<1>5. CASE UNCHANGED <<flags, timer>>
  <2>1. UNCHANGED <<flags, made, live, ticking>>
    BY Zenon, <1>5 DEF timer
  <2>2. Ticking'
    <3>1. Up => made' /\ (live' <=> ticking')
                  /\ ("TICK" \in flags' /\ "LINKED" \in flags' => live')
      BY <2>1 DEF Awaited, Ticking
    <3> QED
      BY Zenon, <1>1, <1>2, <3>1, TickingKept, Started DEF Awaited
  <2>3. Up' => Up /\ (Cover => Cover')
    BY Zenon, <1>1, <2>1 DEF Up, Cover
  <2>4. Attached' /\ Detached'
    BY Zenon, <1>1, <2>1, <2>3 DEF Awaited, Attached, Detached
  <2> QED
    BY Zenon, <1>2, <1>3, <2>2, <2>4, ParkingKept DEF Awaited
<1> QED
  BY Zenon, <1>4, <1>5 DEF FastKick

(* The IP thread, the tick and the notifies.                               *)
LEMMA StillTicking ==
  ASSUME Awaited, TasksKept, UNCHANGED <<state, pkt, hand, why, made, live, ticking>>,
         ipPc' = ipPc \/ running \/ ipPc # "wait",
         \A f \in {"LINKED", "TICK"} : f \in flags' <=> f \in flags
  PROVE  Ticking' /\ \A t \in Tasks : Parking(t)'
<1>1. UNCHANGED <<job, life, running, tickIp, stopPc, stops>>
  BY Zenon DEF TasksKept
<1>2. \A t \in Tasks : Parking(t)'
  BY Zenon, <1>1 DEF Awaited, Parking, pc
<1>3. Up => made' /\ (live' <=> ticking')
              /\ ("TICK" \in flags' /\ "LINKED" \in flags' => live')
  <2>1. Up => made /\ (live <=> ticking)
                /\ ("TICK" \in flags' /\ "LINKED" \in flags' => live)
    BY Zenon DEF Awaited, Ticking
  <2> QED
    BY <2>1
<1>4. CASE running \/ stops # 0
  BY Zenon, <1>1, <1>2, <1>3, <1>4, TickingKept DEF Awaited
<1>5. CASE ~running /\ stops = 0
  <2>1. /\ Bare /\ ~live /\ ~ticking /\ life = "open" /\ ipPc = "wait"
        /\ \A t \in Tasks : ~Busy(t)
    BY Zenon, <1>5 DEF Awaited, Ticking
  <2>2. Bare' /\ ~live' /\ ~ticking' /\ life' = "open" /\ ipPc' = "wait" /\ ~running' /\ stops' = 0
    BY Zenon, <1>1, <1>5, <2>1 DEF Bare
  <2>3. \A t \in Tasks : ~Busy(t)'
    BY Zenon, <1>1, <2>1 DEF Busy, pc
  <2>4. stopPc' = "none"
    BY Zenon, <1>1, <1>5 DEF Awaited, Ticking
  <2> QED
    BY Zenon, <1>2, <2>2, <2>3, <2>4 DEF Ticking, Up
<1> QED
  BY Zenon, <1>4, <1>5

(* With the segment not detached nobody has one in hand.                   *)
LEMMA NoHands ==
  ASSUME IInv, state # "FLUSH"
  PROVE  owner = None /\ ipPc # "detach" /\ \A a \in Actors : hand[a] = <<>>
BY Zenon, CorkAssumption DEF IInv, Owned, IpOwning, Actors

LEMMA SameAwaited ==
  ASSUME IInv, Awaited, TasksKept,
         UNCHANGED <<state, owner, flags, pkt, hand, why, win, made, live, ticking>>,
         ipPc' = ipPc \/ running \/ ipPc # "wait", ipPc' # "detach" \/ ipPc = "detach",
         running /\ (event \/ ipPc = "call") => event' \/ ipPc' = "call"
  PROVE  Awaited'
<1>1. UNCHANGED <<life, running, stopPc>>
  BY Zenon DEF TasksKept
<1>2. Ticking' /\ \A t \in Tasks : Parking(t)'
  BY Zenon, StillTicking
<1>3. Up' => Up /\ (Cover => Cover')
  BY Zenon, <1>1 DEF Up, Cover
<1>4. Attached' /\ Detached'
  BY Zenon, <1>1, <1>3 DEF Awaited, Attached, Detached
<1> QED
  BY Zenon, <1>2, <1>4 DEF Awaited

LEMMA WakeAwaited ==
  ASSUME IInv, Awaited, IpWake \/ PassFin \/ Tick \/ UNCHANGED vars
  PROVE  Awaited'
<1> USE DEF seg, sock, nx, ip, lib, timer, bytes
<1>1. TasksKept /\ UNCHANGED <<state, owner, flags, pkt, hand, why, win, made, live, ticking>>
  BY Zenon DEF IpWake, PassFin, SendFin, Tick, vars, TasksKept
<1>2. CASE IpWake
  BY Zenon, <1>1, <1>2, SameAwaited DEF IpWake
<1>3. CASE PassFin
  BY Zenon, <1>1, <1>3, SameAwaited DEF PassFin
<1>4. CASE Tick
  BY Zenon, <1>1, <1>4, SameAwaited DEF Tick
<1>5. CASE UNCHANGED vars
  <2>1. UNCHANGED <<event, ipPc>>
    BY Zenon, <1>5 DEF vars
  <2>2. event \/ ipPc = "call" => event' \/ ipPc' = "call"
    BY <2>1
  <2> QED
    BY Zenon, <1>1, <2>1, <2>2, SameAwaited
<1> QED
  BY Zenon, <1>2, <1>3, <1>4, <1>5

(* bsd_cork_tick_settle_locked() stops the tick only with nobody on it.    *)
LEMMA SettleAwaited ==
  ASSUME IInv, Awaited, PassSettle
  PROVE  Awaited'
<1>1. /\ UNCHANGED <<state, owner, flags, pkt, hand, why, win, event, made, job, life, running,
                     tickIp, stopPc, stops>>
      /\ ipPc = "settle" /\ ipPc' = "wait"
  BY Zenon DEF PassSettle, seg, sock, nx, lib, timer
<1>2. \A t \in Tasks : Parking(t)'
  BY Zenon, <1>1 DEF Awaited, Parking, pc
<1>3. Up => made' /\ (live' <=> ticking')
              /\ ("TICK" \in flags' /\ "LINKED" \in flags' => live')
  <2>1. Up => made /\ (live <=> ticking) /\ ("TICK" \in flags /\ "LINKED" \in flags => live)
    BY Zenon DEF Awaited, Ticking
  <2>2. CASE live /\ ~("LINKED" \in flags /\ "TICK" \in flags)
    <3>1. ~live' /\ ~ticking'
      BY Zenon, <2>2 DEF PassSettle
    <3> QED
      BY <1>1, <2>1, <2>2, <3>1
  <2>3. CASE UNCHANGED <<live, ticking>>
    BY <1>1, <2>1, <2>3
  <2> QED
    BY Zenon, <2>2, <2>3 DEF PassSettle, timer
<1>4. Ticking'
  BY Zenon, <1>1, <1>3, TickingKept, Started DEF Awaited
<1>5. Up' => Up /\ (Cover => Cover')
  BY Zenon, <1>1 DEF Up, Cover
<1>6. Attached' /\ Detached'
  BY Zenon, <1>1, <1>5 DEF Awaited, Attached, Detached
<1> QED
  BY Zenon, <1>2, <1>4, <1>6 DEF Awaited

(* bsd_tcp_window_notify() wakes the pass for a stalled segment, and       *)
(* leaves KICK for one that is detached.                                   *)
LEMMA WindowAwaited ==
  ASSUME IInv, Awaited, NEW w \in Windows, WindowOpens(w)
  PROVE  Awaited'
<1>1. TasksKept /\ UNCHANGED <<state, owner, pkt, hand, why, made, live, ticking, ipPc>>
      /\ UNCHANGED <<life, running, stopPc>>
  BY Zenon DEF WindowOpens, TasksKept, sock, lib, timer, bytes
<1>2. \/ flags' = flags
      \/ flags' = flags \ {"STALLED"}
      \/ flags' = flags \cup {"KICK"}
  BY Zenon DEF WindowOpens, WindowNotify
<1>3. /\ \A f \in {"LINKED", "TICK"} : f \in flags' <=> f \in flags
      /\ "STALLED" \in flags' => "STALLED" \in flags
  BY Zenon, <1>2
<1>4. Ticking' /\ \A t \in Tasks : Parking(t)'
  BY Zenon, <1>1, <1>3, StillTicking
<1>5. CASE life # "open"
  <2>1. UNCHANGED <<flags, event>>
    BY Zenon, <1>5 DEF WindowOpens
  <2>2. Up' => Up /\ (Cover => Cover')
    BY Zenon, <1>1, <2>1 DEF Up, Cover
  <2>3. Attached' /\ Detached'
    BY Zenon, <1>1, <1>5, <2>1, <2>2 DEF Awaited, Attached, Detached
  <2> QED
    BY Zenon, <1>4, <2>3 DEF Awaited
<1>6. CASE life = "open" /\ "STALLED" \in flags
  <2>1. "STALLED" \notin flags' /\ (running => event')
    BY Zenon, <1>6 DEF WindowOpens, WindowNotify
  <2>2. state # "FLUSH" /\ \A a \in Actors : hand[a] = <<>>
    <3>1. state # "FLUSH"
      BY Zenon, <1>6 DEF Awaited, Detached
    <3> QED
      BY Zenon, <3>1, NoHands
  <2>3. Up' => Up /\ (Cover => Cover')
    BY Zenon, <1>1, <1>3, <2>1 DEF Up, Cover
  <2>4. Attached'
    BY Zenon, <1>1, <1>3, <1>6, <2>1, <2>3 DEF Awaited, Attached
  <2>5. Detached'
    BY Zenon, <1>1, <2>2 DEF Awaited, Detached
  <2> QED
    BY Zenon, <1>4, <2>4, <2>5 DEF Awaited
<1>7. CASE life = "open" /\ "STALLED" \notin flags
  <2>1. event' = event /\ "STALLED" \notin flags' /\ (state = "FLUSH" => "KICK" \in flags')
    BY Zenon, <1>3, <1>7 DEF WindowOpens, WindowNotify
  <2>2. Up' => Up /\ (Cover => Cover')
    BY Zenon, <1>1, <1>3, <1>7, <2>1 DEF Up, Cover
  <2>3. Attached'
    BY Zenon, <1>1, <1>3, <1>7, <2>1, <2>2 DEF Awaited, Attached
  <2>4. \A a \in Actors : hand[a] # <<>> => state = "FLUSH"
    BY Zenon, NoHands
  <2>5. Detached'
    BY Zenon, <1>1, <1>3, <2>1, <2>4 DEF Awaited, Detached
  <2> QED
    BY Zenon, <1>4, <2>3, <2>5 DEF Awaited
<1> QED
  BY Zenon, <1>5, <1>6, <1>7

LEMMA ResetAwaited ==
  ASSUME IInv, Awaited, Reset
  PROVE  Awaited'
<1>1. TasksKept /\ UNCHANGED <<state, owner, pkt, hand, why, win, made, live, ticking, ipPc>>
      /\ UNCHANGED <<life, running, stopPc>>
  BY Zenon DEF Reset, TasksKept, sock, lib, timer, bytes
<1>2. \/ flags' = flags \/ flags' = flags \ {"STALLED"} \/ flags' = flags \cup {"KICK"}
  BY Zenon DEF Reset
<1>3. /\ \A f \in {"LINKED", "TICK"} : f \in flags' <=> f \in flags
      /\ ("STALLED" \in flags' => "STALLED" \in flags) /\ ("KICK" \in flags => "KICK" \in flags')
  BY Zenon, <1>2
<1>4. Ticking' /\ \A t \in Tasks : Parking(t)'
  BY Zenon, <1>1, <1>3, StillTicking
<1>5. UNCHANGED <<flags, event>> \/ (running => event')
  BY Zenon DEF Reset
<1>6. Up' => Up /\ (Cover => Cover')
  BY Zenon, <1>1, <1>3, <1>5 DEF Up, Cover
<1>7. Attached' /\ Detached'
  BY Zenon, <1>1, <1>3, <1>6 DEF Awaited, Attached, Detached
<1> QED
  BY Zenon, <1>4, <1>7 DEF Awaited

LEMMA PassTakeAwaited ==
  ASSUME IInv, Awaited, PassTake
  PROVE  Awaited'
<1>1. /\ ipPc = "call" /\ TasksKept /\ UNCHANGED <<hand, why, win, event>>
      /\ UNCHANGED <<job, life, running, tickIp, stopPc, stops>>
  BY Zenon DEF PassTake, TasksKept, sock, nx, lib, bytes
<1>2. running \/ stops # 0
  BY Zenon, <1>1, Started DEF Awaited
<1>3. CASE ~running \/ "LINKED" \notin flags
  <2>1. UNCHANGED <<state, owner, flags, pkt, made, live, ticking>> /\ ipPc' # "detach"
    BY Zenon, <1>3 DEF PassTake, seg, timer
  <2>2. Ticking' /\ \A t \in Tasks : Parking(t)'
    BY Zenon, <1>1, <2>1, StillTicking
  <2>3. ~(Up' /\ pkt' # <<>> /\ state' # "FLUSH")
    BY Zenon, <1>1, <1>3, <2>1 DEF Awaited, Attached, Cover, Up
  <2>4. Attached' /\ Detached'
    BY Zenon, <1>1, <2>1, <2>3 DEF Awaited, Attached, Detached
  <2> QED
    BY Zenon, <2>2, <2>4 DEF Awaited
<1>4. CASE /\ running /\ "LINKED" \in flags /\ state = "IDLE" /\ pkt # <<>>
           /\ "STALLED" \notin flags \/ "TICK" \in flags
  <2>1. /\ state' = "FLUSH" /\ owner' = IP /\ flags' = flags \ {"LINKED", "STALLED", "TICK", "KICK"}
        /\ UNCHANGED <<pkt, made, live, ticking>>
    BY Zenon, <1>4 DEF PassTake, timer
  <2>2. \A f \in {"LINKED", "STALLED", "TICK"} : f \notin flags'
    BY Zenon, <2>1
  <2>3. Ticking'
    BY Zenon, <1>1, <1>2, <2>1, <2>2, OffAwaited DEF Awaited
  <2>4. owner = None /\ \A a \in Actors : a # None /\ hand[a] = <<>>
    BY Zenon, <1>4, NoHands, CorkAssumption DEF Actors
  <2>5. \A a \in Actors : why'[a] = {}
    BY Zenon, <1>1, <2>4 DEF Awaited, Detached
  <2>6. IP \in Actors
    BY Zenon DEF Actors
  <2>7. Attached' /\ Detached'
    BY Zenon, <2>1, <2>2, <2>5, <2>6 DEF Attached, Detached
  <2>8. \A t \in Tasks : Parking(t)'
    BY Zenon, <1>1, <1>4 DEF Awaited, Parking, pc
  <2> QED
    BY Zenon, <2>3, <2>7, <2>8 DEF Awaited
<1>5. CASE /\ running /\ "LINKED" \in flags
           /\ ~(state = "IDLE" /\ pkt # <<>> /\ ("STALLED" \notin flags \/ "TICK" \in flags))
  <2>1. /\ IF Corked
           THEN Link(IF state = "APPEND" THEN flags \cup {"TICK"} ELSE flags)
           ELSE flags' = flags \ {"LINKED", "STALLED", "TICK"} /\ UNCHANGED timer
        /\ UNCHANGED <<state, owner, pkt>> /\ ipPc' = "settle"
    BY Zenon, <1>5 DEF PassTake
  <2>2. state # "FLUSH" /\ state \in {"IDLE", "APPEND", "FLUSH"}
    BY Zenon, <1>5 DEF Awaited, Detached, IInv, Typed
  <2>3. \A a \in Actors : hand'[a] = <<>>
    BY Zenon, <1>1, <2>2, NoHands
  <2>4. Detached'
    BY Zenon, <1>1, <2>1, <2>2, <2>3 DEF Awaited, Detached
  <2>5. \A t \in Tasks : Parking(t)'
    BY Zenon, <1>1, <2>1 DEF Awaited, Parking, pc
  <2>6. CASE Corked
    <3> DEFINE f == IF state = "APPEND" THEN flags \cup {"TICK"} ELSE flags
    <3>1. Link(f)
      BY Zenon, <2>1, <2>6
    <3>2. /\ ("STALLED" \in f <=> "STALLED" \in flags) /\ ("TICK" \in flags => "TICK" \in f)
          /\ state = "APPEND" => "TICK" \in f
      BY Zenon
    <3> HIDE DEF f
    <3>3. ~made => ~ticking
      BY Zenon DEF IInv, Stopping
    <3>4. /\ flags' = f \cup {"LINKED"} /\ made' = made
          /\ running /\ made /\ "TICK" \in f => live'
      BY Zenon, <3>1, <3>3, Links
    <3>5. /\ ("STALLED" \in flags' <=> "STALLED" \in flags) /\ ("TICK" \in flags' <=> "TICK" \in f)
          /\ "LINKED" \in flags'
      BY Zenon, <3>2, <3>4
    <3>6. Ticking'
      <4>1. Up => made /\ running /\ (live <=> ticking)
        BY Zenon DEF Awaited, Ticking, Up
      <4>2. Up => (live' <=> ticking')
        BY Zenon, <3>1, <4>1, LinksTimer
      <4>3. Up => made'
        BY <3>4, <4>1
      <4> QED
        BY Zenon, <1>1, <1>2, <3>4, <3>5, <4>1, <4>2, <4>3, TickingKept DEF Awaited
    <3>7. pkt # <<>> => "STALLED" \in flags' \/ "TICK" \in flags'
      BY Zenon, <1>5, <2>2, <3>2, <3>5
    <3>8. Attached'
      BY Zenon, <1>1, <2>1, <3>2, <3>5, <3>7 DEF Awaited, Attached, Cover
    <3> QED
      BY Zenon, <2>4, <2>5, <3>6, <3>8 DEF Awaited
  <2>7. CASE ~Corked
    <3>1. UNCHANGED <<made, live, ticking>> /\ "TICK" \notin flags' /\ pkt' = <<>> /\ state' = "IDLE"
      BY Zenon, <2>1, <2>7 DEF timer, Corked
    <3>2. Ticking'
      BY Zenon, <1>1, <1>2, <3>1, OffAwaited DEF Awaited
    <3>3. Attached'
      BY Zenon, <3>1 DEF Attached
    <3> QED
      BY Zenon, <2>4, <2>5, <3>2, <3>3 DEF Awaited
  <2> QED
    BY Zenon, <2>6, <2>7
<1> QED
  BY Zenon, <1>3, <1>4, <1>5

(* The IP thread with the segment detached: nothing else may have it.      *)
LEMMA IpAwaited ==
  ASSUME IInv, Awaited, TasksKept, ipPc \in {"detach", "send"}, ipPc' # "detach",
         UNCHANGED <<state, owner, flags, made, live, ticking>>,
         NEW s, hand' = [hand EXCEPT ![IP] = s],
         NEW w, why' = [why EXCEPT ![IP] = w], "STALLED" \in w => win' < Len(s)
  PROVE  Awaited'
<1>1. UNCHANGED <<job, life, running, tickIp, stopPc, stops>>
  BY Zenon DEF TasksKept
<1>2. owner = IP /\ state = "FLUSH" /\ IP \in Actors
  BY Zenon, CorkAssumption DEF IInv, Owned, IpOwning, Actors
<1>3. \A f \in {"LINKED", "STALLED", "TICK"} : f \notin flags'
  BY Zenon, <1>2 DEF Awaited, Detached
<1>4. Ticking'
  BY Zenon, <1>1, <1>3, OffAwaited, Started DEF Awaited
<1>5. hand'[IP] = s /\ why'[IP] = w
      /\ \A a \in Actors : a # IP => hand'[a] = hand[a] /\ why'[a] = why[a]
  BY Zenon, <1>2 DEF IInv, Typed
<1>6. Attached'
  BY Zenon, <1>2 DEF Attached
<1>7. \A a \in Actors : a # IP => why'[a] = {}
  BY Zenon, <1>2, <1>5 DEF Awaited, Detached
<1>8. Detached'
  BY Zenon, <1>2, <1>3, <1>5, <1>7 DEF Detached
<1>9. \A t \in Tasks : Parking(t)'
  <2>1. \A t \in Tasks : pc(t) \notin Owning
    BY Zenon, <1>2, Distinct DEF IInv, Owned
  <2> QED
    BY Zenon, <1>1, <1>2, <2>1 DEF Awaited, Parking, pc, Owning
<1> QED
  BY Zenon, <1>4, <1>6, <1>8, <1>9 DEF Awaited

LEMMA PassSendAwaited ==
  ASSUME IInv, Awaited, PassDetach \/ PassSend
  PROVE  Awaited'
<1> Typed /\ IP \in Actors
  BY Zenon DEF IInv, Actors
<1>1. CASE PassDetach
  <2>1. /\ TasksKept /\ ipPc = "detach" /\ ipPc' = "send" /\ hand' = [hand EXCEPT ![IP] = pkt]
        /\ UNCHANGED <<state, owner, flags, why, made, live, ticking>>
    BY Zenon, <1>1 DEF PassDetach, TasksKept, sock, lib, timer, bytes
  <2>2. why[IP] = {}
    BY Zenon, <2>1 DEF Awaited, Detached
  <2>3. why' = [why EXCEPT ![IP] = {}]
    BY <2>1, <2>2 DEF Typed
  <2>4. "STALLED" \in {} => win' < Len(pkt)
    BY Zenon
  <2> QED
    BY Zenon, <2>1, <2>3, <2>4, IpAwaited
<1>2. CASE PassSend
  <2>1. /\ TasksKept /\ ipPc = "send" /\ ipPc' = "give"
        /\ UNCHANGED <<state, owner, flags, made, live, ticking>>
    BY Zenon, <1>2 DEF PassSend, TasksKept, seg, lib, timer
  <2>2. PICK o \in Settle(hand[IP]) : Sent(IP, hand[IP], o)
    BY Zenon, <1>2 DEF PassSend
  <2>3. Sends(hand[IP], o)
    BY Zenon, <2>2, Settled DEF Typed
  <2>4. /\ hand' = [hand EXCEPT ![IP] = o.left] /\ why' = [why EXCEPT ![IP] = o.why]
        /\ win' = win - o.sent
    BY Zenon, <2>2 DEF Sent
  <2>5. "STALLED" \in o.why => win' < Len(o.left)
    BY Zenon, <2>3, <2>4 DEF Sends
  <2> QED
    BY Zenon, <2>1, <2>4, <2>5, IpAwaited
<1> QED
  BY Zenon, <1>1, <1>2

LEMMA PassGiveAwaited ==
  ASSUME IInv, Awaited, PassGive
  PROVE  Awaited'
<1>1. /\ ipPc = "give" /\ ipPc' # "detach" /\ Unclaim(IP)
      /\ UNCHANGED <<win, running, tickIp, stopPc, stops, life, job>>
  BY Zenon DEF PassGive, sock, nx, lib
<1>2. owner = IP /\ state = "FLUSH" /\ IP \in Actors
  BY Zenon, <1>1, CorkAssumption DEF IInv, Owned, IpOwning, Actors
<1>3. Ticking' /\ Attached' /\ Detached'
  BY Zenon, <1>1, <1>2, UnclaimAwaited
<1>4. \A t \in Tasks : Parking(t)'
  <2>1. \A t \in Tasks : pc(t) \notin Owning
    BY Zenon, <1>2, Distinct DEF IInv, Owned
  <2> QED
    BY Zenon, <1>1, <1>2, <2>1 DEF Awaited, Parking, pc, Owning
<1> QED
  BY Zenon, <1>3, <1>4 DEF Awaited

(* The start, the first one, finds a bare socket.                          *)
LEMMA StartAwaited ==
  ASSUME IInv, Awaited, Start, ~Reopens
  PROVE  Awaited'
<1>1. /\ UNCHANGED <<state, owner, flags, pkt, hand, why, job, life, win, event, ipPc,
                     stops, stopPc, live, ticking>>
      /\ ~running /\ stops = 0 /\ stopPc = "none" /\ running' /\ made' /\ tickIp'
  BY Zenon DEF Start, seg, sock, nx, ip
<1>2. Bare /\ ~live /\ ~ticking /\ \A t \in Tasks : ~Busy(t)
  BY Zenon, <1>1 DEF Awaited, Ticking
<1>3. \A t \in Tasks : Parking(t)'
  BY Zenon, <1>1 DEF Awaited, Parking, pc
<1>4. "LINKED" \notin flags' /\ ~live' /\ ~ticking' /\ pkt' = <<>>
  BY Zenon, <1>1, <1>2 DEF Bare
<1>5. Ticking'
  BY Zenon, <1>1, <1>4 DEF Ticking
<1>6. Attached' /\ Detached'
  BY Zenon, <1>1, <1>4 DEF Awaited, Attached, Detached
<1> QED
  BY Zenon, <1>3, <1>5, <1>6 DEF Awaited

LEMMA StopAwaited ==
  ASSUME IInv, Awaited, NEW e \in {"ok", "refused"}, Stop(e)
  PROVE  Awaited'
<1>1. /\ UNCHANGED <<state, owner, flags, pkt, hand, why, job, life, win, ipPc>>
      /\ stopPc' # "none" /\ stops' = stops + 1
  BY Zenon DEF Stop, seg, sock, nx, ip
<1>2. stops' # 0
  BY <1>1 DEF IInv, Typed
<1>3. Ticking'
  BY Zenon, <1>1, <1>2 DEF Ticking, Up
<1>4. \A t \in Tasks : Parking(t)'
  BY Zenon, <1>1 DEF Awaited, Parking, pc
<1>5. Attached' /\ Detached'
  BY Zenon, <1>1 DEF Awaited, Attached, Detached, Up
<1> QED
  BY Zenon, <1>3, <1>4, <1>5 DEF Awaited

LEMMA StopStepAwaited ==
  ASSUME IInv, Awaited, StopStep
  PROVE  Awaited'
<1> USE DEF seg
<1>1. /\ UNCHANGED <<state, owner, hand, why, job, win, ipPc, stops>> /\ stopPc # "none"
  BY Zenon DEF StopStep, StopTimer, StopHandler, StopList, StopLeave, Stopped, ip
<1>2. (\A t \in Tasks : ~Busy(t)) /\ stops # 0
  BY Zenon, <1>1 DEF IInv, Stopping, Awaited, Ticking
<1>3. stopPc' = "none" => ~running'
  <2>1. stopPc' = "none" => StopLeave
    BY Zenon DEF StopStep, StopTimer, StopHandler, StopList, Stopped
  <2>2. StopLeave => ~running /\ running' = running
    BY Zenon DEF StopLeave, Stopped, IInv, Stopping
  <2> QED
    BY Zenon, <2>1, <2>2
<1>4. Ticking' /\ ~Up'
  BY Zenon, <1>1, <1>2, <1>3 DEF Ticking, Up
<1>5. \A t \in Tasks : Parking(t)'
  BY Zenon, <1>1, <1>2 DEF Parking, Busy, pc
<1>6. \/ UNCHANGED <<flags, pkt, life>>
      \/ UNCHANGED <<pkt, life>> /\ flags' = flags \ {"LINKED"}
      \/ /\ pkt' = <<>> /\ life' = life /\ state = "IDLE"
         /\ flags' = flags \ {"STALLED", "TICK", "FIN", "KICK"}
      \/ pkt' = <<>> /\ life' = "freed" /\ flags' = flags
  <2>1. CASE StopTimer \/ StopHandler \/ StopList
    BY Zenon, <2>1 DEF StopTimer, StopHandler, StopList
  <2>2. CASE StopLeave
    <3>1. entered = "ok" => pkt = <<>>
      BY Zenon, <2>2 DEF StopLeave, Stopped, IInv, Stopping
    <3> QED
      BY Zenon, <2>2, <3>1 DEF StopLeave
  <2> QED
    BY Zenon, <2>1, <2>2 DEF StopStep
<1>7. CASE UNCHANGED <<flags, pkt, life>>
  BY Zenon, <1>1, <1>4, <1>5, <1>7 DEF Awaited, Attached, Detached
<1>8. CASE UNCHANGED <<pkt, life>> /\ flags' = flags \ {"LINKED"}
  <2>1. /\ \A f \in {"STALLED", "TICK", "KICK"} : f \in flags' <=> f \in flags
        /\ "LINKED" \notin flags'
    BY Zenon, <1>8
  <2>2. Attached'
    BY Zenon, <1>1, <1>4, <1>8, <2>1 DEF Awaited, Attached
  <2>3. Detached'
    BY Zenon, <1>1, <1>8, <2>1 DEF Awaited, Detached
  <2> QED
    BY Zenon, <1>4, <1>5, <2>2, <2>3 DEF Awaited
<1>9. CASE /\ pkt' = <<>> /\ life' = life /\ state = "IDLE"
           /\ flags' = flags \ {"STALLED", "TICK", "FIN", "KICK"}
  <2>1. Attached'
    BY Zenon, <1>1, <1>9 DEF Attached
  <2>2. \A a \in Actors : hand[a] = <<>>
    BY Zenon, <1>9, NoHands
  <2>3. Detached'
    BY Zenon, <1>1, <1>9, <2>2 DEF Awaited, Detached
  <2> QED
    BY Zenon, <1>4, <1>5, <2>1, <2>3 DEF Awaited
<1>10. CASE pkt' = <<>> /\ life' = "freed" /\ flags' = flags
  BY Zenon, <1>1, <1>4, <1>5, <1>10 DEF Awaited, Attached, Detached
<1> QED
  BY Zenon, <1>6, <1>7, <1>8, <1>9, <1>10

LEMMA NextAwaited ==
  ASSUME IInv, Awaited, [Next]_vars, ~Breaks, ~Reopens
  PROVE  Awaited'
<1>1. ASSUME NEW t \in Tasks, Calls(t) PROVE Awaited'
  <2>1. CASE Moving(t)
    BY Zenon, <2>1, MovingAwaited
  <2>2. ASSUME NEW n \in 1..Cap, FastTake(t, n) PROVE Awaited'
    BY Zenon, <2>2, FastAwaited
  <2>3. ASSUME NEW how \in {"close", "linger", "abort"}, Close(t, how) PROVE Awaited'
    BY Zenon, <2>3, ClosesAwaited DEF Close
  <2>4. CASE Sweep(t)
    BY Zenon, <2>4, SweepAwaited
  <2> QED
    BY Zenon, <1>1, <2>1, <2>2, <2>3, <2>4 DEF Calls, Moving
<1>2. ASSUME NEW t \in Tasks, GiveUp(t) \/ Steps(t) PROVE Awaited'
  <2>1. CASE Moving(t)
    BY Zenon, <2>1, MovingAwaited
  <2>2. CASE Worked(t)
    BY Zenon, <2>2, WorkGives, GivesAwaited DEF IInv
  <2>3. CASE Destroy(t)
    BY Zenon, <2>3, ClosesAwaited DEF Destroy, Busy
  <2>4. CASE FastDone(t) \/ FastKick(t) \/ Claim(t) \/ Give(t) \/ DropSegment(t)
    BY Zenon, <2>4, FastAwaited, FastKickAwaited, ClaimAwaited, GiveAwaited, DropAwaited
  <2> QED
    BY Zenon, <1>2, <2>1, <2>2, <2>3, <2>4 DEF Steps, Moving, Worked
<1>3. CASE Pass \/ Tick \/ Reset \/ \E w \in Windows : WindowOpens(w)
  BY Zenon, <1>3, WakeAwaited, PassTakeAwaited, PassSendAwaited, PassGiveAwaited, SettleAwaited,
     ResetAwaited, WindowAwaited DEF Pass
<1>4. CASE Start \/ (\E e \in {"ok", "refused"} : Stop(e)) \/ StopStep
  BY Zenon, <1>4, StartAwaited, StopAwaited, StopStepAwaited
<1>5. CASE UNCHANGED vars
  BY Zenon, <1>5, WakeAwaited
<1> QED
  BY Zenon, <1>1, <1>2, <1>3, <1>4, <1>5 DEF Next

LEMMA InitAwaited ==
  ASSUME Init
  PROVE  Awaited
<1>1. \A t \in Tasks : pc(t) = "idle" /\ ~Busy(t)
  BY Zenon, IsIdle DEF Init, pc, Busy
<1>2. Ticking
  BY Zenon, <1>1 DEF Init, Ticking, Bare, Up
<1>3. Attached /\ Detached
  BY Zenon DEF Init, Attached, Detached
<1>4. \A t \in Tasks : Parking(t)
  BY Zenon, <1>1 DEF Parking
<1> QED
  BY Zenon, <1>2, <1>3, <1>4 DEF Awaited

(* No wake-up is lost between a claim and the notify that comes while the  *)
(* segment is detached: what bsd_cork_unclaim() links has a pass, a tick   *)
(* that runs or a window too small coming for it, whoever gave it back.    *)
(* Not so if a break ends bsd_cork_flush_wait(), which leaves a segment    *)
(* the window has room for waiting for the window (Breaks), nor after a    *)
(* refused stop and a new start, which leaves its tick off (Reopens).      *)
THEOREM NoSegmentStranded ==
  ASSUME ~Breaks, ~Reopens
  PROVE  Spec => []NotStranded
<1>1. Init => Awaited
  BY Zenon, InitAwaited
<1>2. IInv /\ Awaited /\ [Next]_vars => Awaited'
  BY Zenon, NextAwaited
<1>3. Awaited => NotStranded
  <2> SUFFICES ASSUME Awaited, pkt # <<>>, state = "IDLE", running, stopPc = "none"
               PROVE  /\ "LINKED" \in flags
                      /\ \/ event \/ ipPc = "call"
                         \/ "TICK" \in flags /\ live /\ ticking /\ tickIp
                         \/ "STALLED" \in flags /\ win < Len(pkt) /\ life = "open"
    BY Zenon DEF NotStranded
  <2>1. Up /\ Cover
    BY Zenon DEF Awaited, Attached, Up
  <2>2. "TICK" \in flags => live /\ ticking /\ tickIp
    BY Zenon, <2>1 DEF Awaited, Ticking, Cover
  <2> QED
    BY Zenon, <2>1, <2>2 DEF Awaited, Attached, Cover
<1> QED
  BY <1>1, <1>2, <1>3, Invariance, PTL DEF Spec
=============================================================================
