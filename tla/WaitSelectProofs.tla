-------------------------- MODULE WaitSelectProofs --------------------------
(***************************************************************************)
(* What a library base's waits never do, for every timeout, mask, slice    *)
(* and size of the tick word: sleep through an event, rely on a timer that *)
(* will not be heard, swallow a signal of the caller's, or time out off    *)
(* their time.                                                             *)
(*                                                                         *)
(* None of the invariants is inductive.  A wake-up is lost before          *)
(* the sleep begins, between the poll that found nothing and the Wait(), so*)
(* Listening says which places those are and what must hold there while    *)
(* the callback is half way.  A request is relied on across the turns of   *)
(* WaitSelect()'s loop in which nobody waits for it.  A timeout's story is *)
(* told further down, with the distances it is about.                      *)
(***************************************************************************)
EXTENDS WaitSelect, TLAPS

Signals == User \cup {"event", "timer"}

Places == {"idle", "pend", "poll", "arm", "send", "wait", "broken", "check",
           "last", "slices", "slice", "park", "reenter", "until", "sleep",
           "awake", "ret"}

Calls == {"none", "select", "wait", "poll", "pause"}

Answers == {"none", "ready", "signals", "timeout", "eintr", "error"}

(* Values and places of the variables the two invariants speak of; the     *)
(* distances in time do not matter to them.                                *)
Locals ==
  [pc : Places, call : Calls, tmo : Int, umask : SUBSET User, wanted : Int,
   span : Int, running : BOOLEAN, terminal : BOOLEAN, got : SUBSET User,
   res : Answers, rem : Int, ago : Int, recv : SUBSET Signals]

TypeOK ==
  /\ sig \subseteq Signals
  /\ ready \in BOOLEAN
  /\ cb \in [pc : {"idle", "look", "signal"}, sigs : SUBSET {"event"}]
  /\ opened \in BOOLEAN /\ armed \in BOOLEAN /\ due \in Int
  /\ req \in {"back", "out", "reply"} /\ fireIn \in Int
  /\ app \in Locals

(* Between the poll that found nothing and the end of the sleep.           *)
Listening ==
  \/ app.pc \in {"arm", "wait"}
  \/ app.pc = "send" /\ app.call = "select" /\ ~app.running
  \/ app.pc \in {"until", "send", "park"} /\ app.call = "wait"

(* What came meanwhile is on its way to the opener.                        *)
Coming ==
  \/ cb.pc = "look"
  \/ cb.pc = "signal" /\ "event" \in cb.sigs \cup sig
  \/ cb.pc = "idle" /\ "event" \in sig

EventsHeard == Listening /\ ready => Coming

(* Places from which the request is relied on.                             *)
Relying ==
  \/ app.pc \in {"pend", "poll", "wait", "park"} /\ app.running
  \/ app.pc = "sleep"

RequestHeard ==
  /\ armed <=> req # "back"
  /\ Relying => req = "out" \/ (req = "reply" /\ "timer" \in sig)
  /\ app.pc = "check" => app.running /\ req # "back"
  /\ app.pc = "arm" => ~app.running

(* Each place belongs to one of the calls.                                 *)
PlaceOfCall ==
  /\ app.pc \in {"pend", "poll", "arm", "wait", "broken", "check", "last"}
       => app.call = "select"
  /\ app.pc \in {"slices", "slice", "park", "reenter"}
       => app.call \in {"wait", "poll"}
  /\ app.pc \in {"sleep", "awake"} => app.call = "pause"
  /\ app.pc = "until" => app.call \in {"wait", "poll", "pause"}
  /\ app.pc = "send" => app.call # "none"

IInv == TypeOK /\ PlaceOfCall /\ EventsHeard /\ RequestHeard

----------------------------------------------------------------------------
(* Distances stay integers.                                                *)
LEMMA SignedInt == \A d \in Int : Signed(d) \in Int
BY WaitSelectAssumption DEF Signed

LEMMA NearerInt == \A d \in Int : Nearer(d) \in Int
BY WaitSelectAssumption DEF Nearer, Never

LEMMA TicksInt == \A n \in Int : Ticks(n) \in Int
BY WaitSelectAssumption DEF Ticks

(* A call's answer, once the request is where armed says it is.            *)
LEMMA Answered ==
  ASSUME IInv, NEW res \in Answers, Answer(res),
         sig' \subseteq Signals, UNCHANGED sockVars,
         opened' \in BOOLEAN, armed' \in BOOLEAN, due' \in Int,
         req' \in {"back", "out", "reply"}, fireIn' \in Int,
         armed' <=> req' # "back"
  PROVE  IInv'
<1>1. app' \in Locals /\ app'.pc = "ret"
  <2>1. app.tmo \in Int /\ app.got \in SUBSET User
    BY Zenon DEF IInv, TypeOK, Locals
  <2>2. app' = [pc |-> "ret", call |-> "none", tmo |-> app.tmo, umask |-> {},
                wanted |-> -1, span |-> 0, running |-> FALSE, terminal |-> FALSE,
                got |-> app.got, res |-> res, rem |-> 0, ago |-> -1, recv |-> {}]
    BY Zenon DEF Answer, Idle, Never
  <2>3. "ret" \in Places /\ "none" \in Calls
    BY Zenon DEF Places, Calls
  <2> QED
    BY <2>1, <2>2, <2>3 DEF Locals
<1>2. TypeOK'
  <2>1. UNCHANGED ready
    BY Zenon DEF sockVars
  <2>2. ready' \in BOOLEAN
    BY Zenon, <2>1 DEF IInv, TypeOK
  <2> QED
    BY Zenon, <1>1, <2>2 DEF IInv, TypeOK, sockVars
<1> QED
  BY Zenon, <1>1, <1>2 DEF IInv, PlaceOfCall, EventsHeard, Listening, RequestHeard, Relying

(* The same where WaitSelect() leaves, taking a terminal request back.     *)
LEMMA TakenKept ==
  ASSUME TypeOK, RequestHeard, Taken \/ Kept
  PROVE  /\ sig' \subseteq Signals /\ armed' \in BOOLEAN /\ due' \in Int
         /\ req' \in {"back", "out", "reply"} /\ fireIn' \in Int
         /\ armed' <=> req' # "back"
<1>1. CASE Taken
  <2>1. armed' \in BOOLEAN /\ ~armed' /\ req' = "back"
    BY Zenon, <1>1 DEF Taken
  <2> QED
    BY <1>1, <2>1 DEF TypeOK, Taken, Signals, Never
<1>2. CASE Kept
  BY Zenon, <1>2 DEF TypeOK, RequestHeard, Kept
<1> QED
  BY Zenon, <1>1, <1>2

LEMMA Left ==
  ASSUME IInv, NEW res \in Answers, Leave(res), UNCHANGED sockVars
  PROVE  IInv'
<1>1. Answer(res) /\ (Taken \/ Kept) /\ UNCHANGED opened
  BY Zenon DEF Leave
<1>2. opened' \in BOOLEAN
  BY Zenon, <1>1 DEF IInv, TypeOK
<1> QED
  BY Zenon, <1>1, <1>2, TakenKept, Answered DEF IInv

----------------------------------------------------------------------------
(* Steps that leave the opener's locals alone.                             *)
LEMMA CallbackStep ==
  ASSUME IInv, Callback \/ Quiet
  PROVE  IInv'
<1> USE DEF Callback, Post, PostLook, PostSignal, Quiet
<1>1. UNCHANGED <<timerVars, app>> /\ sig \subseteq sig'
  BY Zenon
<1>2. TypeOK'
  <2>1. ready' \in BOOLEAN /\ opened' \in BOOLEAN /\ armed' \in BOOLEAN
    <3>1. ready' = ready \/ ready' = TRUE
      BY Zenon
    <3>2. opened' = opened /\ armed' = armed
      BY Zenon DEF timerVars
    <3> QED
      BY Zenon, <3>1, <3>2 DEF IInv, TypeOK
  <2>2. sig' \subseteq Signals
    BY Zenon DEF IInv, TypeOK, Signals
  <2>3. cb' \in [pc : {"idle", "look", "signal"}, sigs : SUBSET {"event"}]
    BY DEF IInv, TypeOK
  <2> QED
    BY Zenon, <1>1, <2>1, <2>2, <2>3 DEF IInv, TypeOK, timerVars
<1>3. PlaceOfCall' /\ RequestHeard'
  BY Zenon, <1>1 DEF IInv, PlaceOfCall, RequestHeard, Relying, timerVars
<1>4. EventsHeard'
  <2>1. CASE Post
    BY Zenon, <2>1 DEF IInv, TypeOK, EventsHeard, Coming
  <2>2. CASE PostLook
    BY Zenon, <2>2 DEF EventsHeard, Coming
  <2>3. CASE PostSignal
    BY Zenon, <2>3 DEF IInv, EventsHeard, Listening, Coming
  <2>4. CASE Quiet
    BY Zenon, <2>4 DEF IInv, PlaceOfCall, EventsHeard, Listening, Inside
  <2> QED
    BY Zenon, <2>1, <2>2, <2>3, <2>4
<1> QED
  BY Zenon, <1>2, <1>3, <1>4 DEF IInv

LEMMA SignalStep ==
  ASSUME IInv, Fire \/ (\E s \in User : Others(s))
  PROVE  IInv'
<1> USE DEF Fire, Others
<1>1. /\ UNCHANGED <<sockVars, opened, armed, due, fireIn, app>>
      /\ sig \subseteq sig' /\ sig' \subseteq Signals
  BY Zenon DEF timerVars, IInv, TypeOK, Signals
<1>2. req' = req \/ (req = "out" /\ req' = "reply" /\ "timer" \in sig')
  BY Zenon DEF timerVars
<1>3. TypeOK'
  <2>1. ready' \in BOOLEAN /\ opened' \in BOOLEAN /\ armed' \in BOOLEAN
    <3>1. ready' = ready /\ opened' = opened /\ armed' = armed
      BY Zenon, <1>1 DEF sockVars
    <3> QED
      BY Zenon, <3>1 DEF IInv, TypeOK
  <2> QED
    BY Zenon, <1>1, <1>2, <2>1 DEF IInv, TypeOK, sockVars
<1>4. PlaceOfCall' /\ EventsHeard'
  BY Zenon, <1>1 DEF IInv, PlaceOfCall, EventsHeard, Listening, Coming, sockVars
<1>5. RequestHeard'
  BY Zenon, <1>1, <1>2 DEF IInv, RequestHeard, Relying
<1> QED
  BY Zenon, <1>3, <1>4, <1>5 DEF IInv

(* The passing of time moves distances only.                               *)
LEMMA ElapseStep ==
  ASSUME IInv, Elapse
  PROVE  IInv'
<1>1. UNCHANGED <<sig, sockVars, opened, armed, req>>
  BY Zenon DEF Elapse
<1>2. app \in Locals /\ due \in Int /\ fireIn \in Int
  BY Zenon DEF IInv, TypeOK
<1>3. /\ app' \in Locals /\ due' \in Int /\ fireIn' \in Int
      /\ app'.pc = app.pc /\ app'.call = app.call /\ app'.running = app.running
  <2>1. fireIn' \in Int
    BY <1>2 DEF Elapse
  <2>2. CASE phase + 1 = U
    <3>1. PICK w \in Int, g \in Int :
            app' = [app EXCEPT !.wanted = w, !.ago = g] /\ due' \in Int
      <4>1. app.wanted \in Int /\ app.ago \in Int
        BY Zenon, <1>2 DEF Locals
      <4>2. Nearer(app.wanted) \in Int /\ Nearer(due) \in Int
        BY Zenon, <1>2, <4>1, NearerInt
      <4>3. (IF app.ago = Never THEN app.ago ELSE (app.ago + 1) % Word) \in Int
        BY <4>1, WaitSelectAssumption
      <4> QED
        BY Zenon, <2>2, <4>2, <4>3 DEF Elapse
    <3> QED
      BY Zenon, <1>2, <2>1, <3>1 DEF Locals
  <2>3. CASE phase + 1 # U
    BY Zenon, <1>2, <2>1, <2>3 DEF Elapse
  <2> QED
    BY Zenon, <2>2, <2>3
<1>4. TypeOK'
  <2>1. ready' \in BOOLEAN /\ opened' \in BOOLEAN /\ armed' \in BOOLEAN
    <3>1. ready' = ready /\ opened' = opened /\ armed' = armed
      BY Zenon, <1>1 DEF sockVars
    <3> QED
      BY Zenon, <3>1 DEF IInv, TypeOK
  <2> QED
    BY Zenon, <1>1, <1>3, <2>1 DEF IInv, TypeOK, sockVars
<1> QED
  BY ZenonT(40), <1>1, <1>3, <1>4
  DEF IInv, PlaceOfCall, EventsHeard, Listening, Coming, RequestHeard, Relying, sockVars

----------------------------------------------------------------------------
(* The opener between its calls.                                           *)
(* A place of the opener at which nothing is relied on yet.                *)
LEMMA Elsewhere ==
  ASSUME TypeOK', PlaceOfCall', armed' <=> req' # "back",
         app'.pc \in {"idle", "broken", "last", "slices", "slice", "reenter",
                      "awake", "ret"}
  PROVE  IInv'
BY Zenon DEF IInv, EventsHeard, Listening, RequestHeard, Relying

LEMMA Fresh ==
  ASSUME NEW p \in Places, NEW c \in Calls, NEW t \in Int, NEW u \in SUBSET User,
         NEW w \in Int, NEW n \in Int
  PROVE  [pc |-> p, call |-> c, tmo |-> t, umask |-> u, wanted |-> w, span |-> 0,
          running |-> FALSE, terminal |-> FALSE, got |-> {}, res |-> "none",
          rem |-> n, ago |-> -1, recv |-> {}] \in Locals
BY DEF Locals, Answers

LEMMA CallerStep ==
  ASSUME IInv, Caller \/ Return
  PROVE  IInv'
<1> USE DEF Caller
<1>1. CASE Return
  <2>1. /\ UNCHANGED <<sig, sockVars, timerVars>> /\ app' = Idle
    BY Zenon, <1>1 DEF Return
  <2>2. TypeOK'
    <3>1. ready' \in BOOLEAN /\ opened' \in BOOLEAN /\ armed' \in BOOLEAN
      <4>1. ready' = ready /\ opened' = opened /\ armed' = armed
        BY Zenon, <2>1 DEF sockVars, timerVars
      <4> QED
        BY Zenon, <4>1 DEF IInv, TypeOK
    <3>2. Idle \in Locals
      BY DEF Locals, Idle, Places, Calls, Answers, Never
    <3> QED
      BY Zenon, <2>1, <3>1, <3>2 DEF IInv, TypeOK, sockVars, timerVars
  <2> QED
    BY Zenon, <2>1, <2>2, Elsewhere DEF Idle, PlaceOfCall, IInv, RequestHeard, timerVars
<1>2. CASE Recv \/ Collect \/ Close
  <2>1. /\ app.pc = "idle" /\ UNCHANGED app
        /\ UNCHANGED cb /\ sig' \subseteq sig
        /\ UNCHANGED timerVars \/ Close
        /\ ready' \in {ready, FALSE}
    BY Zenon, <1>2 DEF Recv, Collect, Close, sockVars
  <2>2. TypeOK' /\ (armed' <=> req' # "back")
    <3>1. ready' \in BOOLEAN
      BY Zenon, <2>1 DEF IInv, TypeOK
    <3>2. CASE UNCHANGED timerVars
      <4>1. opened' \in BOOLEAN /\ armed' \in BOOLEAN
        <5>1. opened' = opened /\ armed' = armed
          BY Zenon, <3>2 DEF timerVars
        <5> QED
          BY Zenon, <5>1 DEF IInv, TypeOK
      <4> QED
        BY Zenon, <2>1, <3>1, <3>2, <4>1 DEF IInv, TypeOK, RequestHeard, timerVars
    <3>3. CASE Close
      <4>1. opened' \in BOOLEAN /\ armed' \in BOOLEAN
        BY Zenon, <3>3 DEF Close
      <4> QED
        BY <2>1, <3>1, <3>3, <4>1 DEF IInv, TypeOK, Close, Never
    <3> QED
      BY Zenon, <2>1, <3>2, <3>3
  <2> QED
    BY Zenon, <2>1, <2>2, Elsewhere DEF PlaceOfCall
<1>3. ASSUME NEW l \in Locals, Begin(l),
             \/ l.pc = "pend" /\ l.call = "select"
             \/ l.pc = "slices" /\ l.call \in {"wait", "poll"}
             \/ l.pc = "until" /\ l.call = "pause",
             ~l.running
      PROVE  IInv'
  <2>1. UNCHANGED <<sig, sockVars, timerVars>> /\ app' = l
    BY Zenon, <1>3 DEF Begin
  <2>2. TypeOK'
    <3>1. ready' \in BOOLEAN /\ opened' \in BOOLEAN /\ armed' \in BOOLEAN
      <4>1. ready' = ready /\ opened' = opened /\ armed' = armed
        BY Zenon, <2>1 DEF sockVars, timerVars
      <4> QED
        BY Zenon, <4>1 DEF IInv, TypeOK
    <3> QED
      BY Zenon, <2>1, <3>1 DEF IInv, TypeOK, sockVars, timerVars
  <2> QED
    BY Zenon, <1>3, <2>1, <2>2
    DEF IInv, PlaceOfCall, EventsHeard, Listening, RequestHeard, Relying, timerVars
<1>4. CASE \E t \in Timeouts \cup {Never}, u \in Masks : CallSelect(t, u)
  <2>1. PICK t \in Timeouts \cup {Never}, u \in Masks : CallSelect(t, u)
    BY Zenon, <1>4
  <2>2. t \in Int /\ u \in SUBSET User
    BY WaitSelectAssumption DEF Never
  <2>3. PICK l : /\ Begin(l)
                 /\ l = [Idle EXCEPT !.pc = "pend", !.call = "select",
                                     !.tmo = t, !.umask = u]
    BY Zenon, <2>1 DEF CallSelect
  <2>4. l = [pc |-> "pend", call |-> "select", tmo |-> t, umask |-> u, wanted |-> -1,
             span |-> 0, running |-> FALSE, terminal |-> FALSE, got |-> {},
             res |-> "none", rem |-> 0, ago |-> -1, recv |-> {}]
    BY Zenon, <2>3 DEF Idle, Never
  <2>5. "pend" \in Places /\ "select" \in Calls
    BY Zenon DEF Places, Calls
  <2>6. l \in Locals /\ l.pc = "pend" /\ l.call = "select" /\ ~l.running
    BY <2>2, <2>4, <2>5, Fresh
  <2> QED
    BY Zenon, <1>3, <2>3, <2>6
<1>5. CASE \E c \in {"wait", "poll"}, n \in Waits \cup {Never} : CallWait(c, n)
  <2>1. PICK c \in {"wait", "poll"}, n \in Waits \cup {Never} : CallWait(c, n)
    BY Zenon, <1>5
  <2>2. PICK t \in Int : t = (IF n = Never THEN Never ELSE n * U) /\ n \in Int
    BY WaitSelectAssumption DEF Never
  <2>3. PICK l : /\ Begin(l)
                 /\ l = [Idle EXCEPT !.pc = "slices", !.call = c, !.rem = n, !.tmo = t]
    BY Zenon, <2>1, <2>2 DEF CallWait
  <2>4. l = [pc |-> "slices", call |-> c, tmo |-> t, umask |-> {}, wanted |-> -1,
             span |-> 0, running |-> FALSE, terminal |-> FALSE, got |-> {},
             res |-> "none", rem |-> n, ago |-> -1, recv |-> {}]
    BY Zenon, <2>3 DEF Idle, Never
  <2>5. "slices" \in Places /\ c \in Calls
    BY Zenon DEF Places, Calls
  <2>6. l \in Locals /\ l.pc = "slices" /\ l.call = c /\ ~l.running
    BY <2>2, <2>4, <2>5, Fresh
  <2> QED
    BY Zenon, <1>3, <2>3, <2>6
<1>6. CASE \E n \in Waits : CallPause(n)
  <2>1. PICK n \in Waits : CallPause(n)
    BY Zenon, <1>6
  <2>2. PICK t \in Int : t = n * U /\ n \in Int
    BY WaitSelectAssumption
  <2>3. PICK l : /\ Begin(l)
                 /\ l = [Idle EXCEPT !.pc = "until", !.call = "pause", !.tmo = t,
                                     !.wanted = n]
    BY Zenon, <2>1, <2>2 DEF CallPause
  <2>4. l = [pc |-> "until", call |-> "pause", tmo |-> t, umask |-> {}, wanted |-> n,
             span |-> 0, running |-> FALSE, terminal |-> FALSE, got |-> {},
             res |-> "none", rem |-> 0, ago |-> -1, recv |-> {}]
    BY Zenon, <2>3 DEF Idle, Never
  <2>5. "until" \in Places /\ "pause" \in Calls
    BY Zenon DEF Places, Calls
  <2>6. l \in Locals /\ l.pc = "until" /\ l.call = "pause" /\ ~l.running
    BY <2>2, <2>4, <2>5, Fresh
  <2> QED
    BY Zenon, <1>3, <2>3, <2>6
<1> QED
  BY Zenon, <1>1, <1>2, <1>4, <1>5, <1>6

----------------------------------------------------------------------------
(* WaitSelect()                                                            *)
LEMMA PendStep ==
  ASSUME IInv, Pend
  PROVE  IInv'
<1>1. app.pc = "pend" /\ UNCHANGED sockVars
  BY Zenon DEF Pend
<1>2. CASE sig \cap Break # {}
  BY Zenon, <1>1, <1>2, Left DEF Pend, Answers
<1>3. CASE sig \cap Break = {}
  <2>1. /\ app' = [app EXCEPT !.pc = "poll", !.got = @ \cup (sig \cap app.umask)]
        /\ sig' = sig \ (app.umask \cup {"event"})
        /\ UNCHANGED timerVars
    BY Zenon, <1>3 DEF Pend
  <2>2. app \in Locals /\ app.umask \subseteq User /\ app.got \subseteq User
    BY Zenon DEF IInv, TypeOK, Locals
  <2>3. /\ app' \in Locals /\ app'.pc = "poll"
        /\ app'.call = app.call /\ app'.running = app.running
    BY Zenon, <2>1, <2>2 DEF Locals, Places
  <2>4. TypeOK'
    <3>1. ready' \in BOOLEAN /\ opened' \in BOOLEAN /\ armed' \in BOOLEAN
      <4>1. ready' = ready /\ opened' = opened /\ armed' = armed
        BY Zenon, <1>1, <2>1 DEF sockVars, timerVars
      <4> QED
        BY Zenon, <4>1 DEF IInv, TypeOK
    <3> QED
      BY Zenon, <1>1, <2>1, <2>3, <3>1 DEF IInv, TypeOK, sockVars, timerVars
  <2>5. "timer" \in sig => "timer" \in sig'
    BY Zenon, <2>1, <2>2 DEF User
  <2> QED
    BY Zenon, <1>1, <2>1, <2>3, <2>4, <2>5
    DEF IInv, PlaceOfCall, EventsHeard, Listening, RequestHeard, Relying, timerVars
<1> QED
  BY Zenon, <1>2, <1>3

LEMMA PollStep ==
  ASSUME IInv, Poll
  PROVE  IInv'
<1>1. app.pc = "poll" /\ UNCHANGED sockVars
  BY Zenon DEF Poll
<1>2. CASE \E res \in Answers : Leave(res)
  BY Zenon, <1>1, <1>2, Left
<1>3. CASE /\ ~ready /\ app.tmo # 0
           /\ Goto(IF app.tmo # Never /\ ~app.running THEN "arm" ELSE "wait")
           /\ UNCHANGED <<sig, timerVars>>
  <2>1. app \in Locals
    BY Zenon DEF IInv, TypeOK
  <2>2. /\ app' \in Locals /\ app'.pc \in {"arm", "wait"}
        /\ app'.call = app.call /\ app'.running = app.running
        /\ app'.pc = "arm" => ~app.running
    <3>1. CASE app.tmo # Never /\ ~app.running
      BY Zenon, <1>3, <2>1, <3>1 DEF Goto, Locals, Places
    <3>2. CASE ~(app.tmo # Never /\ ~app.running)
      BY Zenon, <1>3, <2>1, <3>2 DEF Goto, Locals, Places
    <3> QED
      BY Zenon, <3>1, <3>2
  <2>3. TypeOK' /\ ~ready'
    <3>1. ready' \in BOOLEAN /\ opened' \in BOOLEAN /\ armed' \in BOOLEAN /\ ~ready'
      <4>1. ready' = ready /\ opened' = opened /\ armed' = armed
        BY Zenon, <1>1, <1>3 DEF sockVars, timerVars
      <4> QED
        BY Zenon, <1>3, <4>1 DEF IInv, TypeOK
    <3> QED
      BY Zenon, <1>1, <1>3, <2>2, <3>1 DEF IInv, TypeOK, sockVars, timerVars
  <2> QED
    BY Zenon, <1>1, <1>3, <2>2, <2>3
    DEF IInv, PlaceOfCall, EventsHeard, RequestHeard, Relying, timerVars
<1> QED
  BY Zenon, <1>2, <1>3 DEF Poll, Answers

(* bsd_timer_reap() leaves a request that is out, or none.                 *)
LEMMA Reaped ==
  ASSUME IInv, NEW late, Reap(late)
  PROVE  /\ sig \subseteq sig' /\ sig' \subseteq Signals
         /\ armed' \in BOOLEAN /\ due' \in Int /\ fireIn' \in Int
         /\ req' \in {"back", "out", "reply"}
         /\ armed' <=> req' # "back"
         /\ armed' => req' = "out"
<1>1. CASE armed /\ (req = "reply" \/ late)
  <2>1. Taken
    BY Zenon, <1>1 DEF Reap
  <2> QED
    BY Zenon, <2>1, TakenKept DEF IInv, Taken
<1>2. CASE ~(armed /\ (req = "reply" \/ late))
  <2>1. Kept
    BY Zenon, <1>2 DEF Reap
  <2> QED
    BY Zenon, <1>2, <2>1, TakenKept DEF IInv, TypeOK, Kept
<1> QED
  BY Zenon, <1>1, <1>2

LEMMA SelectArmStep ==
  ASSUME IInv, SelectArm
  PROVE  IInv'
<1>1. app.pc = "arm" /\ UNCHANGED sockVars /\ opened' = TRUE
  BY Zenon DEF SelectArm
<1>2. app \in Locals /\ app.tmo \in Int
  BY Zenon DEF IInv, TypeOK, Locals
<1>3. PICK late, terminal \in BOOLEAN, w \in Int, n \in Int :
        /\ Reap(late)
        /\ app' = [app EXCEPT !.pc = IF armed' THEN "wait" ELSE "send",
                              !.running = armed', !.terminal = terminal,
                              !.span = n, !.wanted = w]
  <2> DEFINE want == Ticks(app.tmo)
             t == want >= LongMax
             n == IF armed' THEN 0 ELSE app.tmo
             w == IF t THEN Never ELSE want
  <2>1. t \in BOOLEAN
    <3>1. want \in Int /\ LongMax \in Int
      BY <1>2, TicksInt, WaitSelectAssumption DEF LongMax
    <3> QED
      BY <3>1, SMT
  <2>2. w \in Int /\ n \in Int
    BY <1>2, TicksInt DEF Never
  <2> QED
    BY Zenon, <2>1, <2>2 DEF SelectArm
<1>4. armed' \in BOOLEAN
  BY Zenon, <1>3, Reaped
<1>5. /\ app' \in Locals /\ app'.call = app.call /\ app'.running = armed'
      /\ app'.pc = IF armed' THEN "wait" ELSE "send"
  BY ZenonT(40), <1>2, <1>3, <1>4 DEF Locals, Places
<1>6. TypeOK'
  <2>1. ready' \in BOOLEAN /\ opened' \in BOOLEAN
    <3>1. ready' = ready
      BY Zenon, <1>1 DEF sockVars
    <3> QED
      BY Zenon, <1>1, <3>1 DEF IInv, TypeOK
  <2> QED
    BY Zenon, <1>1, <1>3, <1>5, <2>1, Reaped DEF IInv, TypeOK, sockVars
<1>7. EventsHeard'
  BY Zenon, <1>1, <1>3, Reaped DEF IInv, EventsHeard, Listening, Coming, sockVars
<1>8. PlaceOfCall' /\ RequestHeard'
  BY <1>1, <1>3, <1>5, Reaped DEF IInv, PlaceOfCall, RequestHeard, Relying
<1> QED
  BY Zenon, <1>6, <1>7, <1>8 DEF IInv

LEMMA ArmFailsStep ==
  ASSUME IInv, ArmFails
  PROVE  IInv'
<1>1. Answer("error") /\ UNCHANGED <<sig, sockVars, timerVars>>
  BY Zenon DEF ArmFails
<1>2. opened' \in BOOLEAN /\ armed' \in BOOLEAN
  <2>1. opened' = opened /\ armed' = armed
    BY Zenon, <1>1 DEF timerVars
  <2> QED
    BY Zenon, <2>1 DEF IInv, TypeOK
<1> QED
  BY Zenon, <1>1, <1>2, Answered DEF IInv, TypeOK, RequestHeard, Answers, timerVars

(* Types of what an action leaves alone, apart from the Boolean ones that  *)
(* it changes.                                                             *)
LEMMA ReadyKept ==
  ASSUME TypeOK, UNCHANGED sockVars
  PROVE  /\ ready' \in BOOLEAN /\ ready' = ready /\ cb' = cb
         /\ cb' \in [pc : {"idle", "look", "signal"}, sigs : SUBSET {"event"}]
<1>1. ready' = ready /\ cb' = cb
  BY Zenon DEF sockVars
<1>2. ready' \in BOOLEAN
  BY Zenon, <1>1 DEF TypeOK
<1> QED
  BY Zenon, <1>1, <1>2 DEF TypeOK

LEMMA TimerKept ==
  ASSUME TypeOK, RequestHeard, UNCHANGED timerVars
  PROVE  /\ opened' \in BOOLEAN /\ armed' \in BOOLEAN /\ due' \in Int
         /\ req' \in {"back", "out", "reply"} /\ fireIn' \in Int
         /\ req' = req /\ (armed' <=> req' # "back")
<1>1. opened' = opened /\ armed' = armed
  BY Zenon DEF timerVars
<1>2. opened' \in BOOLEAN /\ armed' \in BOOLEAN
  BY Zenon, <1>1 DEF TypeOK
<1> QED
  BY Zenon, <1>2 DEF TypeOK, RequestHeard, timerVars

LEMMA SendStep ==
  ASSUME IInv, Send
  PROVE  IInv'
<1>1. /\ app.pc = "send" /\ UNCHANGED sockVars
      /\ sig' = sig \ {"timer"} /\ req' = "out" /\ armed' = TRUE /\ opened' = opened
  BY Zenon DEF Send, Arm
<1>2. app \in Locals /\ app.span \in Int /\ app.wanted \in Int
  BY Zenon DEF IInv, TypeOK, Locals
<1>3. fireIn' \in Int /\ due' \in Int
  BY <1>2 DEF Send, Arm
<1>4. PICK p \in {"sleep", "park", "pend", "wait"}, w \in Int, b \in BOOLEAN :
        /\ app' = [app EXCEPT !.running = b, !.span = 0, !.wanted = w, !.pc = p]
        /\ b
        /\ p = "sleep" => app.call = "pause"
        /\ p = "park" => app.call \in {"wait", "poll"}
        /\ p = "pend" => app.call = "select"
        /\ p = "wait" => app.call = "select" /\ ~app.running
  <2>0. app.call \in {"select", "wait", "poll", "pause"}
    BY Zenon, <1>1, <1>2 DEF IInv, PlaceOfCall, Locals, Calls
  <2> DEFINE pp == CASE app.call = "pause" -> "sleep"
                     [] app.call \in {"wait", "poll"} -> "park"
                     [] app.call = "select" /\ app.running -> "pend"
                     [] OTHER -> "wait"
             ww == IF app.call \in {"wait", "poll"} THEN Never ELSE app.wanted
  <2>1. app' = [app EXCEPT !.running = TRUE, !.span = 0, !.wanted = ww, !.pc = pp]
    BY Zenon DEF Send
  <2>2. ww \in Int
    BY <1>2 DEF Never
  <2>3. /\ pp \in {"sleep", "park", "pend", "wait"}
        /\ pp = "sleep" => app.call = "pause"
        /\ pp = "park" => app.call \in {"wait", "poll"}
        /\ pp = "pend" => app.call = "select"
        /\ pp = "wait" => app.call = "select" /\ ~app.running
    <3>1. CASE app.call = "pause"
      BY Zenon, <3>1
    <3>2. CASE app.call \in {"wait", "poll"}
      BY Zenon, <3>2
    <3>3. CASE app.call = "select" /\ app.running
      BY Zenon, <3>3
    <3>4. CASE app.call = "select" /\ ~app.running
      BY Zenon, <3>4
    <3> QED
      BY Zenon, <2>0, <3>1, <3>2, <3>3, <3>4
  <2> HIDE DEF pp, ww
  <2> QED
    BY Zenon, <2>1, <2>2, <2>3
<1>5. /\ app' \in Locals /\ app'.pc = p /\ app'.call = app.call /\ app'.running = b
  <2>1. /\ p \in Places /\ w \in Int /\ b \in BOOLEAN /\ 0 \in Int
        /\ app' = [app EXCEPT !.running = b, !.span = 0, !.wanted = w, !.pc = p]
    BY <1>4 DEF Places
  <2> QED
    BY ONLY Zenon, <1>2, <2>1 DEF Locals
<1>6. TypeOK'
  <2>1. opened' \in BOOLEAN /\ armed' \in BOOLEAN
    BY Zenon, <1>1 DEF IInv, TypeOK
  <2> QED
    BY Zenon, <1>1, <1>3, <1>5, <2>1, ReadyKept DEF IInv, TypeOK
<1>7. EventsHeard'
  BY Zenon, <1>1, <1>4, <1>5, ReadyKept DEF IInv, EventsHeard, Listening, Coming
<1> QED
  BY Zenon, <1>1, <1>4, <1>5, <1>6, <1>7 DEF IInv, PlaceOfCall, RequestHeard, Relying

LEMMA SelectWaitStep ==
  ASSUME IInv, SelectWait
  PROVE  IInv'
<1>1. app.pc = "wait" /\ UNCHANGED <<sockVars, timerVars>>
  BY Zenon DEF SelectWait
<1>2. app \in Locals /\ app.got \subseteq User /\ app.umask \subseteq User
  BY Zenon DEF IInv, TypeOK, Locals
<1>3. PICK r : /\ r = Received(Mask) /\ sig' = (sig \ r) \cup (r \cap Break)
               /\ app' = [app EXCEPT !.got = @ \cup (r \cap app.umask),
                            !.pc = IF r \cap Break # {} THEN "broken"
                                   ELSE IF "timer" \in r THEN "check" ELSE "pend"]
  BY Zenon DEF SelectWait
<1>4. PICK p \in {"broken", "check", "pend"}, g \in SUBSET User :
        /\ app' = [app EXCEPT !.got = g, !.pc = p]
        /\ p = "check" => "timer" \in r
        /\ p = "pend" => "timer" \notin r
  <2> DEFINE pp == IF r \cap Break # {} THEN "broken"
                   ELSE IF "timer" \in r THEN "check" ELSE "pend"
             gg == app.got \cup (r \cap app.umask)
  <2>1. app' = [app EXCEPT !.got = gg, !.pc = pp]
    BY Zenon, <1>3
  <2>2. gg \in SUBSET User
    BY Zenon, <1>2
  <2>3. /\ pp \in {"broken", "check", "pend"}
        /\ pp = "check" => "timer" \in r
        /\ pp = "pend" => "timer" \notin r
    BY Zenon
  <2> HIDE DEF pp, gg
  <2> QED
    BY Zenon, <2>1, <2>2, <2>3
<1>5. /\ app' \in Locals /\ app'.pc = p /\ app'.call = app.call
      /\ app'.running = app.running
  BY Zenon, <1>2, <1>4 DEF Locals, Places
<1>6. "timer" \in r => app.running
  BY Zenon, <1>1, <1>2, <1>3 DEF Received, Mask, Break, User
<1>7. "timer" \notin r => ("timer" \in sig => "timer" \in sig')
  BY Zenon, <1>3
<1>8. TypeOK'
  <2>1. sig' \subseteq Signals
    BY Zenon, <1>3 DEF IInv, TypeOK, Break, Signals, User
  <2> QED
    BY Zenon, <1>1, <1>5, <2>1, ReadyKept, TimerKept DEF IInv, TypeOK
<1>9. EventsHeard'
  BY Zenon, <1>5 DEF EventsHeard, Listening
<1>10. RequestHeard'
  BY Zenon, <1>1, <1>4, <1>5, <1>6, <1>7, TimerKept DEF IInv, RequestHeard, Relying
<1> QED
  BY Zenon, <1>1, <1>5, <1>8, <1>9, <1>10 DEF IInv, PlaceOfCall

LEMMA SelectEndStep ==
  ASSUME IInv, SelectBroken \/ SelectLast
  PROVE  IInv'
<1>1. UNCHANGED sockVars /\ \E res \in Answers : Leave(res)
  BY Zenon DEF SelectBroken, SelectLast, Answers
<1> QED
  BY Zenon, <1>1, Left

LEMMA SelectCheckStep ==
  ASSUME IInv, SelectCheck
  PROVE  IInv'
<1>1. app.pc = "check" /\ UNCHANGED sockVars
  BY Zenon DEF SelectCheck
<1>2. app \in Locals /\ app.wanted \in Int
  BY Zenon DEF IInv, TypeOK, Locals
<1>3. app.running /\ req # "back" /\ app.call = "select"
  BY Zenon, <1>1 DEF IInv, RequestHeard, PlaceOfCall
<1>4. CASE req # "reply"
  <2>1. Goto("pend") /\ UNCHANGED <<sig, timerVars>>
    BY Zenon, <1>4 DEF SelectCheck
  <2>2. /\ app' \in Locals /\ app'.pc = "pend" /\ app'.call = app.call
        /\ app'.running = app.running
    BY Zenon, <1>2, <2>1 DEF Goto, Locals, Places
  <2>3. TypeOK'
    BY Zenon, <1>1, <2>1, <2>2, ReadyKept, TimerKept DEF IInv, TypeOK
  <2>4. req' = "out"
    BY Zenon, <1>3, <1>4, <2>1, TimerKept DEF IInv, TypeOK
  <2> QED
    BY Zenon, <1>3, <2>1, <2>2, <2>3, <2>4, TimerKept
    DEF IInv, PlaceOfCall, EventsHeard, Listening, RequestHeard, Relying
<1>5. CASE req = "reply"
  <2>1. /\ armed' = FALSE /\ due' = Never /\ req' = "back" /\ UNCHANGED <<opened, fireIn>>
        /\ sig' \subseteq sig
        /\ \/ app' = [app EXCEPT !.pc = "send", !.span = Signed(app.wanted) * U]
           \/ app' = [app EXCEPT !.pc = "last", !.running = FALSE]
    BY Zenon, <1>5 DEF SelectCheck
  <2>2. Signed(app.wanted) * U \in Int
    BY <1>2, SignedInt, WaitSelectAssumption
  <2>3. /\ app' \in Locals /\ app'.call = app.call
        /\ app'.pc = "last" \/ (app'.pc = "send" /\ app'.running = app.running)
    <3>1. CASE app' = [app EXCEPT !.pc = "send", !.span = Signed(app.wanted) * U]
      <4>1. PICK n \in Int : app' = [app EXCEPT !.pc = "send", !.span = n]
        BY Zenon, <2>2, <3>1
      <4> QED
        BY Zenon, <1>2, <4>1 DEF Locals, Places
    <3>2. CASE app' = [app EXCEPT !.pc = "last", !.running = FALSE]
      <4>1. "last" \in Places
        BY Zenon DEF Places
      <4> QED
        BY ONLY Zenon, <1>2, <3>2, <4>1 DEF Locals
    <3> QED
      BY Zenon, <2>1, <3>1, <3>2
  <2>4. TypeOK'
    <3>1. armed' \in BOOLEAN /\ opened' \in BOOLEAN
      <4>1. opened' = opened
        BY Zenon, <2>1
      <4> QED
        BY Zenon, <2>1, <4>1 DEF IInv, TypeOK
    <3> QED
      BY <1>1, <2>1, <2>3, <3>1, ReadyKept DEF IInv, TypeOK, Never
  <2> QED
    BY Zenon, <1>3, <2>1, <2>3, <2>4
    DEF IInv, PlaceOfCall, EventsHeard, Listening, RequestHeard, Relying
<1> QED
  BY Zenon, <1>4, <1>5

----------------------------------------------------------------------------
(* The blocking calls.                                                     *)
LEMMA SliceTurnStep ==
  ASSUME IInv, SliceTurn
  PROVE  IInv'
<1>1. /\ app.pc = "slices" /\ UNCHANGED <<sockVars, timerVars>>
      /\ sig' \subseteq sig
  BY Zenon DEF SliceTurn
<1>2. /\ app \in Locals /\ app.rem \in Int
      /\ app.call \in {"wait", "poll"}
  BY Zenon, <1>1 DEF IInv, TypeOK, Locals, PlaceOfCall
<1>3. CASE \E res \in Answers : Answer(res)
  BY Zenon, <1>1, <1>3, TimerKept, Answered DEF IInv, TypeOK
<1>4. CASE app' = [app EXCEPT !.pc = "slice", !.ago = 0]
  <2>1. app' \in Locals /\ app'.pc = "slice" /\ app'.call = app.call
    <3>1. "slice" \in Places /\ 0 \in Int
      BY DEF Places
    <3> QED
      BY ONLY Zenon, <1>2, <1>4, <3>1 DEF Locals
  <2>2. TypeOK'
    BY Zenon, <1>1, <2>1, ReadyKept, TimerKept DEF IInv, TypeOK
  <2> QED
    BY Zenon, <1>1, <1>2, <2>1, <2>2, TimerKept, Elsewhere DEF IInv, PlaceOfCall
<1>5. CASE /\ ~ready
           /\ \E b \in BOOLEAN, w \in Int :
                /\ app' = [app EXCEPT !.ago = 0, !.running = b,
                             !.pc = IF b THEN "until" ELSE "park", !.wanted = w]
  <2>1. PICK b \in BOOLEAN, w \in Int :
          app' = [app EXCEPT !.ago = 0, !.running = b,
                     !.pc = IF b THEN "until" ELSE "park", !.wanted = w]
    BY Zenon, <1>5
  <2>2. PICK p \in {"until", "park"} : p = IF b THEN "until" ELSE "park"
    BY Zenon
  <2>3. /\ app' \in Locals /\ app'.pc = p /\ app'.call = app.call /\ app'.running = b
    <3>1. /\ p \in Places /\ 0 \in Int
          /\ app' = [app EXCEPT !.ago = 0, !.running = b, !.pc = p, !.wanted = w]
      BY <2>1, <2>2 DEF Places
    <3> QED
      BY ONLY Zenon, <1>2, <3>1, b \in BOOLEAN, w \in Int DEF Locals
  <2>4. TypeOK' /\ ~ready'
    BY <1>1, <1>5, <2>3, ReadyKept, TimerKept DEF IInv, TypeOK
  <2> QED
    BY Zenon, <1>2, <1>1, <2>2, <2>3, <2>4, TimerKept
    DEF IInv, PlaceOfCall, EventsHeard, RequestHeard, Relying
<1> QED
  <2> DEFINE span == IF app.call = "poll" THEN SliceLen ELSE app.rem
             timed == app.call = "poll" \/ app.tmo # Never
             w == IF timed THEN span ELSE Never
  <2>1. timed \in BOOLEAN /\ w \in Int
    <3>1. timed \in BOOLEAN
      BY Zenon
    <3>2. span \in Int
      BY <1>2, WaitSelectAssumption DEF SliceLen
    <3> QED
      BY <3>1, <3>2 DEF Never
  <2>2. \/ \E res \in Answers : Answer(res)
        \/ app' = [app EXCEPT !.pc = "slice", !.ago = 0]
        \/ ~ready /\ app' = [app EXCEPT !.ago = 0, !.running = timed,
                                 !.pc = IF timed THEN "until" ELSE "park",
                                 !.wanted = w]
    BY Zenon DEF SliceTurn, Answers
  <2> HIDE DEF timed, w
  <2> QED
    BY Zenon, <1>3, <1>4, <1>5, <2>1, <2>2

LEMMA SliceEndStep ==
  ASSUME IInv, SliceEnd
  PROVE  IInv'
<1>1. app.pc = "slice" /\ UNCHANGED <<sig, sockVars, timerVars>>
  BY Zenon DEF SliceEnd
<1>2. app \in Locals /\ app.rem \in Int /\ app.ago \in Int
  BY Zenon DEF IInv, TypeOK, Locals
<1>3. CASE Answer("ready")
  BY Zenon, <1>1, <1>3, TimerKept, Answered DEF IInv, TypeOK, Answers
<1>4. CASE app' = [app EXCEPT !.pc = "slices", !.rem = Spend, !.ago = Never]
  <2>1. Spend \in Int /\ Never \in Int
    BY <1>2 DEF Spend, Never
  <2>2. app' \in Locals /\ app'.pc = "slices" /\ app'.call = app.call
    BY Zenon, <1>2, <1>4, <2>1 DEF Locals, Places
  <2>3. TypeOK'
    BY Zenon, <1>1, <2>2, ReadyKept, TimerKept DEF IInv, TypeOK
  <2> QED
    BY Zenon, <1>1, <2>2, <2>3, TimerKept, Elsewhere DEF IInv, PlaceOfCall
<1> QED
  BY Zenon, <1>3, <1>4 DEF SliceEnd

LEMMA ParkStep ==
  ASSUME IInv, Park
  PROVE  IInv'
<1>1. /\ app.pc \in {"park", "sleep"} /\ UNCHANGED <<sockVars, timerVars>>
      /\ sig' \subseteq sig
  BY Zenon DEF Park
<1>2. app \in Locals
  BY Zenon DEF IInv, TypeOK
<1>3. PICK r \in SUBSET Signals, p \in {"reenter", "awake"} :
        /\ app' = [app EXCEPT !.recv = r, !.pc = p]
        /\ p = IF app.pc = "park" THEN "reenter" ELSE "awake"
  <2> DEFINE rr == Received(Mask)
             pp == IF app.pc = "park" THEN "reenter" ELSE "awake"
  <2>1. app' = [app EXCEPT !.recv = rr, !.pc = pp]
    BY Zenon, <1>2 DEF Park
  <2>2. rr \in SUBSET Signals
    BY Zenon DEF IInv, TypeOK, Received
  <2> HIDE DEF rr
  <2> QED
    BY Zenon, <2>1, <2>2
<1>4. app' \in Locals /\ app'.pc = p /\ app'.call = app.call
  <2>1. p \in Places
    BY Zenon DEF Places
  <2> QED
    BY ONLY Zenon, <1>2, <1>3, <2>1, r \in SUBSET Signals DEF Locals
<1>5. TypeOK'
  BY Zenon, <1>1, <1>4, ReadyKept, TimerKept DEF IInv, TypeOK
<1>6. PlaceOfCall'
  BY Zenon, <1>1, <1>3, <1>4 DEF IInv, PlaceOfCall
<1> QED
  BY Zenon, <1>1, <1>4, <1>5, <1>6, TimerKept, Elsewhere DEF IInv

(* bsd_timer_take(): the request is back, or nothing changes.              *)
LEMMA Took ==
  ASSUME IInv, Take
  PROVE  /\ opened' \in BOOLEAN /\ armed' \in BOOLEAN /\ due' \in Int
         /\ req' \in {"back", "out", "reply"} /\ fireIn' \in Int
         /\ armed' <=> req' # "back"
<1>1. CASE UNCHANGED timerVars
  BY Zenon, <1>1, TimerKept DEF IInv
<1>2. CASE armed' = FALSE /\ due' = Never /\ req' = "back" /\ UNCHANGED <<opened, fireIn>>
  <2>1. opened' \in BOOLEAN /\ armed' \in BOOLEAN
    <3>1. opened' = opened
      BY Zenon, <1>2
    <3> QED
      BY Zenon, <1>2, <3>1 DEF IInv, TypeOK
  <2> QED
    BY <1>2, <2>1 DEF IInv, TypeOK, Never
<1> QED
  BY Zenon, <1>1, <1>2 DEF Take

LEMMA ReenterStep ==
  ASSUME IInv, Reenter
  PROVE  IInv'
<1>1. app.pc = "reenter" /\ UNCHANGED <<sig, sockVars>>
  BY Zenon DEF Reenter
<1>2. app \in Locals /\ app.rem \in Int /\ app.ago \in Int
  BY Zenon DEF IInv, TypeOK, Locals
<1>3. CASE UNCHANGED timerVars /\ \E res \in Answers : Answer(res)
  BY Zenon, <1>1, <1>3, TimerKept, Answered DEF IInv, TypeOK
<1>4. CASE Take /\ app' = [app EXCEPT !.pc = "slices", !.rem = Spend,
                                       !.ago = Never, !.recv = {}]
  <2>1. Spend \in Int /\ Never \in Int /\ "slices" \in Places
    BY <1>2 DEF Spend, Never, Places
  <2>2. app' \in Locals /\ app'.pc = "slices" /\ app'.call = app.call
    BY ONLY Zenon, <1>2, <1>4, <2>1 DEF Locals
  <2>3. TypeOK'
    BY Zenon, <1>1, <1>4, <2>2, ReadyKept, Took DEF IInv, TypeOK
  <2> QED
    BY Zenon, <1>1, <1>4, <2>2, <2>3, Took, Elsewhere DEF IInv, PlaceOfCall
<1> QED
  BY Zenon, <1>3, <1>4 DEF Reenter, Answers

LEMMA UntilStep ==
  ASSUME IInv, Until
  PROVE  IInv'
<1>1. app.pc = "until" /\ UNCHANGED sockVars /\ opened' = TRUE
  BY Zenon DEF Until
<1>2. /\ app \in Locals /\ app.wanted \in Int
      /\ app.call \in {"wait", "poll", "pause"}
  BY Zenon, <1>1 DEF IInv, TypeOK, Locals, PlaceOfCall
<1>3. PICK n \in Int, w \in Int, p \in {"send", "sleep", "park"} :
        /\ \E late : Reap(late)
        /\ app' = [app EXCEPT !.span = n, !.wanted = w, !.pc = p]
        /\ p = IF ~armed' THEN "send" ELSE IF app.call = "pause" THEN "sleep" ELSE "park"
  <2> DEFINE span == Signed(app.wanted)
             want == IF span < 1 THEN 1 ELSE span
             nn == IF armed' THEN 0 ELSE want * U
             ww == IF armed' /\ app.call # "pause" THEN Never ELSE app.wanted
             pp == IF ~armed' THEN "send"
                   ELSE IF app.call = "pause" THEN "sleep" ELSE "park"
  <2>1. Reap(TooLate(want)) /\ app' = [app EXCEPT !.span = nn, !.wanted = ww, !.pc = pp]
    BY Zenon DEF Until
  <2>2. ww \in Int
    BY <1>2 DEF Never
  <2>3. nn \in Int
    <3>1. want \in Int
      BY <1>2, SignedInt
    <3> HIDE DEF want
    <3> QED
      BY <3>1, WaitSelectAssumption
  <2>4. /\ pp \in {"send", "sleep", "park"}
        /\ pp = IF ~armed' THEN "send"
                ELSE IF app.call = "pause" THEN "sleep" ELSE "park"
    BY Zenon
  <2> HIDE DEF want, nn, ww, pp
  <2> QED
    BY Zenon, <2>1, <2>2, <2>3, <2>4
<1>4. app' \in Locals /\ app'.pc = p /\ app'.call = app.call /\ app'.running = app.running
  <2>1. p \in Places
    BY Zenon DEF Places
  <2> QED
    BY ONLY Zenon, <1>2, <1>3, <2>1, n \in Int, w \in Int DEF Locals
<1>5. TypeOK'
  <2>1. opened' \in BOOLEAN
    BY Zenon, <1>1
  <2> QED
    BY Zenon, <1>1, <1>3, <1>4, <2>1, ReadyKept, Reaped DEF IInv, TypeOK
<1>6. EventsHeard'
  BY Zenon, <1>1, <1>2, <1>3, <1>4, ReadyKept, Reaped DEF IInv, EventsHeard, Listening, Coming
<1>7. RequestHeard'
  BY Zenon, <1>3, <1>4, Reaped DEF RequestHeard, Relying
<1> QED
  BY Zenon, <1>2, <1>3, <1>4, <1>5, <1>6, <1>7 DEF IInv, PlaceOfCall

LEMMA UntilFailsStep ==
  ASSUME IInv, UntilFails
  PROVE  IInv'
<1>1. app.pc = "until" /\ UNCHANGED <<sig, sockVars, timerVars>>
  BY Zenon DEF UntilFails
<1>2. /\ app \in Locals /\ app.call \in {"wait", "poll", "pause"}
  BY Zenon, <1>1 DEF IInv, TypeOK, PlaceOfCall
<1>3. CASE app.call = "pause"
  BY Zenon, <1>1, <1>3, TimerKept, Answered DEF IInv, TypeOK, UntilFails, Answers
<1>4. CASE app.call # "pause"
  <2>1. /\ app' = [app EXCEPT !.pc = "slice", !.ago = 0, !.wanted = Never]
        /\ "slice" \in Places /\ 0 \in Int /\ Never \in Int
    BY <1>4 DEF UntilFails, Places, Never
  <2>2. app' \in Locals /\ app'.pc = "slice" /\ app'.call = app.call
    BY ONLY Zenon, <1>2, <2>1 DEF Locals
  <2>3. TypeOK'
    BY Zenon, <1>1, <2>2, ReadyKept, TimerKept DEF IInv, TypeOK
  <2> QED
    BY Zenon, <1>1, <1>2, <1>4, <2>2, <2>3, TimerKept, Elsewhere DEF IInv, PlaceOfCall
<1> QED
  BY Zenon, <1>3, <1>4

LEMMA AwakeStep ==
  ASSUME IInv, Awake
  PROVE  IInv'
<1>1. app.pc = "awake" /\ UNCHANGED <<sig, sockVars>> /\ Take
  BY Zenon DEF Awake
<1>2. app \in Locals /\ app.call = "pause"
  BY Zenon, <1>1 DEF IInv, TypeOK, PlaceOfCall
<1>3. CASE \E res \in Answers : Answer(res)
  BY Zenon, <1>1, <1>3, Took, Answered DEF IInv, TypeOK
<1>4. CASE app' = [app EXCEPT !.pc = "until", !.recv = {}]
  <2>1. "until" \in Places
    BY Zenon DEF Places
  <2>2. app' \in Locals /\ app'.pc = "until" /\ app'.call = app.call
    BY ONLY Zenon, <1>2, <1>4, <2>1 DEF Locals
  <2>3. TypeOK'
    BY Zenon, <1>1, <2>2, ReadyKept, Took DEF IInv, TypeOK
  <2> QED
    BY Zenon, <1>1, <1>2, <2>2, <2>3, Took
    DEF IInv, PlaceOfCall, EventsHeard, Listening, RequestHeard, Relying
<1> QED
  BY Zenon, <1>3, <1>4 DEF Awake, Answers

----------------------------------------------------------------------------
LEMMA InitIInv == Init => IInv
<1> SUFFICES ASSUME Init PROVE IInv
  BY Zenon
<1>1. /\ ready \in BOOLEAN /\ opened \in BOOLEAN /\ armed \in BOOLEAN
  BY Zenon DEF Init
<1>2. Idle \in Locals
  BY DEF Locals, Idle, Places, Calls, Answers, Never
<1> QED
  BY <1>1, <1>2
  DEF Init, Idle, IInv, TypeOK, PlaceOfCall, EventsHeard, Listening, RequestHeard,
      Relying, Never

LEMMA NextIInv == IInv /\ [Next]_vars => IInv'
<1> SUFFICES ASSUME IInv, [Next]_vars PROVE IInv'
  BY Zenon
<1>1. CASE UNCHANGED vars
  <2>1. TypeOK'
    BY Zenon, <1>1, ReadyKept, TimerKept DEF IInv, TypeOK, vars
  <2> QED
    BY Zenon, <1>1, <2>1
    DEF vars, sockVars, timerVars, IInv, PlaceOfCall, EventsHeard, Listening, Coming,
        RequestHeard, Relying
<1>2. CASE Opener
  BY Zenon, <1>2, PendStep, PollStep, SelectArmStep, ArmFailsStep, SendStep, SelectWaitStep,
     SelectEndStep, SelectCheckStep, SliceTurnStep, SliceEndStep, ParkStep, ReenterStep,
     UntilStep, UntilFailsStep, AwakeStep, CallerStep DEF Opener
<1>3. CASE Caller \/ Callback \/ Quiet \/ Fire \/ Elapse \/ \E s \in User : Others(s)
  BY Zenon, <1>3, CallerStep, CallbackStep, SignalStep, ElapseStep
<1> QED
  BY Zenon, <1>1, <1>2, <1>3 DEF Next

(* The inductive invariant holds of every behaviour of the waits.          *)
THEOREM Invariance == Spec => []IInv
<1>1. Init => IInv
  BY Zenon, InitIInv
<1>2. IInv /\ [Next]_vars => IInv'
  BY Zenon, NextIInv
<1> QED
  BY <1>1, <1>2, PTL DEF Spec

(* An opener never sleeps on a socket that can be read without the event   *)
(* bit that will wake it: bsd_event_post() looks and signals in two steps, *)
(* bsd_poll_sets() and Wait() are two steps, and the bit is cleared before *)
(* the poll.                                                               *)
THEOREM EventNeverLost == Spec => []NoLostEvent
<1>1. IInv => NoLostEvent
  BY Zenon DEF IInv, TypeOK, EventsHeard, Listening, Coming, NoLostEvent
<1> QED
  BY <1>1, Invariance, PTL

(* A Wait() whose mask has the timer's bit has a request out, or its bit   *)
(* is pending, however the request was kept between calls, taken back or   *)
(* replied to while nobody waited for it.                                  *)
THEOREM TimerAlwaysHeard == Spec => []TimerHeard
<1>1. IInv => TimerHeard
  <2> SUFFICES ASSUME IInv PROVE TimerHeard
    BY Zenon
  <2>1. app.umask \subseteq User
    BY Zenon DEF IInv, TypeOK, Locals
  <2>2. "timer" \in Mask => Relying
    BY Zenon, <2>1 DEF Mask, Break, User, Relying
  <2> QED
    BY Zenon, <2>2 DEF IInv, RequestHeard, TimerHeard
<1> QED
  BY <1>1, Invariance, PTL

(* WaitSelect() and the blocking calls take a caller's signal only into    *)
(* the mask they will report; a break goes back to the Task, and whatever  *)
(* way a call ends, what it has taken it still has.                        *)
THEOREM SignalsAlwaysKept == Spec => SignalsKept
<1> DEFINE Keeps == app.pc \in {"ret", "idle"} \/ Pending \subseteq Pending'
<1>1. ASSUME TypeOK, [Next]_vars PROVE [Keeps]_vars
  <2>1. /\ app \in Locals /\ app.got \subseteq User /\ app.umask \subseteq User
    BY Zenon, <1>1 DEF TypeOK, Locals
  <2>2. ASSUME app.got \subseteq app'.got, sig \cap User \subseteq sig' \cup app'.got
        PROVE  Keeps
    BY Zenon, <2>2 DEF Pending
  <2>3. ASSUME NEW res, Answer(res) PROVE app'.got = app.got
    BY Zenon, <2>3, <2>1 DEF Answer, Idle, Locals
  <2>4. ASSUME Taken \/ Kept PROVE sig \subseteq sig'
    BY Zenon, <2>4 DEF Taken, Kept
  <2>5. ASSUME NEW res, Leave(res) PROVE Keeps
    BY Zenon, <2>2, <2>3, <2>4, <2>5 DEF Leave
  <2>6. CASE UNCHANGED vars
    BY Zenon, <2>6
  <2>7. CASE Pend
    <3>1. CASE app' = [app EXCEPT !.pc = "poll", !.got = @ \cup (sig \cap app.umask)]
               /\ sig' = sig \ (app.umask \cup {"event"})
      BY Zenon, <2>1, <2>2, <3>1 DEF Locals, User
    <3> QED
      BY Zenon, <2>5, <2>7, <3>1 DEF Pend
  <2>8. CASE Poll
    <3>1. ASSUME NEW p, Goto(p), UNCHANGED sig PROVE Keeps
      BY Zenon, <2>1, <2>2, <3>1 DEF Goto, Locals
    <3> QED
      BY Zenon, <2>5, <2>8, <3>1 DEF Poll
  <2>9. CASE SelectWait
    <3>1. PICK r : /\ r = Received(Mask)
                   /\ sig' = (sig \ r) \cup (r \cap Break)
                   /\ app'.got = app.got \cup (r \cap app.umask)
                   /\ app.pc = "wait"
      BY Zenon, <2>1, <2>9 DEF SelectWait, Locals
    <3>2. r \cap User \subseteq app.umask \cup Break
      BY Zenon, <3>1 DEF Received, Mask, Break, User
    <3> QED
      BY Zenon, <2>2, <3>1, <3>2
  <2>10. CASE Park
    <3>1. PICK r : /\ r = Received(Mask) /\ sig' = sig \ (r \ {"brk"})
                   /\ app'.got = app.got /\ app.pc \in {"park", "sleep"}
      BY Zenon, <2>1, <2>10 DEF Park, Locals
    <3>2. r \cap User \subseteq {"brk"}
      BY Zenon, <3>1 DEF Received, Mask, User
    <3> QED
      BY Zenon, <2>2, <3>1, <3>2
  <2>11. CASE SelectArm \/ Until
    <3>1. app'.got = app.got /\ (Taken \/ Kept)
      BY Zenon, <2>1, <2>11 DEF SelectArm, Until, Reap, Locals
    <3> QED
      BY Zenon, <2>2, <2>4, <3>1
  <2>12. CASE ArmFails \/ UntilFails \/ SliceEnd \/ Reenter \/ Awake
    <3>1. UNCHANGED sig
      BY Zenon, <2>12 DEF ArmFails, UntilFails, SliceEnd, Reenter, Awake
    <3>2. app'.got = app.got
      BY Zenon, <2>1, <2>3, <2>12 DEF ArmFails, UntilFails, SliceEnd, Reenter, Awake, Locals
    <3> QED
      BY Zenon, <2>2, <3>1, <3>2
  <2>13. CASE Send \/ SelectCheck \/ SliceTurn
    <3>1. sig \ {"event", "timer"} \subseteq sig'
      BY Zenon, <2>13 DEF Send, Arm, SelectCheck, SliceTurn
    <3>2. app'.got = app.got
      BY ZenonT(40), <2>1, <2>3, <2>13 DEF Send, SelectCheck, SliceTurn, Goto, Locals
    <3> QED
      BY Zenon, <2>2, <3>1, <3>2 DEF User
  <2>14. CASE SelectBroken \/ SelectLast
    BY Zenon, <2>5, <2>14 DEF SelectBroken, SelectLast
  <2>15. CASE Return \/ Caller
    BY Zenon, <2>15 DEF Return, Caller, CallSelect, CallWait, CallPause, Begin, Recv, Collect, Close
  <2>16. CASE Callback \/ Quiet \/ Fire \/ \E s \in User : Others(s)
    <3>1. sig \subseteq sig' /\ UNCHANGED app
      BY Zenon, <2>16 DEF Callback, Post, PostLook, PostSignal, Quiet, Fire, Others
    <3> QED
      BY Zenon, <2>2, <3>1
  <2>17. CASE Elapse
    <3>1. UNCHANGED sig /\ app'.got = app.got
      BY Zenon, <2>1, <2>17 DEF Elapse, Locals
    <3> QED
      BY Zenon, <2>2, <3>1
  <2> QED
    BY Zenon, <1>1, <2>6, <2>7, <2>8, <2>9, <2>10, <2>11, <2>12, <2>13, <2>14, <2>15, <2>16, <2>17
    DEF Next, Opener
<1>2. IInv => TypeOK
  BY Zenon DEF IInv
<1> QED
  BY <1>1, <1>2, Invariance, PTL DEF Spec, SignalsKept

----------------------------------------------------------------------------
(***************************************************************************)
(* Timeouts.  A deadline is a tick word, the time it stands for is in      *)
(* units, and the two meet in Dist.  That a wait is not early takes lower  *)
(* bounds of the deadline only and holds through a wrap of the word; that  *)
(* it is not late takes upper bounds too, and so that no deadline falls so *)
(* far behind that its word wraps.                                         *)
(***************************************************************************)
Dist(d) == Signed(d) * U

(* Units until the tick a distance leads to.                               *)
After(d) == Dist(d) - phase

Distances == 0 .. Word - 1

LEMMA Consts ==
  /\ U \in Nat \ {0} /\ MaxLag \in Nat /\ Word \in Nat \ {0}
  /\ LongMax \in Int /\ LongMax + 1 \in Nat /\ 2 * (LongMax + 1) <= Word
  /\ 3 * U + 4 * MaxLag <= (LongMax + 1) * U
<1>1. /\ U \in Nat \ {0} /\ MaxLag \in Nat /\ Word \in Nat \ {0}
  BY WaitSelectAssumption
<1>2. LongMax + 1 = Word \div 2 /\ LongMax \in Int
  BY <1>1 DEF LongMax
<1>3. Word \div 2 \in Nat /\ 2 * (Word \div 2) <= Word
  BY <1>1
<1> QED
  BY <1>1, <1>2, <1>3, TimeAssumption

LEMMA Sizes == U \in Nat \ {0} /\ MaxLag \in Nat /\ Word \in Nat \ {0}
BY WaitSelectAssumption

(* A smaller factor makes a smaller multiple of a tick.                    *)
LEMMA Times ==
  ASSUME NEW a \in Int, NEW b \in Int
  PROVE  /\ a * U \in Int
         /\ a <= b => a * U <= b * U
         /\ (a + b) * U = a * U + b * U
         /\ a * U < b * U => a < b
<1>1. U \in Nat \ {0}
  BY Consts
<1>2. a * U \in Int /\ (a + b) * U = a * U + b * U
  BY <1>1, SMT
<1>3. a <= b => a * U <= b * U
  BY <1>1, SMT
<1>4. b <= a => b * U <= a * U
  BY <1>1, SMT
<1>5. b * U \in Int
  BY <1>1, SMT
<1> QED
  BY <1>2, <1>3, <1>4, <1>5, SMT

LEMMA DistInt ==
  ASSUME NEW d \in Distances
  PROVE  /\ d \in Nat /\ d # Never
         /\ Signed(d) \in Int /\ Dist(d) \in Int
         /\ Signed(d) <= 0 => Dist(d) <= 0
         /\ Signed(d) >= 1 => Dist(d) >= U
<1>1. d \in Nat /\ d # Never /\ Signed(d) \in Int
  BY Consts, SignedInt DEF Distances, Never
<1>2. /\ Dist(d) \in Int
      /\ Signed(d) <= 0 => Dist(d) <= 0 * U
      /\ 1 <= Signed(d) => 1 * U <= Dist(d)
  <2>1. 0 \in Int /\ 1 \in Int
    OBVIOUS
  <2> QED
    BY Zenon, <1>1, <2>1, Times DEF Dist
<1> QED
  BY <1>1, <1>2, Consts

(* One tick takes a tick from a distance, or wraps it to a larger one; it  *)
(* does not wrap while the deadline is less than half a word behind.       *)
LEMMA NearerDist ==
  ASSUME NEW d \in Distances
  PROVE  /\ Nearer(d) \in Distances
         /\ Dist(Nearer(d)) >= Dist(d) - U
         /\ Dist(d) > -(3 * U + 4 * MaxLag) => Dist(Nearer(d)) = Dist(d) - U
<1>1. d \in Nat /\ d # Never /\ d < Word /\ Signed(d) \in Int /\ Dist(d) \in Int
  BY Consts, DistInt DEF Distances
<1>2. Nearer(d) = IF d = 0 THEN Word - 1 ELSE d - 1
  <2>1. Nearer(d) = (d - 1) % Word
    BY Zenon, <1>1 DEF Nearer
  <2>2. CASE d = 0
    BY <2>1, <2>2, Consts, SMT
  <2>3. CASE d # 0
    BY <1>1, <2>1, <2>3, Consts, SMT
  <2> QED
    BY <2>2, <2>3
<1>3. Nearer(d) \in Distances
  BY <1>1, <1>2, Consts DEF Distances
<1>4. Signed(Nearer(d)) \in Int /\ Signed(Nearer(d)) >= Signed(d) - 1
  BY <1>1, <1>2, Consts DEF Signed
<1>5. Signed(d) > -(LongMax + 1) => Signed(Nearer(d)) = Signed(d) - 1
  BY <1>1, <1>2, Consts DEF Signed
<1>6. (Signed(d) + (-1)) * U = Dist(d) + (-1) * U /\ (-1) * U = -U
  <2>1. -1 \in Int
    OBVIOUS
  <2>2. (Signed(d) + (-1)) * U = Dist(d) + (-1) * U
    BY Zenon, <1>1, <2>1, Times DEF Dist
  <2> QED
    BY <2>2, Consts
<1>7. Signed(d) - 1 \in Int /\ Signed(d) - 1 = Signed(d) + (-1)
  BY <1>1
<1>8. Dist(Nearer(d)) >= (Signed(d) - 1) * U
  <2>1. (Signed(d) - 1) * U <= Dist(Nearer(d)) /\ Dist(Nearer(d)) \in Int
        /\ (Signed(d) - 1) * U \in Int
    BY Zenon, <1>4, <1>7, Times DEF Dist
  <2> QED
    BY <2>1
<1>9. ASSUME Dist(d) > -(3 * U + 4 * MaxLag)
      PROVE  Dist(Nearer(d)) = (Signed(d) - 1) * U
  <2>1. (-(LongMax + 1)) * U = -((LongMax + 1) * U) /\ -(LongMax + 1) \in Int
        /\ (LongMax + 1) * U \in Int
    BY Consts, SMT
  <2>2. (-(LongMax + 1)) * U < Signed(d) * U
    BY <1>1, <1>9, <2>1, Consts DEF Dist
  <2>3. -(LongMax + 1) < Signed(d)
    BY Zenon, <1>1, <2>1, <2>2, Times
  <2> QED
    BY <1>1, <1>5, <2>1, <2>3, Consts DEF Dist
<1> QED
  BY <1>1, <1>3, <1>6, <1>7, <1>8, <1>9, Consts

(* A span under LONG_MAX is its own distance.                              *)
LEMMA SmallDist ==
  ASSUME NEW n \in Nat, n <= LongMax
  PROVE  n \in Distances /\ Dist(n) = n * U /\ n * U \in Nat
<1>1. n \in Distances /\ Signed(n) = n
  BY Consts DEF Distances, Signed
<1>2. n * U \in Nat
  BY Consts, SMT
<1> QED
  BY <1>1, <1>2 DEF Dist

(* bsd_timeout_ticks() of a timeout that is not terminal: rounded up, by   *)
(* less than a tick.                                                       *)
LEMMA TicksDist ==
  ASSUME NEW t \in Nat, Ticks(t) < LongMax
  PROVE  /\ Ticks(t) \in Distances
         /\ t <= Dist(Ticks(t)) /\ Dist(Ticks(t)) <= t + U - 1
         /\ Dist(Ticks(t)) = Ticks(t) * U
<1> DEFINE n == (t + U - 1) \div U
           r == (t + U - 1) % U
<1>1. n \in Nat /\ r \in 0 .. U - 1 /\ t + U - 1 = n * U + r /\ n * U \in Int
  <2>1. t + U - 1 \in Nat
    BY Consts
  <2> HIDE DEF n, r
  <2>2. \A x \in Nat : x \div U \in Nat /\ x % U \in 0 .. U - 1
                       /\ x = (x \div U) * U + (x % U) /\ (x \div U) * U \in Int
    BY Consts, SMT
  <2> QED
    BY <2>1, <2>2 DEF n, r
<1>2. Ticks(t) = n
  <2> HIDE DEF n
  <2>1. Ticks(t) = IF n >= Word THEN Word - 1 ELSE n
    BY Zenon DEF Ticks, n
  <2> QED
    BY <1>1, <2>1, Consts
<1> HIDE DEF n, r
<1>3. n \in Distances /\ Dist(n) = n * U
  BY <1>1, <1>2, SmallDist, Consts
<1> QED
  BY <1>1, <1>2, <1>3, Consts

(* A request that is kept fires within a tick of the deadline it is kept   *)
(* for, as far as its due time tells.                                      *)
LEMMA KeptDist ==
  ASSUME NEW want \in Int, due \in Distances, ~TooLate(want)
  PROVE  Dist(due) <= want * U + U
<1>1. Signed(due) \in Int /\ Signed(due) <= want + 1
  BY DistInt DEF TooLate
<1>2. want + 1 \in Int /\ 1 \in Int
  OBVIOUS
<1>3. (want + 1) * U = want * U + 1 * U
  BY Zenon, <1>2, Times
<1>4. Dist(due) <= (want + 1) * U
  BY Zenon, <1>1, <1>2, Times DEF Dist
<1> QED
  BY <1>3, <1>4, Consts

----------------------------------------------------------------------------
(* Values of the clocks and distances.  A deadline is set in these places  *)
(* only.                                                                   *)
Clocked ==
  /\ phase \in 0 .. U - 1 /\ lag \in 0 .. MaxLag /\ left \in Nat /\ fireIn \in Nat
  /\ app.wanted \in Distances \cup {Never} /\ due \in Distances \cup {Never}
  /\ app.span \in Nat /\ app.tmo \in Nat \cup {Never}
  /\ app.rem \in Nat \cup {Never} /\ app.ago \in Nat \cup {Never}
  /\ app.call \in {"wait", "poll"} /\ app.tmo # Never
       => app.rem # Never /\ app.rem <= LongMax
  /\ app.call \in {"wait", "poll"} /\ app.pc # "slices" => app.ago # Never
  /\ armed => due # Never

DeadlineSet ==
  /\ app.wanted # Never =>
       \/ app.pc \in {"until", "send", "sleep", "awake", "broken", "last"}
       \/ app.pc \in {"pend", "poll", "wait", "check"} /\ app.running
  /\ app.pc \in {"sleep", "awake"} => app.wanted # Never

(* The timer's bit is never left over from an earlier request.             *)
NotStale ==
  /\ req = "out" => "timer" \notin sig
  /\ app.pc = "check" => req = "reply"
  /\ app.pc = "awake" => req # "back"
  /\ app.pc = "awake" /\ "brk" \notin app.recv
       => req = "reply" /\ "timer" \in app.recv

(* A terminal wait has a request of its own and no deadline but that.      *)
TerminalOwn ==
  /\ app.terminal =>
       /\ app.call = "select" /\ app.wanted = Never
       /\ \/ app.pc \in {"send", "broken", "last"}
          \/ app.pc \in {"pend", "poll", "wait", "check"} /\ app.running
       /\ app.pc = "send" => left <= app.span
       /\ req = "out" => left <= fireIn
       /\ req = "reply" => left = 0
  /\ app.call = "select" /\ app.running
       => app.tmo # Never /\ (app.terminal \/ app.wanted # Never)
  /\ app.pc = "wait" /\ ~app.running => app.tmo = Never
  /\ app.pc = "arm" \/ (app.pc = "send" /\ app.call = "select") => app.tmo # Never

(* What a blocking call counts to be left, in units.                       *)
Count == IF app.ago = Never THEN app.rem * U ELSE (app.rem - app.ago) * U

(* No deadline is a whole tick short of the time asked for.                *)
NotEarly ==
  /\ left <= IF app.tmo = Never THEN 0 ELSE app.tmo
  /\ app.pc = "last" \/ (app.pc = "ret" /\ app.res = "timeout") => left < U
  /\ app.call \in {"select", "pause"} /\ app.wanted # Never
       => left = 0 \/ left <= After(app.wanted) + U - 1
  /\ app.call \in {"wait", "poll"} /\ app.tmo # Never
       => left = 0 \/ left <= Count - phase + U - 1

(* A request fires about when its due time says.                           *)
DueTells ==
  armed /\ req = "out" /\ ~app.terminal
    => fireIn <= U \/ fireIn <= After(due) + U - 1 + MaxLag

(* Before the request is judged, the time asked for is all there but for   *)
(* the lateness; no deadline is far behind what is owed, or far ahead.     *)
NotLate ==
  /\ app.pc \in {"pend", "poll", "arm"} /\ ~app.running /\ app.tmo # Never
       => app.tmo <= left + lag
  /\ app.wanted # Never /\ app.pc \notin {"broken", "last"}
       => After(app.wanted) <= Owed + MaxLag + U - 1
  /\ app.pc = "until" =>
       app.wanted # Never /\ 0 <= After(app.wanted) + U - 1 + lag /\ 0 <= Owed
  /\ app.pc = "send" =>
       /\ app.span <= Owed + lag + MaxLag + 2 * U - 1
       /\ app.terminal \/ app.wanted # Never
  /\ app.pc = "send" /\ app.wanted # Never =>
       /\ app.span <= After(app.wanted) + 2 * U - 1 + lag
       /\ app.span <= U \/ app.span <= After(app.wanted) + U - 1 + lag

(* How far a deadline may be behind while its request is out, or has been  *)
(* replied to and the opener is late to see it.                            *)
NotOverdue ==
  app.wanted # Never
  /\ app.pc \in {"pend", "poll", "wait", "sleep", "check", "awake"} =>
    /\ req = "out" => fireIn <= After(app.wanted) + 4 * U + 2 * MaxLag - 2
    /\ req = "reply" =>
         0 <= After(app.wanted) + 4 * U + 2 * MaxLag - 2 + lag
              + IF app.pc \in {"check", "awake"} THEN MaxLag ELSE 0

ReliedOnTime ==
  Relying /\ req = "out" => fireIn < Owed + 3 * U + 2 * MaxLag

TInv ==
  /\ Clocked /\ DeadlineSet /\ NotStale /\ TerminalOwn /\ NotEarly /\ DueTells
  /\ NotLate /\ NotOverdue /\ ReliedOnTime

----------------------------------------------------------------------------
(* The passing of a unit.                                                  *)
LEMMA UnitLater ==
  ASSUME phase \in 0 .. U - 1, phase' = (phase + 1) % U, NEW d \in Distances,
         NEW e, e = IF phase + 1 = U THEN Nearer(d) ELSE d
  PROVE  /\ e \in Distances
         /\ Dist(e) - phase' >= After(d) - 1
         /\ 0 <= After(d) + 4 * U + 4 * MaxLag - 2 => Dist(e) - phase' = After(d) - 1
<1>1. Dist(d) \in Int /\ Nearer(d) \in Distances /\ Dist(Nearer(d)) \in Int
  BY DistInt, NearerDist
<1>2. CASE phase + 1 = U
  <2>1. phase' = 0
    BY <1>2, Sizes
  <2> QED
    BY <1>1, <1>2, <2>1, NearerDist, Sizes DEF After
<1>3. CASE phase + 1 # U
  <2>1. phase' = phase + 1
    BY <1>3, Sizes
  <2> QED
    BY <1>1, <1>3, <2>1, Sizes DEF After
<1> QED
  BY <1>2, <1>3

(* Who is not asleep is late.                                              *)
LEMMA AwakeIsLate ==
  ASSUME IInv, Elapse,
         \/ app.pc \in {"pend", "poll", "arm", "send", "until", "check", "awake"}
         \/ app.pc \in {"wait", "sleep"} /\ Relying /\ req = "reply"
  PROVE  lag < MaxLag /\ lag' = lag + 1
<1>1. ~Asleep
  <2>1. CASE app.pc \in {"pend", "poll", "arm", "send", "until", "check", "awake"}
    BY Zenon, <2>1 DEF Asleep, Mask
  <2>2. CASE app.pc \in {"wait", "sleep"} /\ Relying /\ req = "reply"
    <3>1. "timer" \in sig
      BY Zenon, <2>2 DEF IInv, RequestHeard
    <3>2. "timer" \in Mask
      BY Zenon, <2>2 DEF Mask, Relying
    <3>3. Received(Mask) # {}
      BY Zenon, <3>1, <3>2 DEF Received
    <3> QED
      BY Zenon, <2>2, <3>3 DEF Asleep
  <2> QED
    BY Zenon, <2>1, <2>2
<1> QED
  BY Zenon, <1>1 DEF Elapse

LEMMA OwedInt ==
  ASSUME IInv, Clocked
  PROVE  Owed \in Int /\ SliceLen \in Int /\ Count \in Int
<1>1. app.rem \in Int /\ app.tmo \in Int /\ app.ago \in Int
  BY Zenon DEF IInv, TypeOK, Locals
<1>2. SliceLen \in Int
  BY <1>1, WaitSelectAssumption DEF SliceLen
<1>3. left \in Int
  BY DEF Clocked
<1>4. app.rem * U \in Int /\ SliceLen * U \in Int
  BY Zenon, <1>1, <1>2, Times
<1>5. app.rem - app.ago \in Int
  BY <1>1
<1>6. (app.rem - app.ago) * U \in Int
  BY Zenon, <1>5, Times
<1>7. Owed \in Int
  BY Zenon, <1>3, <1>4 DEF Owed
<1>8. Count \in Int
  BY Zenon, <1>4, <1>6 DEF Count
<1> QED
  BY Zenon, <1>2, <1>7, <1>8

LEMMA ElapseTime ==
  ASSUME IInv, TInv, Elapse
  PROVE  TInv'
<1>1. app \in Locals /\ Clocked /\ UNCHANGED <<sig, armed, req>>
  BY Zenon DEF IInv, TypeOK, TInv, Elapse
<1>2. /\ app'.pc = app.pc /\ app'.call = app.call /\ app'.tmo = app.tmo
      /\ app'.span = app.span /\ app'.running = app.running /\ app'.res = app.res
      /\ app'.terminal = app.terminal /\ app'.rem = app.rem /\ app'.recv = app.recv
      /\ app'.wanted = IF phase + 1 = U THEN Nearer(app.wanted) ELSE app.wanted
      /\ app'.ago = IF phase + 1 = U /\ app.ago # Never
                    THEN (app.ago + 1) % Word ELSE app.ago
  <2>1. CASE phase + 1 = U
    <3>1. PICK w, g : /\ app' = [app EXCEPT !.wanted = w, !.ago = g]
                      /\ w = Nearer(app.wanted)
                      /\ g = IF app.ago = Never THEN app.ago ELSE (app.ago + 1) % Word
      BY Zenon, <1>1, <2>1 DEF Elapse, Locals
    <3> QED
      BY Zenon, <1>1, <2>1, <3>1 DEF Locals
  <2>2. CASE phase + 1 # U
    BY Zenon, <2>2 DEF Elapse
  <2> QED
    BY Zenon, <2>1, <2>2
<1>3. /\ phase \in 0 .. U - 1 /\ phase' = (phase + 1) % U /\ phase' \in 0 .. U - 1
      /\ phase' <= phase + 1
  BY <1>1, Sizes DEF Elapse, Clocked
<1>4. /\ left' \in Nat /\ left' >= left - 1 /\ left' <= left
      /\ left > 0 => left' = left - 1
      /\ fireIn' \in Nat /\ (req = "out" => fireIn' = fireIn - 1)
      /\ lag' \in 0 .. MaxLag /\ lag' >= lag
  BY <1>1, Sizes DEF Elapse, Clocked
<1>5. ASSUME NEW d \in Distances \cup {Never}, NEW e,
             e = IF phase + 1 = U THEN Nearer(d) ELSE d
      PROVE  /\ e \in Distances \cup {Never}
             /\ d = Never <=> e = Never
             /\ d # Never =>
                  /\ Dist(d) \in Int /\ Dist(e) \in Int
                  /\ Dist(e) - phase' >= After(d) - 1
                  /\ 0 <= After(d) + 4 * U + 4 * MaxLag - 2
                       => Dist(e) - phase' = After(d) - 1
  <2>1. CASE d = Never
    BY Zenon, <1>5, <2>1 DEF Nearer
  <2>2. CASE d # Never
    <3>1. d \in Distances
      BY Zenon, <1>5, <2>2
    <3> QED
      BY Zenon, <1>3, <1>5, <2>2, <3>1, UnitLater, DistInt
  <2> QED
    BY Zenon, <2>1, <2>2
<1>6. due' = IF phase + 1 = U THEN Nearer(due) ELSE due
  BY Zenon DEF Elapse
<1>7. Owed \in Int /\ Owed' \in Int /\ Owed' >= Owed - 1 /\ (0 <= Owed => 0 <= Owed')
  <2>1. SliceLen' = SliceLen
    BY Zenon, <1>2 DEF SliceLen
  <2>2. CASE app.call \in {"wait", "poll"}
    <3>1. Owed' = Owed
      BY Zenon, <1>2, <2>1, <2>2 DEF Owed
    <3> QED
      BY <1>1, <3>1, OwedInt
  <2>3. CASE app.call \notin {"wait", "poll"}
    <3>1. Owed = left /\ Owed' = left'
      BY Zenon, <1>2, <2>3 DEF Owed
    <3> QED
      BY <1>1, <1>4, <3>1 DEF Clocked
  <2> QED
    BY <2>2, <2>3
<1>8. /\ app'.ago \in Nat \cup {Never} /\ (app.ago # Never => app'.ago # Never)
      /\ Count \in Int /\ Count' \in Int
      /\ app.rem # Never => Count' - phase' >= Count - phase - 1
  <2>1. app.rem \in Int /\ app.ago \in Nat \cup {Never} /\ Count \in Int
    BY <1>1, OwedInt DEF Clocked, Never
  <2>2. CASE app.ago = Never
    <3>1. Count' = Count
      BY Zenon, <1>2, <2>2 DEF Count
    <3> QED
      BY <1>2, <1>3, <2>1, <2>2, <3>1
  <2>3. CASE app.ago # Never /\ phase + 1 # U
    <3>1. Count' = Count /\ app'.ago = app.ago
      BY Zenon, <1>2, <2>3 DEF Count
    <3> QED
      BY <1>2, <1>3, <2>1, <2>3, <3>1
  <2>4. CASE app.ago # Never /\ phase + 1 = U
    <3>1. app'.ago \in Nat /\ app'.ago <= app.ago + 1 /\ app.ago \in Nat
      BY <1>2, <2>1, <2>4, Sizes
    <3>2. Count = (app.rem - app.ago) * U /\ Count' = (app.rem - app'.ago) * U
      BY <1>2, <2>4, <3>1 DEF Count, Never
    <3>3. /\ app.rem - app.ago \in Int /\ app.rem - app'.ago \in Int /\ -1 \in Int
          /\ (app.rem - app.ago) + (-1) <= app.rem - app'.ago
          /\ (app.rem - app.ago) + (-1) \in Int
      BY <2>1, <3>1
    <3>4. /\ ((app.rem - app.ago) + (-1)) * U = Count + (-1) * U
          /\ ((app.rem - app.ago) + (-1)) * U <= Count' /\ Count' \in Int
      BY Zenon, <3>2, <3>3, Times
    <3>5. phase' = 0
      BY <1>3, <2>4, Sizes
    <3> QED
      BY <1>3, <2>1, <2>4, <3>1, <3>4, <3>5, Sizes DEF Never
  <2> QED
    BY <2>2, <2>3, <2>4
<1>9. app.wanted \in Distances \cup {Never} /\ due \in Distances \cup {Never}
  BY Zenon, <1>1 DEF Clocked
<1>10. /\ app'.wanted \in Distances \cup {Never} /\ due' \in Distances \cup {Never}
       /\ app.wanted = Never <=> app'.wanted = Never
       /\ due = Never <=> due' = Never
  BY Zenon, <1>2, <1>5, <1>6, <1>9
<1>11. ASSUME app.wanted # Never, app.pc \notin {"broken", "last"}
       PROVE  /\ Dist(app.wanted) \in Int /\ Dist(app'.wanted) \in Int
              /\ Dist(app'.wanted) - phase' = Dist(app.wanted) - phase - 1
  <2>1. 0 <= Dist(app.wanted) - phase + 4 * U + 4 * MaxLag - 2
    <3>1. Dist(app.wanted) \in Int /\ lag \in Int /\ phase \in Int
      BY <1>1, <1>9, <1>11, DistInt, Sizes DEF Clocked
    <3>2. app.pc \in {"until", "send", "sleep", "awake", "pend", "poll", "wait", "check"}
          /\ (app.pc \in {"pend", "poll", "wait", "check"} => app.running)
      BY Zenon, <1>11 DEF TInv, DeadlineSet
    <3>3. CASE app.pc = "until"
      BY <1>1, <3>1, <3>3, Sizes DEF TInv, NotLate, Clocked, After
    <3>4. CASE app.pc = "send"
      BY <1>1, <1>11, <3>1, <3>4, Sizes DEF TInv, NotLate, Clocked, After
    <3>5. CASE app.pc \notin {"until", "send"}
      <4>1. req \in {"out", "reply"}
        BY Zenon, <3>2, <3>5 DEF TInv, NotStale, IInv, TypeOK, RequestHeard, Relying
      <4> QED
        BY <1>1, <1>11, <3>1, <3>2, <3>5, <4>1, Sizes DEF TInv, NotOverdue, Clocked, After
    <3> QED
      BY Zenon, <3>3, <3>4, <3>5
  <2> QED
    BY Zenon, <1>2, <1>5, <1>9, <1>11, <2>1 DEF After
<1>12. Clocked'
  BY <1>1, <1>2, <1>3, <1>4, <1>8, <1>10 DEF Clocked
<1>13. DeadlineSet' /\ NotStale'
  BY Zenon, <1>1, <1>2, <1>10 DEF TInv, DeadlineSet, NotStale
<1>14. TerminalOwn'
  BY <1>1, <1>2, <1>4, <1>10 DEF TInv, TerminalOwn, Clocked
<1>15. NotEarly'
  <2>1. (left <= IF app.tmo = Never THEN 0 ELSE app.tmo)'
    BY <1>1, <1>2, <1>4 DEF TInv, NotEarly, Clocked, Never
  <2>2. (app.pc = "last" \/ (app.pc = "ret" /\ app.res = "timeout") => left < U)'
    BY <1>1, <1>2, <1>4, Sizes DEF TInv, NotEarly, Clocked
  <2>3. ASSUME app.call \in {"select", "pause"}, app.wanted # Never
        PROVE  left' = 0 \/ left' <= Dist(app'.wanted) - phase' + U - 1
    <3>1. /\ Dist(app.wanted) \in Int /\ Dist(app'.wanted) \in Int
          /\ Dist(app'.wanted) - phase' >= Dist(app.wanted) - phase - 1
      BY Zenon, <1>2, <1>5, <1>9, <2>3 DEF After
    <3>2. left = 0 \/ left <= Dist(app.wanted) - phase + U - 1
      BY Zenon, <2>3 DEF TInv, NotEarly, After
    <3> QED
      BY <1>1, <1>3, <1>4, <3>1, <3>2, Sizes DEF Clocked
  <2>4. (app.call \in {"wait", "poll"} /\ app.tmo # Never
           => left = 0 \/ left <= Count - phase + U - 1)'
    BY <1>1, <1>2, <1>3, <1>4, <1>8, Sizes DEF TInv, NotEarly, Clocked
  <2> QED
    BY Zenon, <1>2, <1>10, <2>1, <2>2, <2>3, <2>4 DEF NotEarly, After
<1>16. DueTells'
  <2> SUFFICES ASSUME armed', req' = "out", ~app'.terminal
               PROVE  fireIn' <= U \/ fireIn' <= Dist(due') - phase' + U - 1 + MaxLag
    BY Zenon DEF DueTells, After
  <2>1. /\ Dist(due) \in Int /\ Dist(due') \in Int
        /\ Dist(due') - phase' >= Dist(due) - phase - 1
    BY Zenon, <1>1, <1>5, <1>6, <1>9 DEF After, Clocked
  <2>2. fireIn <= U \/ fireIn <= Dist(due) - phase + U - 1 + MaxLag
    BY Zenon, <1>1, <1>2 DEF TInv, DueTells, After
  <2> QED
    BY <1>1, <1>3, <1>4, <2>1, <2>2, Sizes DEF Clocked
<1>17. NotLate'
  <2>1. (app.pc \in {"pend", "poll", "arm"} /\ ~app.running /\ app.tmo # Never
           => app.tmo <= left + lag)'
    BY <1>1, <1>2, <1>4, AwakeIsLate DEF TInv, NotLate, Clocked, Never
  <2>2. ASSUME app.wanted # Never, app.pc \notin {"broken", "last"}
        PROVE  Dist(app'.wanted) - phase' <= Owed' + MaxLag + U - 1
    <3>1. Dist(app.wanted) - phase <= Owed + MaxLag + U - 1
      BY Zenon, <2>2 DEF TInv, NotLate, After
    <3> QED
      BY <1>1, <1>3, <1>7, <1>11, <2>2, <3>1, Sizes DEF Clocked
  <2>3. ASSUME app.pc = "until"
        PROVE  /\ app'.wanted # Never /\ 0 <= Dist(app'.wanted) - phase' + U - 1 + lag'
               /\ 0 <= Owed'
    <3>1. /\ app.wanted # Never /\ 0 <= Dist(app.wanted) - phase + U - 1 + lag
          /\ 0 <= Owed
      BY Zenon, <2>3 DEF TInv, NotLate, After
    <3>2. app'.wanted # Never /\ 0 <= Dist(app'.wanted) - phase' + U - 1 + lag'
      BY <1>1, <1>3, <1>10, <1>11, <2>3, <3>1, AwakeIsLate, Sizes DEF Clocked
    <3> QED
      BY Zenon, <1>7, <3>1, <3>2
  <2>4. ASSUME app.pc = "send"
        PROVE  /\ app'.span <= Owed' + lag' + MaxLag + 2 * U - 1
               /\ app'.terminal \/ app'.wanted # Never
    <3>1. /\ app.span <= Owed + lag + MaxLag + 2 * U - 1
          /\ app.terminal \/ app.wanted # Never
      BY Zenon, <2>4 DEF TInv, NotLate
    <3>2. app'.terminal \/ app'.wanted # Never
      BY Zenon, <1>2, <1>10, <3>1
    <3> QED
      BY <1>1, <1>2, <1>7, <2>4, <3>1, <3>2, AwakeIsLate, Sizes DEF Clocked
  <2>5. ASSUME app.pc = "send", app.wanted # Never
        PROVE  /\ app'.span <= Dist(app'.wanted) - phase' + 2 * U - 1 + lag'
               /\ \/ app'.span <= U
                  \/ app'.span <= Dist(app'.wanted) - phase' + U - 1 + lag'
    <3>1. /\ app.span <= Dist(app.wanted) - phase + 2 * U - 1 + lag
          /\ app.span <= U \/ app.span <= Dist(app.wanted) - phase + U - 1 + lag
      BY Zenon, <2>5 DEF TInv, NotLate, After
    <3> QED
      BY <1>1, <1>2, <1>3, <1>11, <2>5, <3>1, AwakeIsLate, Sizes DEF Clocked
  <2> QED
    BY Zenon, <1>2, <1>10, <2>1, <2>2, <2>3, <2>4, <2>5 DEF NotLate, After
<1>18. NotOverdue'
  <2> SUFFICES ASSUME app.wanted # Never,
                      app.pc \in {"pend", "poll", "wait", "sleep", "check", "awake"}
               PROVE  /\ req = "out" => fireIn' <= Dist(app'.wanted) - phase'
                                                  + 4 * U + 2 * MaxLag - 2
                      /\ req = "reply" =>
                           0 <= Dist(app'.wanted) - phase' + 4 * U + 2 * MaxLag - 2 + lag'
                                + IF app.pc \in {"check", "awake"} THEN MaxLag ELSE 0
    BY Zenon, <1>1, <1>2, <1>10 DEF NotOverdue, After
  <2>1. /\ req = "out" => fireIn <= Dist(app.wanted) - phase + 4 * U + 2 * MaxLag - 2
        /\ req = "reply" =>
             0 <= Dist(app.wanted) - phase + 4 * U + 2 * MaxLag - 2 + lag
                  + IF app.pc \in {"check", "awake"} THEN MaxLag ELSE 0
    BY Zenon DEF TInv, NotOverdue, After
  <2>2. req = "reply" => lag' = lag + 1
    BY Zenon, AwakeIsLate DEF TInv, DeadlineSet, Relying
  <2>3. /\ Dist(app.wanted) \in Int /\ Dist(app'.wanted) \in Int
        /\ Dist(app'.wanted) - phase' = Dist(app.wanted) - phase - 1
    BY Zenon, <1>11
  <2> QED
    BY <1>1, <1>3, <1>4, <2>1, <2>2, <2>3, Sizes DEF Clocked
<1>19. ReliedOnTime'
  <2> SUFFICES ASSUME Relying', req' = "out"
               PROVE  fireIn' < Owed' + 3 * U + 2 * MaxLag
    BY Zenon DEF ReliedOnTime
  <2>1. PICK o \in Int, p \in Int : o = Owed /\ p = Owed' /\ p >= o - 1
    BY Zenon, <1>7
  <2>2. fireIn < o + 3 * U + 2 * MaxLag
    BY Zenon, <1>1, <1>2, <2>1 DEF TInv, ReliedOnTime, Relying
  <2>3. fireIn' = fireIn - 1 /\ fireIn \in Int
    BY <1>1, <1>4 DEF Clocked
  <2>4. p >= o - 1
    BY Zenon, <2>1
  <2>5. fireIn' < p + 3 * U + 2 * MaxLag
    BY <2>2, <2>3, <2>4, Sizes
  <2> QED
    BY Zenon, <2>1, <2>5
<1> QED
  BY Zenon, <1>12, <1>13, <1>14, <1>15, <1>16, <1>17, <1>18, <1>19 DEF TInv

----------------------------------------------------------------------------
(* Steps of others: the opener's locals and the clocks stay.               *)
LEMMA OthersTime ==
  ASSUME IInv, TInv, UNCHANGED <<phase, lag, left, armed, req, due, fireIn, app>>,
         "timer" \in sig' => "timer" \in sig
  PROVE  TInv'
<1>1. Clocked' /\ DeadlineSet' /\ NotStale' /\ TerminalOwn'
  <2>1. Clocked'
    BY Zenon DEF TInv, Clocked
  <2>2. DeadlineSet' /\ NotStale'
    BY Zenon DEF TInv, DeadlineSet, NotStale
  <2>3. TerminalOwn'
    BY Zenon DEF TInv, TerminalOwn
  <2> QED
    BY Zenon, <2>1, <2>2, <2>3
<1>2. Owed' = Owed /\ Count' = Count /\ (Relying' <=> Relying)
  BY Zenon DEF Owed, SliceLen, Count, Relying
<1>3. NotEarly' /\ DueTells'
  BY Zenon, <1>2 DEF TInv, NotEarly, DueTells, After
<1>4. NotLate' /\ NotOverdue' /\ ReliedOnTime'
  BY Zenon, <1>2 DEF TInv, NotLate, NotOverdue, ReliedOnTime, After
<1> QED
  BY Zenon, <1>1, <1>3, <1>4 DEF TInv

LEMMA CallbackTime ==
  ASSUME IInv, TInv, Callback \/ Quiet \/ (\E s \in User : Others(s))
  PROVE  TInv'
<1>1. UNCHANGED <<phase, lag, left, armed, req, due, fireIn, app>>
  BY Zenon DEF Callback, Post, PostLook, PostSignal, Quiet, Others, timerVars
<1>2. "timer" \in sig' => "timer" \in sig
  <2>1. "timer" \notin cb.sigs
    BY DEF IInv, TypeOK
  <2>2. "timer" \notin User
    BY DEF User
  <2>3. sig' = sig \/ sig' = sig \cup cb.sigs \/ \E s \in User : sig' = sig \cup {s}
    BY Zenon DEF Callback, Post, PostLook, PostSignal, Quiet, Others
  <2> QED
    BY Zenon, <2>1, <2>2, <2>3
<1> QED
  BY Zenon, <1>1, <1>2, OthersTime

LEMMA FireTime ==
  ASSUME IInv, TInv, Fire
  PROVE  TInv'
<1>1. /\ UNCHANGED <<phase, lag, left, armed, due, fireIn, app>>
      /\ req = "out" /\ req' = "reply" /\ fireIn = 0
  BY Zenon DEF Fire
<1>2. Clocked' /\ DeadlineSet' /\ NotStale'
  BY Zenon, <1>1 DEF TInv, Clocked, DeadlineSet, NotStale
<1>3. TerminalOwn'
  BY <1>1 DEF TInv, TerminalOwn, Clocked
<1>4. Owed' = Owed /\ Count' = Count
  BY Zenon, <1>1 DEF Owed, SliceLen, Count
<1>5. NotEarly' /\ DueTells' /\ NotLate' /\ ReliedOnTime'
  BY Zenon, <1>1, <1>4 DEF TInv, NotEarly, DueTells, NotLate, ReliedOnTime, After
<1>6. NotOverdue'
  <2> SUFFICES ASSUME app.wanted # Never,
                      app.pc \in {"pend", "poll", "wait", "sleep", "check", "awake"}
               PROVE  0 <= Dist(app.wanted) - phase + 4 * U + 2 * MaxLag - 2 + lag
                           + IF app.pc \in {"check", "awake"} THEN MaxLag ELSE 0
    BY Zenon, <1>1 DEF NotOverdue, After
  <2>1. fireIn <= Dist(app.wanted) - phase + 4 * U + 2 * MaxLag - 2
    BY Zenon, <1>1 DEF TInv, NotOverdue, After
  <2>2. app.wanted \in Distances /\ phase \in Int /\ lag \in Nat
    BY Sizes DEF TInv, Clocked
  <2>3. Dist(app.wanted) \in Int
    BY Zenon, <2>2, DistInt
  <2> QED
    BY <1>1, <2>1, <2>2, <2>3, Sizes
<1> QED
  BY Zenon, <1>2, <1>3, <1>5, <1>6 DEF TInv

----------------------------------------------------------------------------
(* A call's answer: nothing is wanted any more; a timeout is no tick early, *)
(* and a request left out is one whose due time tells.                     *)
LEMMA AnsweredTime ==
  ASSUME IInv, TInv, NEW res \in Answers, Answer(res), UNCHANGED <<phase, left>>,
         lag' \in 0 .. MaxLag, res = "timeout" => left < U,
         fireIn' \in Nat, due' \in Distances \cup {Never}, armed' => due' # Never,
         req' = "out" => /\ req = "out" /\ armed /\ ~app.terminal /\ "timer" \notin sig'
                         /\ UNCHANGED <<due, fireIn>>
  PROVE  TInv'
<1>1. /\ app'.pc = "ret" /\ app'.call = "none" /\ app'.tmo = app.tmo /\ app'.wanted = Never
      /\ app'.span = 0 /\ ~app'.running /\ ~app'.terminal /\ app'.res = res
      /\ app'.rem = 0 /\ app'.ago = Never
  BY Zenon DEF Answer, Idle
<1>2. Clocked'
  BY <1>1 DEF TInv, Clocked, Never
<1>3. DeadlineSet' /\ NotStale' /\ TerminalOwn'
  BY Zenon, <1>1 DEF DeadlineSet, NotStale, TerminalOwn
<1>4. NotEarly'
  BY Zenon, <1>1 DEF TInv, NotEarly
<1>5. DueTells'
  BY Zenon DEF TInv, DueTells, After
<1>6. NotLate' /\ NotOverdue' /\ ReliedOnTime'
  BY Zenon, <1>1 DEF NotLate, NotOverdue, ReliedOnTime, Relying
<1> QED
  BY Zenon, <1>2, <1>3, <1>4, <1>5, <1>6 DEF TInv

LEMMA TakenTime ==
  ASSUME IInv, TInv, Taken \/ Kept
  PROVE  /\ fireIn' \in Nat /\ due' \in Distances \cup {Never} /\ (armed' => due' # Never)
         /\ req' = "out" => /\ req = "out" /\ armed /\ Kept /\ "timer" \notin sig'
                            /\ UNCHANGED <<armed, due, fireIn>>
<1>1. CASE Taken
  <2>1. fireIn' = 0 /\ due' = Never /\ ~armed' /\ req' = "back"
    BY Zenon, <1>1 DEF Taken
  <2> QED
    BY <2>1
<1>2. CASE Kept
  <2>1. UNCHANGED <<armed, due, req, fireIn, sig>>
    BY Zenon, <1>2 DEF Kept
  <2>2. fireIn \in Nat /\ due \in Distances \cup {Never} /\ (armed => due # Never)
    BY Zenon DEF TInv, Clocked
  <2> QED
    BY Zenon, <1>2, <2>1, <2>2 DEF IInv, TInv, RequestHeard, NotStale
<1> QED
  BY Zenon, <1>1, <1>2

LEMMA LeftTime ==
  ASSUME IInv, TInv, NEW res \in Answers, Leave(res), UNCHANGED <<phase, lag, left>>,
         res = "timeout" => left < U
  PROVE  TInv'
<1>1. Answer(res) /\ (Taken \/ Kept)
  BY Zenon DEF Leave
<1>2. req' = "out" => ~app.terminal
  BY Zenon, <1>1, TakenTime DEF Leave, Taken
<1>3. lag' \in 0 .. MaxLag
  BY Zenon DEF TInv, Clocked
<1> QED
  BY Zenon, <1>1, <1>2, <1>3, TakenTime, AnsweredTime

(* An answer that leaves the request alone, outside a terminal wait.       *)
LEMMA AnswerTime ==
  ASSUME IInv, TInv, NEW res \in Answers, Answer(res), UNCHANGED <<phase, left, timerVars>>,
         lag' \in 0 .. MaxLag, "timer" \in sig' => "timer" \in sig,
         ~app.terminal, res = "timeout" => left < U
  PROVE  TInv'
<1>1. UNCHANGED <<armed, due, req, fireIn>>
  BY Zenon DEF timerVars
<1>2. fireIn \in Nat /\ due \in Distances \cup {Never} /\ (armed => due # Never)
  BY Zenon DEF TInv, Clocked
<1>3. req = "out" => armed /\ "timer" \notin sig
  BY Zenon DEF IInv, TInv, RequestHeard, NotStale
<1> QED
  BY Zenon, <1>1, <1>2, <1>3, AnsweredTime

LEMMA EndTime ==
  ASSUME IInv, TInv, ArmFails \/ SelectBroken \/ SelectLast
  PROVE  TInv'
<1>1. UNCHANGED <<phase, lag, left>>
  BY Zenon DEF ArmFails, SelectBroken, SelectLast
<1>2. CASE ArmFails
  <2>1. app.pc = "arm" /\ Answer("error") /\ UNCHANGED <<sig, timerVars>>
    BY Zenon, <1>2 DEF ArmFails
  <2>2. ~app.terminal
    BY Zenon, <2>1 DEF TInv, TerminalOwn
  <2>3. lag' \in 0 .. MaxLag
    BY Zenon, <1>1 DEF TInv, Clocked
  <2> QED
    BY Zenon, <1>1, <2>1, <2>2, <2>3, AnswerTime DEF Answers
<1>3. CASE SelectBroken
  BY Zenon, <1>1, <1>3, LeftTime DEF SelectBroken, Answers
<1>4. CASE SelectLast
  <2>1. left < U
    BY Zenon, <1>4 DEF SelectLast, TInv, NotEarly
  <2> QED
    BY Zenon, <1>1, <1>4, <2>1, LeftTime DEF SelectLast, Answers
<1> QED
  BY Zenon, <1>2, <1>3, <1>4

----------------------------------------------------------------------------
(* A step that leaves what the call asked for, or the request, alone.      *)
LEMMA SameAsk ==
  ASSUME IInv, TInv, UNCHANGED <<phase, left>>,
         app'.call = app.call, app'.tmo = app.tmo, app'.rem = app.rem, app'.ago = app.ago,
         app'.wanted = app.wanted \/ app.call \in {"wait", "poll"},
         app'.pc \notin {"last", "ret"}
  PROVE  NotEarly' /\ Owed' = Owed
<1>1. Owed' = Owed /\ Count' = Count
  BY Zenon DEF Owed, SliceLen, Count
<1> QED
  BY Zenon, <1>1 DEF TInv, NotEarly, After

LEMMA SameDue ==
  ASSUME TInv, UNCHANGED <<phase, armed, req, due, fireIn>>, app'.terminal = app.terminal
  PROVE  DueTells'
BY Zenon DEF TInv, DueTells, After

LEMMA PendTime ==
  ASSUME IInv, TInv, Pend
  PROVE  TInv'
<1>1. app.pc = "pend" /\ app \in Locals /\ UNCHANGED <<phase, lag, left>>
  BY Zenon DEF Pend, IInv, TypeOK
<1>2. CASE Leave("eintr")
  BY Zenon, <1>1, <1>2, LeftTime DEF Answers
<1>3. CASE /\ app' = [app EXCEPT !.pc = "poll", !.got = @ \cup (sig \cap app.umask)]
           /\ sig' = sig \ (app.umask \cup {"event"}) /\ UNCHANGED timerVars
  <2>1. /\ app'.pc = "poll" /\ app'.call = app.call /\ app'.tmo = app.tmo
        /\ app'.span = app.span /\ app'.running = app.running
        /\ app'.terminal = app.terminal /\ app'.rem = app.rem
        /\ app'.wanted = app.wanted /\ app'.ago = app.ago
    BY Zenon, <1>1, <1>3 DEF Locals
  <2>2. UNCHANGED <<armed, due, req, fireIn>> /\ ("timer" \in sig' => "timer" \in sig)
    BY Zenon, <1>3 DEF timerVars
  <2>3. NotEarly' /\ Owed' = Owed /\ DueTells'
    BY Zenon, <1>1, <2>1, <2>2, SameAsk, SameDue
  <2>4. Clocked'
    BY Zenon, <1>1, <2>1, <2>2 DEF TInv, Clocked
  <2>5. DeadlineSet' /\ NotStale'
    BY Zenon, <1>1, <2>1, <2>2 DEF TInv, DeadlineSet, NotStale
  <2>6. TerminalOwn'
    BY Zenon, <1>1, <2>1, <2>2 DEF TInv, TerminalOwn
  <2>7. NotLate' /\ NotOverdue' /\ ReliedOnTime'
    BY Zenon, <1>1, <2>1, <2>2, <2>3
    DEF TInv, NotLate, NotOverdue, ReliedOnTime, Relying, After
  <2> QED
    BY Zenon, <2>3, <2>4, <2>5, <2>6, <2>7 DEF TInv
<1> QED
  BY Zenon, <1>2, <1>3 DEF Pend

LEMMA PollTime ==
  ASSUME IInv, TInv, Poll
  PROVE  TInv'
<1>1. app.pc = "poll" /\ app \in Locals /\ UNCHANGED <<phase, lag, left>>
  BY Zenon DEF Poll, IInv, TypeOK
<1>2. CASE Leave("error") \/ Leave("ready") \/ Leave("signals")
  BY Zenon, <1>1, <1>2, LeftTime DEF Answers
<1>3. CASE app.tmo = 0 /\ Leave("timeout")
  <2>1. left < U
    BY <1>3, Sizes DEF TInv, NotEarly, Clocked, Never
  <2> QED
    BY Zenon, <1>1, <1>3, <2>1, LeftTime DEF Answers
<1>4. CASE /\ Goto(IF app.tmo # Never /\ ~app.running THEN "arm" ELSE "wait")
           /\ UNCHANGED <<sig, timerVars>>
  <2>1. PICK p \in {"arm", "wait"} :
          /\ app' = [app EXCEPT !.pc = p]
          /\ p = "arm" <=> app.tmo # Never /\ ~app.running
    BY Zenon, <1>4 DEF Goto
  <2>2. /\ app'.pc = p /\ app'.call = app.call /\ app'.tmo = app.tmo
        /\ app'.span = app.span /\ app'.running = app.running
        /\ app'.terminal = app.terminal /\ app'.rem = app.rem
        /\ app'.wanted = app.wanted /\ app'.ago = app.ago
    BY Zenon, <1>1, <2>1 DEF Locals
  <2>3. UNCHANGED <<sig, armed, due, req, fireIn>>
    BY Zenon, <1>4 DEF timerVars
  <2>4. NotEarly' /\ Owed' = Owed /\ DueTells'
    BY Zenon, <1>1, <2>2, <2>3, SameAsk, SameDue
  <2>5. Clocked'
    BY Zenon, <1>1, <2>2, <2>3 DEF TInv, Clocked
  <2>6. (app.wanted # Never => app.running) /\ (app.terminal => app.running)
    BY Zenon, <1>1 DEF TInv, DeadlineSet, TerminalOwn
  <2>7. DeadlineSet' /\ NotStale'
    BY Zenon, <1>1, <2>1, <2>2, <2>3, <2>6 DEF TInv, DeadlineSet, NotStale
  <2>8. TerminalOwn'
    BY Zenon, <1>1, <2>1, <2>2, <2>3, <2>6 DEF TInv, TerminalOwn
  <2>9. NotLate' /\ NotOverdue' /\ ReliedOnTime'
    BY Zenon, <1>1, <2>1, <2>2, <2>3, <2>4, <2>6
    DEF TInv, NotLate, NotOverdue, ReliedOnTime, Relying, After
  <2> QED
    BY Zenon, <2>4, <2>5, <2>7, <2>8, <2>9 DEF TInv
<1> QED
  BY Zenon, <1>2, <1>3, <1>4 DEF Poll

(* The timer's bit sends WaitSelect() to its check only with a reply.      *)
LEMMA SelectWaitTime ==
  ASSUME IInv, TInv, SelectWait
  PROVE  TInv'
<1>1. /\ app.pc = "wait" /\ app \in Locals /\ app.call = "select"
      /\ UNCHANGED <<phase, left, timerVars>> /\ lag' = 0
  BY Zenon DEF SelectWait, IInv, TypeOK, PlaceOfCall
<1>2. PICK r, g, p :
        /\ r = Received(Mask) /\ sig' = (sig \ r) \cup (r \cap Break)
        /\ app' = [app EXCEPT !.got = g, !.pc = p]
        /\ p \in {"broken", "check", "pend"}
        /\ p = "check" => "timer" \in r
        /\ p = "pend" => "timer" \notin r
  <2> DEFINE r == Received(Mask)
             g == app.got \cup (r \cap app.umask)
             p == IF r \cap Break # {} THEN "broken"
                  ELSE IF "timer" \in r THEN "check" ELSE "pend"
  <2>1. sig' = (sig \ r) \cup (r \cap Break) /\ app' = [app EXCEPT !.got = g, !.pc = p]
    BY Zenon DEF SelectWait
  <2>2. /\ p \in {"broken", "check", "pend"}
        /\ p = "check" => "timer" \in r
        /\ p = "pend" => "timer" \notin r
    BY Zenon
  <2>3. r = Received(Mask)
    OBVIOUS
  <2> HIDE DEF r, g, p
  <2> QED
    BY Zenon, <2>1, <2>2, <2>3
<1>3. /\ app'.pc = p /\ app'.call = app.call /\ app'.tmo = app.tmo
      /\ app'.span = app.span /\ app'.running = app.running
      /\ app'.terminal = app.terminal /\ app'.rem = app.rem
      /\ app'.wanted = app.wanted /\ app'.ago = app.ago
  BY Zenon, <1>1, <1>2 DEF Locals
<1>4. UNCHANGED <<armed, due, req, fireIn>>
  BY Zenon, <1>1 DEF timerVars
<1>5. ("timer" \in sig' => "timer" \in sig) /\ ("timer" \in r => "timer" \in sig)
  BY Zenon, <1>2 DEF Received
<1>6. "timer" \in r => app.running
  <2>1. app.umask \subseteq User
    BY Zenon, <1>1 DEF Locals
  <2> QED
    BY Zenon, <1>1, <1>2, <2>1 DEF Received, Mask, Break, User
<1>7. p = "check" => req = "reply"
  BY Zenon, <1>1, <1>2, <1>5, <1>6
  DEF IInv, TypeOK, RequestHeard, Relying, TInv, NotStale
<1>8. "timer" \in sig /\ p = "pend" => "timer" \in sig'
  BY Zenon, <1>2
<1>9. (p = "pend" /\ app.running) => req # "reply"
  <2>1. app.running => "timer" \in Mask
    BY Zenon, <1>1 DEF Mask
  <2> QED
    BY Zenon, <1>1, <1>2, <2>1 DEF Received, IInv, RequestHeard, Relying
<1>10. NotEarly' /\ Owed' = Owed /\ DueTells'
  BY Zenon, <1>1, <1>2, <1>3, <1>4, SameAsk, SameDue
<1>11. Clocked'
  <2>1. lag' \in 0 .. MaxLag
    BY <1>1, Sizes
  <2> QED
    BY Zenon, <1>1, <1>3, <1>4, <2>1 DEF TInv, Clocked
<1>12. DeadlineSet' /\ NotStale'
  BY Zenon, <1>1, <1>2, <1>3, <1>4, <1>5, <1>7 DEF TInv, DeadlineSet, NotStale
<1>13. TerminalOwn'
  BY Zenon, <1>1, <1>2, <1>3, <1>4 DEF TInv, TerminalOwn
<1>14. NotOverdue'
  <2> SUFFICES ASSUME app.wanted # Never, p \in {"pend", "check"}
               PROVE  /\ req = "out" => fireIn <= Dist(app.wanted) - phase
                                                  + 4 * U + 2 * MaxLag - 2
                      /\ req = "reply" =>
                           0 <= Dist(app.wanted) - phase + 4 * U + 2 * MaxLag - 2 + lag'
                                + IF p \in {"check", "awake"} THEN MaxLag ELSE 0
    BY Zenon, <1>1, <1>2, <1>3, <1>4 DEF NotOverdue, After
  <2>1. /\ req = "out" => fireIn <= Dist(app.wanted) - phase + 4 * U + 2 * MaxLag - 2
        /\ req = "reply" => 0 <= Dist(app.wanted) - phase + 4 * U + 2 * MaxLag - 2 + lag + 0
        /\ app.running
    BY Zenon, <1>1 DEF TInv, NotOverdue, After, DeadlineSet
  <2>2. Dist(app.wanted) \in Int /\ phase \in Int /\ lag \in 0 .. MaxLag
    <3>1. app.wanted \in Distances
      BY Zenon DEF TInv, Clocked
    <3>2. phase \in Int /\ lag \in 0 .. MaxLag
      BY Sizes DEF TInv, Clocked
    <3> QED
      BY Zenon, <3>1, <3>2, DistInt
  <2> QED
    BY <1>1, <1>9, <2>1, <2>2, Sizes
<1>15. NotLate'
  <2>1. p = "pend" /\ ~app.running => app.tmo = Never
    BY Zenon, <1>1 DEF TInv, TerminalOwn
  <2> QED
    BY Zenon, <1>1, <1>2, <1>3, <1>10, <2>1 DEF TInv, NotLate, After
<1>16. ReliedOnTime'
  BY Zenon, <1>1, <1>2, <1>3, <1>4, <1>10 DEF TInv, ReliedOnTime, Relying
<1> QED
  BY Zenon, <1>10, <1>11, <1>12, <1>13, <1>14, <1>15, <1>16 DEF TInv

(* The parts of a distance and of a request that the steps need as numbers. *)
LEMMA Numbers ==
  ASSUME IInv, TInv
  PROVE  /\ phase \in 0 .. U - 1 /\ lag \in 0 .. MaxLag /\ left \in Nat /\ fireIn \in Nat
         /\ app.span \in Nat /\ Owed \in Int /\ Count \in Int
         /\ app.wanted # Never => app.wanted \in Distances /\ Dist(app.wanted) \in Int
         /\ due # Never => due \in Distances /\ Dist(due) \in Int
<1>1. Clocked
  BY Zenon DEF TInv
<1> QED
  BY Zenon, <1>1, OwedInt, DistInt DEF Clocked

(* bsd_timer_reap(): a request that stays is out, and due in time.         *)
LEMMA ReapTime ==
  ASSUME IInv, TInv, NEW late, Reap(late)
  PROVE  /\ fireIn' \in Nat /\ due' \in Distances \cup {Never} /\ (armed' => due' # Never)
         /\ req' = "out" => "timer" \notin sig'
         /\ armed' <=> req' = "out"
         /\ armed' \in BOOLEAN
         /\ armed' => /\ ~late /\ req = "out" /\ armed /\ due \in Distances
                      /\ UNCHANGED <<due, fireIn>>
<1>1. Taken \/ Kept
  BY Zenon DEF Reap
<1>2. /\ armed' \in BOOLEAN /\ (armed' <=> req' = "out")
  BY Zenon, Reaped
<1>3. armed' => ~late
  BY Zenon, <1>2 DEF Reap, Taken, Kept
<1>4. due # Never => due \in Distances
  BY Zenon, Numbers
<1> QED
  BY Zenon, <1>1, <1>2, <1>3, <1>4, TakenTime

LEMMA SelectArmTime ==
  ASSUME IInv, TInv, SelectArm
  PROVE  TInv'
<1>1. /\ app.pc = "arm" /\ app \in Locals /\ app.call = "select"
      /\ UNCHANGED <<phase, lag, left>>
  BY Zenon DEF SelectArm, IInv, TypeOK, PlaceOfCall
<1>2. ~app.running /\ ~app.terminal /\ app.wanted = Never /\ app.tmo # Never
  BY Zenon, <1>1 DEF IInv, RequestHeard, TInv, TerminalOwn, DeadlineSet
<1>3. app.tmo \in Nat
  BY Zenon, <1>2 DEF TInv, Clocked
<1>4. left <= app.tmo /\ app.tmo <= left + lag
  BY Zenon, <1>1, <1>2 DEF TInv, NotEarly, NotLate
<1> DEFINE want == Ticks(app.tmo)
           T == want >= LongMax
<1>5. /\ Reap(T \/ TooLate(want))
      /\ app' = [app EXCEPT !.pc = IF armed' THEN "wait" ELSE "send",
                            !.running = armed', !.terminal = T,
                            !.span = IF armed' THEN 0 ELSE app.tmo,
                            !.wanted = IF T THEN Never ELSE want]
  BY Zenon DEF SelectArm
<1>6. want \in Int
  BY <1>3, TicksInt
<1>7. T \in BOOLEAN
  BY <1>6, Consts
<1> HIDE DEF want, T
<1>8. /\ app'.call = "select" /\ app'.tmo = app.tmo /\ app'.rem = app.rem
      /\ app'.ago = app.ago /\ app'.pc = (IF armed' THEN "wait" ELSE "send")
      /\ (app'.running <=> armed') /\ (app'.terminal <=> T)
      /\ app'.span = (IF armed' THEN 0 ELSE app.tmo)
      /\ app'.wanted = (IF T THEN Never ELSE want)
  BY Zenon, <1>1, <1>5 DEF Locals
<1>9. /\ fireIn' \in Nat /\ due' \in Distances \cup {Never} /\ (armed' => due' # Never)
      /\ req' = "out" => "timer" \notin sig'
      /\ armed' <=> req' = "out"
      /\ armed' => /\ ~T /\ ~TooLate(want) /\ req = "out" /\ armed /\ due \in Distances
                   /\ UNCHANGED <<due, fireIn>>
  BY Zenon, <1>5, ReapTime
<1>10. Owed' = left
  BY Zenon, <1>1, <1>8 DEF Owed
<1>11. ASSUME ~T
       PROVE  /\ want \in Distances /\ Dist(want) \in Int
              /\ app.tmo <= Dist(want) /\ Dist(want) <= app.tmo + U - 1
              /\ Dist(want) = want * U /\ want # Never
  <2>1. want < LongMax
    BY <1>6, <1>11, Consts DEF T
  <2> QED
    BY Zenon, <1>3, <2>1, TicksDist, DistInt DEF want
<1>12. app'.wanted \in Distances \cup {Never} /\ app'.span \in Nat
  <2>1. 0 \in Nat
    OBVIOUS
  <2> QED
    BY Zenon, <1>3, <1>8, <1>11, <2>1
<1>13. Clocked'
  BY Zenon, <1>1, <1>8, <1>9, <1>12 DEF TInv, Clocked
<1>14. DeadlineSet' /\ NotStale'
  BY Zenon, <1>8, <1>9 DEF DeadlineSet, NotStale
<1>15. TerminalOwn'
  <2>1. T => ~armed' /\ req' # "out" /\ req' # "reply"
    BY Zenon, <1>5, <1>9, Reaped
  <2> QED
    BY Zenon, <1>1, <1>2, <1>4, <1>8, <1>9, <1>11, <2>1 DEF TerminalOwn
<1>16. NotEarly'
  <2>1. ~T => left <= Dist(want) - phase + U - 1
    BY <1>3, <1>4, <1>11, Numbers, Sizes
  <2> QED
    BY Zenon, <1>1, <1>2, <1>4, <1>8, <2>1 DEF NotEarly, After
<1>17. ASSUME armed'
       PROVE  fireIn <= U \/ fireIn <= Dist(want) - phase + 2 * U - 1 + MaxLag
  <2>1. fireIn <= U \/ fireIn <= Dist(due) - phase + U - 1 + MaxLag
    BY Zenon, <1>2, <1>9, <1>17 DEF TInv, DueTells, After
  <2>2. Dist(due) <= Dist(want) + U /\ Dist(due) \in Int
    <3>1. Dist(due) <= want * U + U
      BY Zenon, <1>6, <1>9, <1>17, KeptDist
    <3> QED
      BY Zenon, <1>9, <1>11, <1>17, <3>1, DistInt
  <2> QED
    BY <1>9, <1>11, <1>17, <2>1, <2>2, Numbers, Sizes
<1>18. DueTells'
  BY Zenon, <1>1, <1>2, <1>9 DEF TInv, DueTells, After
<1>19. NotLate'
  <2>1. ~T => Dist(want) - phase <= left + MaxLag + U - 1
    BY <1>3, <1>4, <1>11, Numbers, Sizes
  <2>2. app.tmo <= left + lag + MaxLag + 2 * U - 1
    BY <1>3, <1>4, Numbers, Sizes
  <2>3. ~T => /\ app.tmo <= Dist(want) - phase + 2 * U - 1 + lag
              /\ app.tmo <= Dist(want) - phase + U - 1 + lag
    BY <1>3, <1>11, Numbers, Sizes
  <2> QED
    BY Zenon, <1>1, <1>8, <1>10, <1>11, <2>1, <2>2, <2>3 DEF NotLate, After
<1>20. NotOverdue'
  <2>1. armed' => fireIn <= Dist(want) - phase + 4 * U + 2 * MaxLag - 2
    BY <1>3, <1>9, <1>11, <1>17, Numbers, Sizes
  <2>2. req' \in {"back", "out"}
    BY Zenon, <1>5, Reaped
  <2> QED
    BY Zenon, <1>1, <1>8, <1>9, <2>1, <2>2 DEF NotOverdue, After
<1>21. ReliedOnTime'
  <2>1. armed' => fireIn < left + 3 * U + 2 * MaxLag
    BY <1>3, <1>4, <1>9, <1>11, <1>17, Numbers, Sizes
  <2> QED
    BY Zenon, <1>8, <1>9, <1>10, <2>1 DEF ReliedOnTime, Relying
<1> QED
  BY Zenon, <1>13, <1>14, <1>15, <1>16, <1>18, <1>19, <1>20, <1>21 DEF TInv

LEMMA SendTime ==
  ASSUME IInv, TInv, Send
  PROVE  TInv'
<1>1. /\ app.pc = "send" /\ app \in Locals /\ UNCHANGED <<phase, lag, left>>
      /\ app.call \in {"select", "wait", "poll", "pause"}
      /\ sig' = sig \ {"timer"} /\ req' = "out" /\ armed' = TRUE /\ fireIn' = app.span
      /\ due' = IF app.terminal THEN 0 ELSE app.wanted
  BY Zenon DEF Send, Arm, IInv, TypeOK, PlaceOfCall, Locals, Calls
<1>2. PICK w, p :
        /\ app' = [app EXCEPT !.running = TRUE, !.span = 0, !.wanted = w, !.pc = p]
        /\ w = IF app.call \in {"wait", "poll"} THEN Never ELSE app.wanted
        /\ app.call = "pause" => p = "sleep"
        /\ app.call \in {"wait", "poll"} => p = "park"
        /\ app.call = "select" => p \in {"pend", "wait"}
  <2> DEFINE p == CASE app.call = "pause" -> "sleep"
                    [] app.call \in {"wait", "poll"} -> "park"
                    [] app.call = "select" /\ app.running -> "pend"
                    [] OTHER -> "wait"
             w == IF app.call \in {"wait", "poll"} THEN Never ELSE app.wanted
  <2>1. app' = [app EXCEPT !.running = TRUE, !.span = 0, !.wanted = w, !.pc = p]
    BY Zenon DEF Send
  <2>2. /\ app.call = "pause" => p = "sleep"
        /\ app.call \in {"wait", "poll"} => p = "park"
        /\ app.call = "select" => p \in {"pend", "wait"}
    <3>1. app.call = "pause" => p = "sleep"
      BY Zenon
    <3>2. app.call \in {"wait", "poll"} => p = "park"
      BY Zenon
    <3>3. app.call = "select" => p \in {"pend", "wait"}
      <4>1. CASE app.running
        BY Zenon, <4>1
      <4>2. CASE ~app.running
        BY Zenon, <4>2
      <4> QED
        BY Zenon, <4>1, <4>2
    <3> QED
      BY Zenon, <3>1, <3>2, <3>3
  <2>3. w = IF app.call \in {"wait", "poll"} THEN Never ELSE app.wanted
    OBVIOUS
  <2> HIDE DEF p, w
  <2> QED
    BY Zenon, <2>1, <2>2, <2>3
<1>3. /\ app'.pc = p /\ app'.call = app.call /\ app'.tmo = app.tmo /\ app'.span = 0
      /\ app'.running /\ app'.terminal = app.terminal /\ app'.rem = app.rem
      /\ app'.ago = app.ago /\ app'.wanted = w
  BY Zenon, <1>1, <1>2 DEF Locals
<1>4. NotEarly' /\ Owed' = Owed
  BY Zenon, <1>1, <1>2, <1>3, SameAsk
<1>5. /\ app.span <= Owed + lag + MaxLag + 2 * U - 1
      /\ app.terminal \/ app.wanted # Never
      /\ app.wanted # Never =>
           /\ app.span <= Dist(app.wanted) - phase + 2 * U - 1 + lag
           /\ app.span <= U \/ app.span <= Dist(app.wanted) - phase + U - 1 + lag
  BY Zenon, <1>1 DEF TInv, NotLate, After
<1>6. due' \in Distances /\ due' # Never
  <2>1. 0 \in Distances
    BY Sizes DEF Distances
  <2> QED
    BY Zenon, <1>1, <1>5, <2>1, Numbers, DistInt
<1>7. Clocked'
  <2>1. 0 \in Nat
    OBVIOUS
  <2>2. app'.wanted \in Distances \cup {Never} /\ fireIn' \in Nat
    BY Zenon, <1>1, <1>2, <1>3, Numbers
  <2> QED
    BY Zenon, <1>1, <1>3, <1>6, <2>1, <2>2 DEF TInv, Clocked
<1>8. DeadlineSet' /\ NotStale'
  <2>1. app.call # "select" => ~app.terminal
    BY Zenon DEF TInv, TerminalOwn
  <2> QED
    BY Zenon, <1>1, <1>2, <1>3, <1>5, <2>1 DEF DeadlineSet, NotStale
<1>9. TerminalOwn'
  <2>1. /\ app.terminal => app.call = "select" /\ app.wanted = Never /\ left <= app.span
        /\ app.call = "select" => app.tmo # Never
    BY Zenon, <1>1 DEF TInv, TerminalOwn
  <2> QED
    BY Zenon, <1>1, <1>2, <1>3, <1>5, <2>1 DEF TerminalOwn
<1>10. DueTells'
  <2>1. app.wanted # Never =>
          app.span <= U \/ app.span <= Dist(app.wanted) - phase + U - 1 + MaxLag
    BY <1>5, Numbers, Sizes
  <2> QED
    BY Zenon, <1>1, <1>3, <1>5, <2>1 DEF DueTells, After
<1>11. NotLate'
  BY Zenon, <1>1, <1>2, <1>3, <1>4 DEF TInv, NotLate, After
<1>12. NotOverdue'
  <2>1. app.wanted # Never
          => app.span <= Dist(app.wanted) - phase + 4 * U + 2 * MaxLag - 2
    BY <1>5, Numbers, Sizes
  <2> QED
    BY Zenon, <1>1, <1>2, <1>3, <2>1 DEF NotOverdue, After
<1>13. ReliedOnTime'
  <2>1. app.span < Owed + 3 * U + 2 * MaxLag
    BY <1>5, Numbers, Sizes
  <2> QED
    BY Zenon, <1>1, <1>4, <2>1 DEF ReliedOnTime
<1> QED
  BY Zenon, <1>4, <1>7, <1>8, <1>9, <1>10, <1>11, <1>12, <1>13 DEF TInv

LEMMA SelectCheckTime ==
  ASSUME IInv, TInv, SelectCheck
  PROVE  TInv'
<1>1. /\ app.pc = "check" /\ app \in Locals /\ UNCHANGED <<phase, lag, left>>
      /\ app.call = "select" /\ app.running /\ req = "reply"
  BY Zenon DEF SelectCheck, IInv, TypeOK, PlaceOfCall, RequestHeard, TInv, NotStale
<1>2. /\ ~armed' /\ due' = Never /\ req' = "back" /\ UNCHANGED fireIn
      /\ \/ /\ ~app.terminal /\ Signed(app.wanted) > 0
            /\ app' = [app EXCEPT !.pc = "send", !.span = Signed(app.wanted) * U]
         \/ /\ ~(~app.terminal /\ Signed(app.wanted) > 0)
            /\ app' = [app EXCEPT !.pc = "last", !.running = FALSE]
  BY Zenon, <1>1 DEF SelectCheck
<1>3. /\ app.tmo # Never /\ (app.terminal => left = 0)
      /\ ~app.terminal => app.wanted # Never
  BY Zenon, <1>1 DEF TInv, TerminalOwn
<1>4. /\ app.wanted # Never => Dist(app.wanted) - phase <= Owed + MaxLag + U - 1
      /\ app.wanted # Never => left = 0 \/ left <= Dist(app.wanted) - phase + U - 1
  BY Zenon, <1>1 DEF TInv, NotLate, NotEarly, After
<1>5. CASE /\ ~app.terminal /\ Signed(app.wanted) > 0
           /\ app' = [app EXCEPT !.pc = "send", !.span = Signed(app.wanted) * U]
  <2>1. PICK n : n = Dist(app.wanted) /\ app' = [app EXCEPT !.pc = "send", !.span = n]
    BY Zenon, <1>5 DEF Dist
  <2>2. /\ app'.pc = "send" /\ app'.call = app.call /\ app'.tmo = app.tmo
        /\ app'.span = Dist(app.wanted) /\ app'.running = app.running
        /\ app'.terminal = app.terminal /\ app'.rem = app.rem
        /\ app'.wanted = app.wanted /\ app'.ago = app.ago
    BY Zenon, <1>1, <2>1 DEF Locals
  <2>3. app.wanted \in Distances /\ Dist(app.wanted) \in Nat
    <3>1. app.wanted \in Distances
      BY Zenon, <1>3, <1>5, Numbers
    <3> QED
      BY <1>5, <3>1, DistInt, Sizes
  <2>4. NotEarly' /\ Owed' = Owed
    BY Zenon, <1>1, <2>2, SameAsk
  <2>5. Clocked'
    BY Zenon, <1>1, <1>2, <2>2, <2>3 DEF TInv, Clocked
  <2>6. DeadlineSet' /\ NotStale' /\ DueTells' /\ NotOverdue' /\ ReliedOnTime'
    BY Zenon, <1>2, <2>2 DEF DeadlineSet, NotStale, DueTells, NotOverdue, ReliedOnTime
  <2>7. TerminalOwn'
    BY Zenon, <1>3, <1>5, <2>2 DEF TerminalOwn
  <2>8. NotLate'
    <3>1. /\ Dist(app.wanted) <= Owed + lag + MaxLag + 2 * U - 1
          /\ Dist(app.wanted) <= Dist(app.wanted) - phase + 2 * U - 1 + lag
          /\ Dist(app.wanted) <= Dist(app.wanted) - phase + U - 1 + lag
      BY <1>3, <1>4, <1>5, <2>3, Numbers, Sizes
    <3> QED
      BY Zenon, <1>1, <1>3, <1>4, <1>5, <2>2, <2>4, <3>1 DEF NotLate, After
  <2> QED
    BY Zenon, <2>4, <2>5, <2>6, <2>7, <2>8 DEF TInv
<1>6. CASE /\ ~(~app.terminal /\ Signed(app.wanted) > 0)
           /\ app' = [app EXCEPT !.pc = "last", !.running = FALSE]
  <2>1. /\ app'.pc = "last" /\ app'.call = app.call /\ app'.tmo = app.tmo
        /\ app'.span = app.span /\ ~app'.running /\ app'.terminal = app.terminal
        /\ app'.rem = app.rem /\ app'.wanted = app.wanted /\ app'.ago = app.ago
    BY Zenon, <1>1, <1>6 DEF Locals
  <2>2. left < U
    <3>1. CASE app.terminal
      BY <1>3, <3>1, Sizes
    <3>2. CASE ~app.terminal
      <4>1. app.wanted \in Distances /\ ~(Signed(app.wanted) > 0) /\ app.wanted # Never
        BY Zenon, <1>3, <1>6, <3>2, Numbers
      <4>2. Dist(app.wanted) <= 0
        BY <4>1, DistInt
      <4> QED
        BY <1>4, <4>1, <4>2, Numbers, Sizes
    <3> QED
      BY Zenon, <3>1, <3>2
  <2>3. Clocked'
    BY Zenon, <1>1, <1>2, <2>1 DEF TInv, Clocked
  <2>4. DeadlineSet' /\ NotStale' /\ DueTells' /\ NotLate' /\ NotOverdue' /\ ReliedOnTime'
    BY Zenon, <1>2, <2>1
    DEF DeadlineSet, NotStale, DueTells, NotLate, NotOverdue, ReliedOnTime
  <2>5. TerminalOwn'
    BY Zenon, <1>1, <1>2, <2>1 DEF TInv, TerminalOwn
  <2>6. NotEarly'
    BY Zenon, <1>1, <2>1, <2>2 DEF TInv, NotEarly, After
  <2> QED
    BY Zenon, <2>3, <2>4, <2>5, <2>6 DEF TInv
<1> QED
  BY Zenon, <1>2, <1>5, <1>6

----------------------------------------------------------------------------
(* The blocking calls and the pause.                                       *)
LEMMA BlockingPlain ==
  ASSUME IInv, TInv, app.call \in {"wait", "poll", "pause"}
  PROVE  /\ ~app.terminal
         /\ app.pc \in {"slices", "slice", "park", "reenter"} => app.wanted = Never
<1>1. ~app.terminal
  BY Zenon DEF TInv, TerminalOwn
<1> QED
  BY Zenon, <1>1 DEF TInv, DeadlineSet

(* Beginning to count anew never makes what a call counts smaller, nor     *)
(* does taking from it what has been counted.                              *)
LEMMA CountAnew ==
  ASSUME IInv, TInv, app.rem # Never
  PROVE  /\ app.rem \in Nat /\ app.rem * U \in Nat /\ Count <= app.rem * U
         /\ app.rem = 0 => Count <= 0
         /\ app.ago # Never /\ app.tmo # Never =>
              Spend \in Nat /\ Spend <= app.rem /\ Spend * U \in Nat /\ Count <= Spend * U
<1>1. app.rem \in Nat /\ app.ago \in Nat \cup {Never}
  BY Zenon DEF TInv, Clocked
<1>2. \A n \in Nat : n * U \in Nat
  BY Sizes, SMT
<1>3. Count <= app.rem * U
  <2>1. CASE app.ago = Never
    BY <1>1, <1>2, <2>1 DEF Count
  <2>2. CASE app.ago # Never
    <3>1. app.rem - app.ago \in Int /\ app.rem - app.ago <= app.rem /\ app.rem \in Int
      BY <1>1, <2>2
    <3> QED
      BY Zenon, <2>2, <3>1, Times DEF Count
  <2> QED
    BY Zenon, <2>1, <2>2
<1>4. app.rem = 0 => Count <= 0
  <2>1. 0 * U = 0
    BY Sizes
  <2> QED
    BY Zenon, <1>3, <2>1
<1>5. ASSUME app.ago # Never, app.tmo # Never
      PROVE  Spend \in Nat /\ Spend <= app.rem /\ Count <= Spend * U
  <2>1. Spend \in Nat /\ Spend <= app.rem /\ app.rem - app.ago <= Spend
    BY <1>1, <1>5 DEF Spend
  <2>2. app.rem - app.ago \in Int /\ Spend \in Int
    BY <1>1, <1>5, <2>1
  <2> QED
    BY Zenon, <1>5, <2>1, <2>2, Times DEF Count
<1> QED
  BY Zenon, <1>1, <1>2, <1>3, <1>4, <1>5

(* A place of a blocking call where nothing is asked of the timer.         *)
LEMMA CountingTime ==
  ASSUME IInv, TInv, app.call \in {"wait", "poll"}, UNCHANGED <<phase, left>>,
         lag' \in 0 .. MaxLag, app'.pc \in {"slices", "slice", "reenter"} \/
                               (app'.pc = "park" /\ ~app'.running),
         app'.call = app.call, app'.tmo = app.tmo, app'.wanted = Never,
         app'.span = app.span, app'.terminal = app.terminal,
         app'.rem \in Nat \cup {Never}, app'.ago \in Nat \cup {Never},
         app'.pc # "slices" => app'.ago # Never,
         app.tmo # Never => /\ app'.rem # Never /\ app'.rem <= LongMax
                            /\ left = 0 \/ left <= Count' - phase + U - 1,
         fireIn' \in Nat, due' \in Distances \cup {Never}, armed' => due' # Never,
         req' = "out" => /\ req = "out" /\ armed /\ "timer" \notin sig'
                         /\ UNCHANGED <<due, fireIn>>
  PROVE  TInv'
<1>1. ~app.terminal
  BY Zenon, BlockingPlain
<1>2. Clocked'
  BY Zenon DEF TInv, Clocked
<1>3. DeadlineSet' /\ NotStale' /\ TerminalOwn'
  BY Zenon, <1>1 DEF DeadlineSet, NotStale, TerminalOwn
<1>4. NotEarly'
  BY Zenon DEF TInv, NotEarly
<1>5. DueTells'
  BY Zenon, <1>1 DEF TInv, DueTells, After
<1>6. NotLate' /\ NotOverdue' /\ ReliedOnTime'
  BY Zenon DEF NotLate, NotOverdue, ReliedOnTime, Relying
<1> QED
  BY Zenon, <1>2, <1>3, <1>4, <1>5, <1>6 DEF TInv

LEMMA TimerSame ==
  ASSUME IInv, TInv, UNCHANGED timerVars, "timer" \in sig' => "timer" \in sig
  PROVE  /\ UNCHANGED <<armed, req, due, fireIn>>
         /\ fireIn' \in Nat /\ due' \in Distances \cup {Never} /\ (armed' => due' # Never)
         /\ req' = "out" => /\ req = "out" /\ armed /\ "timer" \notin sig'
                            /\ UNCHANGED <<due, fireIn>>
<1>1. UNCHANGED <<armed, req, due, fireIn>>
  BY Zenon DEF timerVars
<1>2. fireIn \in Nat /\ due \in Distances \cup {Never} /\ (armed => due # Never)
  BY Zenon DEF TInv, Clocked
<1> QED
  BY Zenon, <1>1, <1>2 DEF IInv, TInv, RequestHeard, NotStale

(* The end of a turn: what it counted is taken from what remains.          *)
LEMMA SpentTime ==
  ASSUME IInv, TInv, app.pc \in {"slice", "reenter"}, UNCHANGED <<phase, left>>,
         lag' \in 0 .. MaxLag, app'.pc = "slices", app'.call = app.call,
         app'.tmo = app.tmo, app'.wanted = app.wanted, app'.span = app.span,
         app'.terminal = app.terminal, app'.rem = Spend, app'.ago = Never,
         fireIn' \in Nat, due' \in Distances \cup {Never}, armed' => due' # Never,
         req' = "out" => /\ req = "out" /\ armed /\ "timer" \notin sig'
                         /\ UNCHANGED <<due, fireIn>>
  PROVE  TInv'
<1>1. app.call \in {"wait", "poll"}
  BY Zenon DEF IInv, PlaceOfCall
<1>2. /\ app.ago # Never /\ app.rem \in Nat \cup {Never}
      /\ app.tmo # Never => app.rem # Never /\ app.rem <= LongMax
  BY Zenon, <1>1 DEF TInv, Clocked
<1>3. app.tmo = Never => Spend = app.rem
  BY Zenon DEF Spend
<1>4. app.tmo # Never => Spend \in Nat /\ Spend # Never /\ Spend <= LongMax
  BY <1>2, CountAnew, Consts DEF Never
<1>5. app.tmo # Never => left = 0 \/ left <= Spend * U - phase + U - 1
  <2>1. app.tmo # Never => left = 0 \/ left <= Count - phase + U - 1
    BY Zenon, <1>1 DEF TInv, NotEarly
  <2> QED
    BY <1>2, <2>1, CountAnew, Numbers, Sizes
<1>6. Count' = Spend * U
  BY Zenon DEF Count
<1>7. app'.rem \in Nat \cup {Never} /\ app'.ago \in Nat \cup {Never}
  BY Zenon, <1>2, <1>3, <1>4
<1>8. app'.wanted = Never
  BY Zenon, <1>1, BlockingPlain
<1> QED
  BY Zenon, <1>1, <1>4, <1>5, <1>6, <1>7, <1>8, CountingTime

LEMMA SliceEndTime ==
  ASSUME IInv, TInv, SliceEnd
  PROVE  TInv'
<1>1. /\ app.pc = "slice" /\ app \in Locals /\ app.call \in {"wait", "poll"}
      /\ UNCHANGED <<phase, sig, timerVars, left>>
  BY Zenon DEF SliceEnd, IInv, TypeOK, PlaceOfCall
<1>2. lag' \in 0 .. MaxLag
  BY Sizes DEF SliceEnd
<1>3. CASE Answer("ready")
  BY Zenon, <1>1, <1>2, <1>3, BlockingPlain, AnswerTime DEF Answers
<1>4. CASE app' = [app EXCEPT !.pc = "slices", !.rem = Spend, !.ago = Never]
  <2>1. /\ app'.pc = "slices" /\ app'.call = app.call /\ app'.tmo = app.tmo
        /\ app'.span = app.span /\ app'.terminal = app.terminal
        /\ app'.wanted = app.wanted /\ app'.rem = Spend /\ app'.ago = Never
    BY Zenon, <1>1, <1>4 DEF Locals
  <2> QED
    BY Zenon, <1>1, <1>2, <2>1, TimerSame, SpentTime
<1> QED
  BY Zenon, <1>3, <1>4 DEF SliceEnd

(* A turn's span is in the range of a distance.                            *)
LEMMA TurnSpan ==
  ASSUME IInv, TInv, app.call \in {"wait", "poll"}, app.call = "poll" \/ app.tmo # Never,
         NEW span, span = IF app.call = "poll" THEN SliceLen ELSE app.rem
  PROVE  span \in Nat /\ span <= LongMax
<1>1. /\ app.rem \in Nat \cup {Never}
      /\ app.tmo # Never => app.rem # Never /\ app.rem <= LongMax
  BY Zenon DEF TInv, Clocked
<1>2. Slice \in Nat /\ Slice <= LongMax
  BY WaitSelectAssumption, TimeAssumption
<1>3. SliceLen = Slice \/ (SliceLen = app.rem /\ app.tmo # Never)
  BY Zenon DEF SliceLen
<1> QED
  BY Zenon, <1>1, <1>2, <1>3

LEMMA SliceTurnTime ==
  ASSUME IInv, TInv, SliceTurn
  PROVE  TInv'
<1>1. /\ app.pc = "slices" /\ app \in Locals /\ app.call \in {"wait", "poll"}
      /\ UNCHANGED <<phase, lag, timerVars, left>>
      /\ "timer" \in sig' => "timer" \in sig
  BY Zenon DEF SliceTurn, IInv, TypeOK, PlaceOfCall
<1>2. lag' \in 0 .. MaxLag
  BY Zenon, <1>1 DEF TInv, Clocked
<1>3. /\ app.tmo # Never => left = 0 \/ left <= Count - phase + U - 1
      /\ app.tmo # Never => app.rem # Never /\ app.rem <= LongMax
      /\ app.rem \in Nat \cup {Never}
  BY Zenon, <1>1 DEF TInv, NotEarly, Clocked
<1>4. CASE Answer("eintr") \/ Answer("ready")
  BY Zenon, <1>1, <1>2, <1>4, BlockingPlain, AnswerTime DEF Answers
<1>5. CASE app.tmo # Never /\ app.rem = 0 /\ Answer("timeout")
  <2>1. Count <= 0
    BY Zenon, <1>3, <1>5, CountAnew
  <2>2. left < U
    BY <1>3, <1>5, <2>1, Numbers, Sizes
  <2> QED
    BY Zenon, <1>1, <1>2, <1>5, <2>2, BlockingPlain, AnswerTime DEF Answers
<1>6. 0 \in Nat /\ 0 # Never /\ app.rem - 0 = app.rem
  BY <1>3 DEF Never
<1>7. app.tmo # Never => left = 0 \/ left <= (app.rem - 0) * U - phase + U - 1
  <2>1. app.tmo # Never => left = 0 \/ left <= app.rem * U - phase + U - 1
    BY <1>3, CountAnew, Numbers, Sizes
  <2> QED
    BY Zenon, <1>6, <2>1
<1>8. CASE app' = [app EXCEPT !.pc = "slice", !.ago = 0]
  <2>1. /\ app'.pc = "slice" /\ app'.call = app.call /\ app'.tmo = app.tmo
        /\ app'.span = app.span /\ app'.terminal = app.terminal
        /\ app'.wanted = app.wanted /\ app'.rem = app.rem /\ app'.ago = 0
    BY Zenon, <1>1, <1>8 DEF Locals
  <2>2. Count' = (app.rem - 0) * U
    BY Zenon, <1>6, <2>1 DEF Count
  <2> QED
    BY Zenon, <1>1, <1>2, <1>3, <1>6, <1>7, <2>1, <2>2, BlockingPlain, TimerSame,
       CountingTime
<1>9. CASE LET span == IF app.call = "poll" THEN SliceLen ELSE app.rem
               timed == app.call = "poll" \/ app.tmo # Never
           IN app' = [app EXCEPT !.ago = 0, !.running = timed,
                        !.pc = IF timed THEN "until" ELSE "park",
                        !.wanted = IF timed THEN span ELSE Never]
  <2> DEFINE span == IF app.call = "poll" THEN SliceLen ELSE app.rem
             timed == app.call = "poll" \/ app.tmo # Never
  <2>1. /\ app' = [app EXCEPT !.ago = 0, !.running = timed,
                     !.pc = IF timed THEN "until" ELSE "park",
                     !.wanted = IF timed THEN span ELSE Never]
        /\ timed \in BOOLEAN
    BY Zenon, <1>9
  <2>2. timed => span \in Nat /\ span <= LongMax
    BY Zenon, <1>1, TurnSpan
  <2>3. SliceLen' = SliceLen /\ Owed' = span * U
        /\ (~timed => app.tmo = Never) /\ Count' = (app.rem - 0) * U
    <3>1. app'.call = app.call /\ app'.tmo = app.tmo /\ app'.rem = app.rem /\ app'.ago = 0
      BY Zenon, <1>1, <1>9 DEF Locals
    <3>2. SliceLen' = SliceLen
      BY Zenon, <3>1 DEF SliceLen
    <3>3. Owed' = span * U
      BY Zenon, <1>1, <3>1, <3>2 DEF Owed
    <3>4. Count' = (app.rem - 0) * U
      BY Zenon, <1>6, <3>1 DEF Count
    <3> QED
      BY Zenon, <3>2, <3>3, <3>4
  <2> HIDE DEF span, timed
  <2>4. /\ app'.pc = (IF timed THEN "until" ELSE "park")
        /\ app'.call = app.call /\ app'.tmo = app.tmo
        /\ app'.span = app.span /\ app'.terminal = app.terminal
        /\ app'.wanted = (IF timed THEN span ELSE Never)
        /\ app'.rem = app.rem /\ app'.ago = 0 /\ (app'.running <=> timed)
    BY Zenon, <1>1, <2>1 DEF Locals
  <2>5. CASE ~timed
    BY Zenon, <1>1, <1>2, <1>3, <1>6, <1>7, <2>3, <2>4, <2>5, TimerSame, CountingTime
  <2>6. CASE timed
    <3>1. span \in Distances /\ Dist(span) = span * U /\ span * U \in Nat /\ span # Never
      BY Zenon, <2>2, <2>6, SmallDist, DistInt
    <3>2. Clocked'
      BY Zenon, <1>1, <1>2, <1>6, <2>4, <2>6, <3>1, TimerSame DEF TInv, Clocked
    <3>3. DeadlineSet' /\ NotStale' /\ TerminalOwn'
      BY Zenon, <1>1, <2>4, <2>6, TimerSame, BlockingPlain
      DEF DeadlineSet, NotStale, TerminalOwn
    <3>4. NotEarly'
      BY Zenon, <1>1, <1>7, <2>3, <2>4, <2>6 DEF TInv, NotEarly
    <3>5. DueTells'
      BY Zenon, <1>1, <2>4, TimerSame, SameDue
    <3>6. NotLate'
      <4>1. /\ Dist(span) - phase <= span * U + MaxLag + U - 1
            /\ 0 <= Dist(span) - phase + U - 1 + lag /\ 0 <= span * U
        BY <3>1, Numbers, Sizes
      <4> QED
        BY Zenon, <1>1, <2>3, <2>4, <2>6, <3>1, <4>1 DEF NotLate, After
    <3>7. NotOverdue' /\ ReliedOnTime'
      BY Zenon, <2>4, <2>6 DEF NotOverdue, ReliedOnTime, Relying
    <3> QED
      BY Zenon, <3>2, <3>3, <3>4, <3>5, <3>6, <3>7 DEF TInv
  <2> QED
    BY Zenon, <2>5, <2>6
<1> QED
  BY Zenon, <1>4, <1>5, <1>8, <1>9 DEF SliceTurn

LEMMA UntilFailsTime ==
  ASSUME IInv, TInv, UntilFails
  PROVE  TInv'
<1>1. /\ app.pc = "until" /\ app \in Locals /\ app.call \in {"wait", "poll", "pause"}
      /\ UNCHANGED <<phase, lag, sig, timerVars, left>>
  BY Zenon DEF UntilFails, IInv, TypeOK, PlaceOfCall
<1>2. lag' \in 0 .. MaxLag
  BY Zenon, <1>1 DEF TInv, Clocked
<1>3. CASE app.call = "pause"
  BY Zenon, <1>1, <1>2, <1>3, BlockingPlain, AnswerTime DEF UntilFails, Answers
<1>4. CASE app.call # "pause"
  <2>1. app' = [app EXCEPT !.pc = "slice", !.ago = 0, !.wanted = Never]
    BY Zenon, <1>4 DEF UntilFails
  <2>2. /\ app'.pc = "slice" /\ app'.call = app.call /\ app'.tmo = app.tmo
        /\ app'.span = app.span /\ app'.terminal = app.terminal
        /\ app'.wanted = Never /\ app'.rem = app.rem /\ app'.ago = 0
    BY Zenon, <1>1, <2>1 DEF Locals
  <2>3. /\ app.tmo # Never => left = 0 \/ left <= Count - phase + U - 1
        /\ app.tmo # Never => app.rem # Never /\ app.rem <= LongMax
        /\ app.rem \in Nat \cup {Never}
    BY Zenon, <1>1, <1>4 DEF TInv, NotEarly, Clocked
  <2>4. 0 \in Nat /\ 0 # Never /\ app.rem - 0 = app.rem
    BY <2>3 DEF Never
  <2>5. app.tmo # Never => left = 0 \/ left <= app.rem * U - phase + U - 1
    BY <2>3, CountAnew, Numbers, Sizes
  <2>6. Count' = app.rem * U
    BY Zenon, <2>2, <2>4 DEF Count
  <2> QED
    BY Zenon, <1>1, <1>2, <1>4, <2>2, <2>3, <2>4, <2>5, <2>6, TimerSame, CountingTime
<1> QED
  BY Zenon, <1>3, <1>4

LEMMA ParkTime ==
  ASSUME IInv, TInv, Park
  PROVE  TInv'
<1> DEFINE r == Received(Mask)
<1>1. /\ app.pc \in {"park", "sleep"} /\ app \in Locals
      /\ UNCHANGED <<phase, timerVars, left>> /\ r # {} /\ sig' = sig \ (r \ {"brk"})
      /\ lag' = 0 /\ ("timer" \in sig' => "timer" \in sig)
  BY Zenon DEF Park, IInv, TypeOK
<1>2. lag' \in 0 .. MaxLag
  BY <1>1, Sizes
<1>3. app' = [app EXCEPT !.recv = r, !.pc = IF @ = "park" THEN "reenter" ELSE "awake"]
  BY Zenon DEF Park
<1>4. app.pc = "sleep" => r = sig \cap {"timer", "brk"}
  BY Zenon DEF Received, Mask
<1> HIDE DEF r
<1>5. /\ app'.pc = (IF app.pc = "park" THEN "reenter" ELSE "awake")
      /\ app'.call = app.call /\ app'.tmo = app.tmo /\ app'.span = app.span
      /\ app'.terminal = app.terminal /\ app'.wanted = app.wanted
      /\ app'.rem = app.rem /\ app'.ago = app.ago /\ app'.recv = r
  BY Zenon, <1>1, <1>3 DEF Locals
<1>6. CASE app.pc = "park"
  <2>1. app.call \in {"wait", "poll"}
    BY Zenon, <1>6 DEF IInv, PlaceOfCall
  <2>2. Count' = Count
    BY Zenon, <1>5 DEF Count
  <2>3. /\ app.tmo # Never => left = 0 \/ left <= Count' - phase + U - 1
        /\ app.tmo # Never => app.rem # Never /\ app.rem <= LongMax
        /\ app.rem \in Nat \cup {Never} /\ app.ago \in Nat \cup {Never} /\ app.ago # Never
    BY Zenon, <1>6, <2>1, <2>2 DEF TInv, NotEarly, Clocked
  <2> QED
    BY Zenon, <1>1, <1>2, <1>5, <1>6, <2>1, <2>3, BlockingPlain, TimerSame, CountingTime
<1>7. CASE app.pc = "sleep"
  <2>1. app.call = "pause" /\ ~app.terminal /\ app.wanted # Never
    BY Zenon, <1>7, BlockingPlain DEF IInv, PlaceOfCall, TInv, DeadlineSet
  <2>2. req = "out" \/ (req = "reply" /\ "timer" \in sig)
    BY Zenon, <1>7 DEF IInv, RequestHeard, Relying
  <2>3. UNCHANGED <<armed, req, due, fireIn>>
    BY Zenon, <1>1, TimerSame
  <2>4. req = "out" => "timer" \notin sig
    BY Zenon DEF TInv, NotStale
  <2>5. Clocked'
    BY Zenon, <1>1, <1>2, <1>5, <1>7, <2>1, <2>3 DEF TInv, Clocked
  <2>6. NotStale'
    BY Zenon, <1>1, <1>4, <1>5, <1>7, <2>2, <2>3, <2>4 DEF NotStale
  <2>7. DeadlineSet' /\ TerminalOwn'
    BY Zenon, <1>5, <1>7, <2>1 DEF DeadlineSet, TerminalOwn
  <2>8. NotEarly' /\ Owed' = Owed
    BY Zenon, <1>1, <1>5, <1>7, SameAsk
  <2>9. DueTells'
    BY Zenon, <1>1, <1>5, <2>3, SameDue
  <2>10. NotLate'
    BY Zenon, <1>1, <1>5, <1>7, <2>8 DEF TInv, NotLate, After
  <2>11. NotOverdue'
    <3>1. /\ req = "out" => fireIn <= Dist(app.wanted) - phase + 4 * U + 2 * MaxLag - 2
          /\ req = "reply" => 0 <= Dist(app.wanted) - phase + 4 * U + 2 * MaxLag - 2 + lag + 0
      BY Zenon, <1>7, <2>1 DEF TInv, NotOverdue, After
    <3>2. req = "reply" =>
            0 <= Dist(app.wanted) - phase + 4 * U + 2 * MaxLag - 2 + 0 + MaxLag
      BY <2>1, <3>1, Numbers, Sizes
    <3> QED
      BY Zenon, <1>1, <1>5, <1>7, <2>3, <3>1, <3>2 DEF NotOverdue, After
  <2>12. ReliedOnTime'
    BY Zenon, <1>5, <1>7 DEF ReliedOnTime, Relying
  <2> QED
    BY Zenon, <2>5, <2>6, <2>7, <2>8, <2>9, <2>10, <2>11, <2>12 DEF TInv
<1> QED
  BY Zenon, <1>1, <1>6, <1>7

LEMMA TakeTime ==
  ASSUME IInv, TInv, Take, UNCHANGED sig
  PROVE  /\ fireIn' \in Nat /\ due' \in Distances \cup {Never} /\ (armed' => due' # Never)
         /\ req' = "out" => /\ req = "out" /\ armed /\ "timer" \notin sig'
                            /\ UNCHANGED <<due, fireIn>>
<1>1. CASE UNCHANGED timerVars
  BY Zenon, <1>1, TimerSame
<1>2. CASE armed' = FALSE /\ due' = Never /\ req' = "back" /\ UNCHANGED <<opened, fireIn>>
  BY Zenon, <1>2, Numbers
<1> QED
  BY Zenon, <1>1, <1>2 DEF Take

LEMMA ReenterTime ==
  ASSUME IInv, TInv, Reenter
  PROVE  TInv'
<1>1. /\ app.pc = "reenter" /\ app \in Locals /\ app.call \in {"wait", "poll"}
      /\ UNCHANGED <<phase, lag, sig, left>>
  BY Zenon DEF Reenter, IInv, TypeOK, PlaceOfCall
<1>2. lag' \in 0 .. MaxLag
  BY Zenon, <1>1 DEF TInv, Clocked
<1>3. CASE (Answer("eintr") \/ Answer("error")) /\ UNCHANGED timerVars
  BY Zenon, <1>1, <1>2, <1>3, BlockingPlain, AnswerTime DEF Answers
<1>4. CASE /\ Take
           /\ app' = [app EXCEPT !.pc = "slices", !.rem = Spend, !.ago = Never, !.recv = {}]
  <2>1. /\ app'.pc = "slices" /\ app'.call = app.call /\ app'.tmo = app.tmo
        /\ app'.span = app.span /\ app'.terminal = app.terminal
        /\ app'.wanted = app.wanted /\ app'.rem = Spend /\ app'.ago = Never
    BY Zenon, <1>1, <1>4 DEF Locals
  <2> QED
    BY Zenon, <1>1, <1>2, <1>4, <2>1, TakeTime, SpentTime
<1> QED
  BY Zenon, <1>3, <1>4 DEF Reenter

(* bsd_timer_until(): at least a tick, and otherwise the deadline itself.  *)
LEMMA UntilTime ==
  ASSUME IInv, TInv, Until
  PROVE  TInv'
<1>1. /\ app.pc = "until" /\ app \in Locals /\ app.call \in {"wait", "poll", "pause"}
      /\ UNCHANGED <<phase, lag, left>>
  BY Zenon DEF Until, IInv, TypeOK, PlaceOfCall
<1>2. /\ app.wanted # Never /\ 0 <= Dist(app.wanted) - phase + U - 1 + lag /\ 0 <= Owed
      /\ Dist(app.wanted) - phase <= Owed + MaxLag + U - 1
  BY Zenon, <1>1 DEF TInv, NotLate, After
<1>3. app.wanted \in Distances /\ Dist(app.wanted) \in Int
  BY Zenon, <1>2, Numbers
<1> DEFINE want == IF Signed(app.wanted) < 1 THEN 1 ELSE Signed(app.wanted)
           X == want * U
<1>4. /\ Reap(TooLate(want))
      /\ app' = [app EXCEPT !.span = IF armed' THEN 0 ELSE X,
                   !.wanted = IF armed' /\ app.call # "pause" THEN Never ELSE @,
                   !.pc = IF ~armed' THEN "send"
                          ELSE IF app.call = "pause" THEN "sleep" ELSE "park"]
  BY Zenon DEF Until
<1>5. want \in Int /\ X \in Nat /\ (X = Dist(app.wanted) \/ (X = U /\ Dist(app.wanted) <= 0))
  <2>1. Signed(app.wanted) \in Int /\ (Signed(app.wanted) <= 0 => Dist(app.wanted) <= 0)
        /\ (Signed(app.wanted) >= 1 => Dist(app.wanted) >= U)
    BY Zenon, <1>3, DistInt
  <2>2. CASE Signed(app.wanted) < 1
    <3>1. want = 1 /\ 1 * U = U /\ Dist(app.wanted) <= 0
      BY <2>1, <2>2, Sizes
    <3> QED
      BY <3>1, Sizes
  <2>3. CASE ~(Signed(app.wanted) < 1)
    <3>1. want = Signed(app.wanted) /\ X = Dist(app.wanted)
      BY Zenon, <2>3 DEF Dist
    <3> HIDE DEF X, want
    <3> QED
      BY <1>3, <2>1, <2>3, <3>1, Sizes
  <2> QED
    BY Zenon, <2>2, <2>3
<1>6. armed' => Dist(due) <= X + U
  BY Zenon, <1>4, <1>5, ReapTime, KeptDist
<1> HIDE DEF want, X
<1>7. /\ fireIn' \in Nat /\ due' \in Distances \cup {Never} /\ (armed' => due' # Never)
      /\ req' = "out" => "timer" \notin sig'
      /\ armed' <=> req' = "out"
      /\ armed' => /\ req = "out" /\ armed /\ due \in Distances /\ UNCHANGED <<due, fireIn>>
  BY Zenon, <1>4, ReapTime
<1>8. /\ app'.call = app.call /\ app'.tmo = app.tmo /\ app'.rem = app.rem
      /\ app'.ago = app.ago /\ app'.terminal = app.terminal
      /\ app'.span = (IF armed' THEN 0 ELSE X)
      /\ app'.wanted = (IF armed' /\ app.call # "pause" THEN Never ELSE app.wanted)
      /\ app'.pc = (IF ~armed' THEN "send"
                    ELSE IF app.call = "pause" THEN "sleep" ELSE "park")
  BY Zenon, <1>1, <1>4 DEF Locals
<1>9. NotEarly' /\ Owed' = Owed
  BY Zenon, <1>1, <1>8, SameAsk
<1>10. ~app.terminal
  BY Zenon, <1>1, BlockingPlain
<1>11. Clocked'
  <2>1. 0 \in Nat
    OBVIOUS
  <2>2. app'.wanted \in Distances \cup {Never} /\ app'.span \in Nat
    BY Zenon, <1>3, <1>5, <1>8, <2>1
  <2> QED
    BY Zenon, <1>1, <1>7, <1>8, <2>2 DEF TInv, Clocked
<1>12. DeadlineSet' /\ NotStale' /\ TerminalOwn'
  BY Zenon, <1>1, <1>2, <1>7, <1>8, <1>10 DEF DeadlineSet, NotStale, TerminalOwn
<1>13. DueTells'
  BY Zenon, <1>1, <1>7, <1>8, <1>10 DEF TInv, DueTells, After
<1>14. ASSUME armed'
       PROVE  fireIn <= U \/ fireIn <= X - phase + 2 * U - 1 + MaxLag
  <2>1. fireIn <= U \/ fireIn <= Dist(due) - phase + U - 1 + MaxLag
    BY Zenon, <1>7, <1>10, <1>14 DEF TInv, DueTells, After
  <2>2. Dist(due) \in Int
    BY Zenon, <1>7, <1>14, DistInt
  <2> QED
    BY <1>5, <1>6, <1>14, <2>1, <2>2, Numbers, Sizes
<1>15. NotLate'
  <2>1. /\ X <= Owed + lag + MaxLag + 2 * U - 1
        /\ X <= Dist(app.wanted) - phase + 2 * U - 1 + lag
        /\ X <= U \/ X <= Dist(app.wanted) - phase + U - 1 + lag
    BY <1>2, <1>3, <1>5, Numbers, Sizes
  <2> QED
    BY Zenon, <1>1, <1>2, <1>8, <1>9, <2>1 DEF NotLate, After
<1>16. NotOverdue'
  <2>1. armed' => fireIn <= Dist(app.wanted) - phase + 4 * U + 2 * MaxLag - 2
    BY <1>2, <1>3, <1>5, <1>14, Numbers, Sizes
  <2>2. req' \in {"back", "out"}
    BY Zenon, <1>4, Reaped
  <2> QED
    BY Zenon, <1>1, <1>7, <1>8, <2>1, <2>2 DEF NotOverdue, After
<1>17. ReliedOnTime'
  <2>1. armed' => fireIn < Owed + 3 * U + 2 * MaxLag
    BY <1>2, <1>3, <1>5, <1>14, Numbers, Sizes
  <2> QED
    BY Zenon, <1>7, <1>9, <2>1 DEF ReliedOnTime
<1> QED
  BY Zenon, <1>9, <1>11, <1>12, <1>13, <1>15, <1>16, <1>17 DEF TInv

LEMMA AwakeTime ==
  ASSUME IInv, TInv, Awake
  PROVE  TInv'
<1>1. /\ app.pc = "awake" /\ app \in Locals /\ app.call = "pause" /\ Take
      /\ UNCHANGED <<phase, lag, sig, left>>
  BY Zenon DEF Awake, IInv, TypeOK, PlaceOfCall
<1>2. /\ lag' \in 0 .. MaxLag /\ ~app.terminal /\ app.wanted # Never
  BY Zenon, <1>1, BlockingPlain DEF TInv, Clocked, DeadlineSet
<1>3. app.wanted \in Distances /\ Dist(app.wanted) \in Int
  BY Zenon, <1>2, Numbers
<1>4. CASE Answer("eintr")
  BY Zenon, <1>1, <1>2, <1>4, TakeTime, AnsweredTime DEF Answers
<1>5. CASE Signed(app.wanted) <= 0 /\ Answer("timeout")
  <2>1. left = 0 \/ left <= Dist(app.wanted) - phase + U - 1
    BY Zenon, <1>1, <1>2 DEF TInv, NotEarly, After
  <2>2. Dist(app.wanted) <= 0
    BY Zenon, <1>3, <1>5, DistInt
  <2>3. left < U
    BY <1>3, <2>1, <2>2, Numbers, Sizes
  <2> QED
    BY Zenon, <1>1, <1>2, <1>5, <2>3, TakeTime, AnsweredTime DEF Answers
<1>6. CASE /\ "brk" \notin app.recv /\ ~(~armed' /\ Signed(app.wanted) <= 0)
           /\ app' = [app EXCEPT !.pc = "until", !.recv = {}]
  <2>1. req = "reply" /\ "timer" \in app.recv /\ armed
    BY Zenon, <1>1, <1>6 DEF IInv, RequestHeard, TInv, NotStale
  <2>2. armed' = FALSE /\ due' = Never /\ req' = "back" /\ UNCHANGED fireIn
    BY Zenon, <1>1, <2>1 DEF Take
  <2>3. /\ app'.pc = "until" /\ app'.call = app.call /\ app'.tmo = app.tmo
        /\ app'.span = app.span /\ app'.terminal = app.terminal
        /\ app'.wanted = app.wanted /\ app'.rem = app.rem /\ app'.ago = app.ago
    BY Zenon, <1>1, <1>6 DEF Locals
  <2>4. Dist(app.wanted) >= U
    <3>1. ~(Signed(app.wanted) <= 0)
      BY Zenon, <1>6, <2>2
    <3> QED
      BY <1>3, <3>1, DistInt
  <2>5. NotEarly' /\ Owed' = Owed
    BY Zenon, <1>1, <2>3, SameAsk
  <2>6. Owed = left
    BY Zenon, <1>1 DEF Owed
  <2>7. Clocked'
    BY Zenon, <1>1, <2>2, <2>3 DEF TInv, Clocked
  <2>8. DeadlineSet' /\ NotStale' /\ TerminalOwn' /\ DueTells' /\ NotOverdue' /\ ReliedOnTime'
    BY Zenon, <1>1, <1>2, <2>2, <2>3
    DEF DeadlineSet, NotStale, TerminalOwn, DueTells, NotOverdue, ReliedOnTime
  <2>9. NotLate'
    <3>1. Dist(app.wanted) - phase <= Owed + MaxLag + U - 1
      BY Zenon, <1>1, <1>2 DEF TInv, NotLate, After
    <3>2. 0 <= Dist(app.wanted) - phase + U - 1 + lag /\ 0 <= Owed
      BY <1>3, <2>4, <2>6, Numbers, Sizes
    <3> QED
      BY Zenon, <1>1, <1>2, <2>3, <2>5, <3>1, <3>2 DEF NotLate, After
  <2> QED
    BY Zenon, <2>5, <2>7, <2>8, <2>9 DEF TInv
<1> QED
  BY Zenon, <1>4, <1>5, <1>6 DEF Awake

----------------------------------------------------------------------------
(* A call begins or is over: the request is as it was, and nothing is      *)
(* asked of it yet.                                                        *)
LEMMA StartTime ==
  ASSUME IInv, TInv, app.pc \in {"idle", "ret"}, UNCHANGED <<phase, sig, timerVars>>,
         lag' = 0, left' \in Nat,
         app'.pc \in {"idle", "pend", "slices", "until"}, ~app'.running, ~app'.terminal,
         app'.span = 0, app'.ago = Never,
         app'.wanted \in Distances \cup {Never}, app'.tmo \in Nat \cup {Never},
         app'.rem \in Nat \cup {Never},
         app'.call \in {"wait", "poll"} =>
           app'.pc = "slices" /\ (app'.tmo # Never => app'.rem # Never /\ app'.rem <= LongMax),
         app'.wanted # Never => app'.pc = "until",
         NotEarly', NotLate'
  PROVE  TInv'
<1>1. ~app.terminal
  BY Zenon DEF TInv, TerminalOwn
<1>2. 0 \in 0 .. MaxLag /\ 0 \in Nat
  BY Sizes
<1>3. Clocked'
  BY Zenon, <1>2, TimerSame DEF TInv, Clocked
<1>4. DeadlineSet' /\ NotStale' /\ TerminalOwn'
  BY Zenon, TimerSame DEF DeadlineSet, NotStale, TerminalOwn
<1>5. DueTells'
  BY Zenon, <1>1, TimerSame DEF TInv, DueTells, After
<1>6. NotOverdue' /\ ReliedOnTime'
  BY Zenon DEF NotOverdue, ReliedOnTime, Relying
<1> QED
  BY Zenon, <1>3, <1>4, <1>5, <1>6 DEF TInv

LEMMA ReturnTime ==
  ASSUME IInv, TInv, Return
  PROVE  TInv'
<1>1. app.pc = "ret" /\ UNCHANGED <<phase, sig, timerVars>> /\ lag' = 0 /\ left' = 0
  BY Zenon DEF Return
<1>2. /\ app'.pc = "idle" /\ app'.call = "none" /\ app'.tmo = Never /\ app'.wanted = Never
      /\ app'.span = 0 /\ ~app'.running /\ ~app'.terminal /\ app'.rem = 0 /\ app'.ago = Never
  BY Zenon DEF Return, Idle
<1>3. 0 \in Nat /\ 0 <= 0
  OBVIOUS
<1>4. NotEarly' /\ NotLate'
  BY Zenon, <1>1, <1>2, <1>3 DEF NotEarly, NotLate
<1> QED
  BY Zenon, <1>1, <1>2, <1>3, <1>4, StartTime

LEMMA Begun ==
  ASSUME NEW locals, Begin(locals)
  PROVE  /\ app.pc = "idle" /\ UNCHANGED <<phase, sig, timerVars>> /\ lag' = 0
         /\ app' = locals /\ left' = IF app'.tmo = Never THEN 0 ELSE app'.tmo
BY SMT DEF Begin

LEMMA CallSelectTime ==
  ASSUME IInv, TInv, NEW t \in Timeouts \cup {Never}, NEW u, CallSelect(t, u)
  PROVE  TInv'
<1>1. /\ app.pc = "idle" /\ UNCHANGED <<phase, sig, timerVars>> /\ lag' = 0
      /\ app' = [Idle EXCEPT !.pc = "pend", !.call = "select", !.tmo = t, !.umask = u]
  BY Zenon DEF CallSelect, Begin
<1>2. /\ app'.pc = "pend" /\ app'.call = "select" /\ app'.tmo = t /\ app'.wanted = Never
      /\ app'.span = 0 /\ ~app'.running /\ ~app'.terminal /\ app'.rem = 0 /\ app'.ago = Never
  BY Zenon, <1>1 DEF Idle
<1>3. left' = IF t = Never THEN 0 ELSE t
  BY Zenon, <1>1, <1>2 DEF CallSelect, Begin
<1>4. t \in Nat \cup {Never} /\ 0 \in Nat
  BY WaitSelectAssumption
<1>5. left' \in Nat /\ left' <= left' /\ (t # Never => t <= left' + 0)
  BY <1>3, <1>4
<1>6. NotEarly'
  BY Zenon, <1>2, <1>3, <1>5 DEF NotEarly
<1>7. NotLate'
  BY Zenon, <1>1, <1>2, <1>5 DEF NotLate
<1> QED
  BY Zenon, <1>1, <1>2, <1>4, <1>5, <1>6, <1>7, StartTime

LEMMA WaitUnits ==
  ASSUME NEW n \in Waits
  PROVE  /\ n \in Nat /\ n <= LongMax /\ n # Never
         /\ n \in Distances /\ Dist(n) = n * U /\ n * U \in Nat /\ n * U # Never
<1>1. n \in Nat /\ n <= LongMax /\ n # Never
  BY WaitSelectAssumption, TimeAssumption DEF Never
<1>2. n \in Distances /\ Dist(n) = n * U /\ n * U \in Nat
  BY Zenon, <1>1, SmallDist
<1>3. \A x \in Nat : x # Never
  BY DEF Never
<1> QED
  BY Zenon, <1>1, <1>2, <1>3

LEMMA CallWaitTime ==
  ASSUME IInv, TInv, NEW c \in {"wait", "poll"}, NEW n \in Waits \cup {Never},
         CallWait(c, n)
  PROVE  TInv'
<1> DEFINE t == IF n = Never THEN Never ELSE n * U
<1>1. /\ app.pc = "idle" /\ UNCHANGED <<phase, sig, timerVars>> /\ lag' = 0
      /\ app' = [Idle EXCEPT !.pc = "slices", !.call = c, !.rem = n, !.tmo = t]
  BY Zenon DEF CallWait, Begin
<1>2. t = Never \/ (n # Never /\ t = n * U /\ t \in Nat /\ t # Never)
  BY Zenon, WaitUnits
<1>3. left' = IF app'.tmo = Never THEN 0 ELSE app'.tmo
  BY Zenon, Begun DEF CallWait
<1>4. n = Never => t = Never
  BY Zenon
<1> HIDE DEF t
<1>5. /\ app'.pc = "slices" /\ app'.call = c /\ app'.tmo = t /\ app'.wanted = Never
      /\ app'.span = 0 /\ ~app'.running /\ ~app'.terminal /\ app'.rem = n /\ app'.ago = Never
  BY Zenon, <1>1 DEF Idle
<1>6. Count' = n * U
  BY Zenon, <1>5 DEF Count
<1>7. left' \in Nat /\ left' <= left' /\ (t # Never => left' <= n * U - phase + U - 1)
  BY <1>2, <1>3, <1>5, Numbers, Sizes
<1>8. NotEarly'
  BY Zenon, <1>1, <1>3, <1>5, <1>6, <1>7 DEF NotEarly
<1>9. NotLate'
  BY Zenon, <1>5 DEF NotLate
<1>10. n \in Nat \cup {Never} /\ (t # Never => n # Never /\ n <= LongMax)
  BY Zenon, <1>2, <1>4, WaitUnits
<1>11. t \in Nat \cup {Never}
  BY Zenon, <1>2
<1> QED
  BY Zenon, <1>1, <1>5, <1>7, <1>8, <1>9, <1>10, <1>11, StartTime

LEMMA CallPauseTime ==
  ASSUME IInv, TInv, NEW n \in Waits, CallPause(n)
  PROVE  TInv'
<1> DEFINE t == n * U
<1>1. /\ app.pc = "idle" /\ UNCHANGED <<phase, sig, timerVars>> /\ lag' = 0
      /\ app' = [Idle EXCEPT !.pc = "until", !.call = "pause", !.tmo = t, !.wanted = n]
      /\ left' = IF app'.tmo = Never THEN 0 ELSE app'.tmo
  BY Zenon, Begun DEF CallPause
<1>2. /\ t \in Nat /\ t # Never /\ n \in Distances /\ Dist(n) = t /\ n # Never
  BY Zenon, WaitUnits
<1> HIDE DEF t
<1>3. /\ app'.pc = "until" /\ app'.call = "pause" /\ app'.tmo = t /\ app'.wanted = n
      /\ app'.span = 0 /\ ~app'.running /\ ~app'.terminal /\ app'.rem = 0 /\ app'.ago = Never
  BY Zenon, <1>1 DEF Idle
<1>4. left' = t /\ Owed' = t
  BY Zenon, <1>1, <1>2, <1>3 DEF Owed
<1>5. /\ t <= t /\ t <= Dist(n) - phase + U - 1 /\ Dist(n) - phase <= t + MaxLag + U - 1
      /\ 0 <= Dist(n) - phase + U - 1 + 0 /\ 0 <= t /\ 0 \in Nat
  BY <1>2, Numbers, Sizes
<1>6. NotEarly'
  BY Zenon, <1>1, <1>2, <1>3, <1>4, <1>5 DEF NotEarly, After
<1>7. NotLate'
  BY Zenon, <1>1, <1>2, <1>3, <1>4, <1>5 DEF NotLate, After
<1> QED
  BY Zenon, <1>1, <1>2, <1>3, <1>4, <1>5, <1>6, <1>7, StartTime

LEMMA CallerTime ==
  ASSUME IInv, TInv, Caller
  PROVE  TInv'
<1>1. CASE \E t \in Timeouts \cup {Never}, u \in Masks : CallSelect(t, u)
  BY Zenon, <1>1, CallSelectTime
<1>2. CASE \E c \in {"wait", "poll"}, n \in Waits \cup {Never} : CallWait(c, n)
  BY Zenon, <1>2, CallWaitTime
<1>3. CASE \E n \in Waits : CallPause(n)
  BY Zenon, <1>3, CallPauseTime
<1>4. CASE Recv \/ Collect
  BY Zenon, <1>4, OthersTime DEF Recv, Collect, timerVars
<1>5. CASE Close
  <2>1. /\ UNCHANGED <<phase, lag, app, left>> /\ ~armed' /\ req' = "back"
        /\ due' = Never /\ fireIn' = 0 /\ app.pc = "idle"
    BY Zenon, <1>5 DEF Close
  <2>2. 0 \in Nat
    OBVIOUS
  <2>3. Clocked' /\ DeadlineSet' /\ NotStale'
    BY Zenon, <2>1, <2>2 DEF TInv, Clocked, DeadlineSet, NotStale
  <2>4. TerminalOwn'
    BY Zenon, <2>1 DEF TInv, TerminalOwn
  <2>5. NotEarly'
    BY Zenon, <2>1 DEF TInv, NotEarly, Count, After
  <2>6. DueTells' /\ NotOverdue' /\ ReliedOnTime'
    BY Zenon, <2>1 DEF DueTells, NotOverdue, ReliedOnTime
  <2>7. NotLate'
    BY Zenon, <2>1 DEF TInv, NotLate, Owed, SliceLen, After
  <2> QED
    BY Zenon, <2>3, <2>4, <2>5, <2>6, <2>7 DEF TInv
<1> QED
  BY Zenon, <1>1, <1>2, <1>3, <1>4, <1>5 DEF Caller

----------------------------------------------------------------------------
LEMMA InitTInv == Init => TInv
<1> SUFFICES ASSUME Init PROVE TInv
  OBVIOUS
<1>1. /\ phase = 0 /\ lag = 0 /\ left = 0 /\ fireIn = 0 /\ due = Never /\ ~armed
      /\ req = "back"
      /\ app.pc = "idle" /\ app.call = "none" /\ app.tmo = Never /\ app.wanted = Never
      /\ app.span = 0 /\ ~app.running /\ ~app.terminal /\ app.rem = 0 /\ app.ago = Never
  BY Zenon DEF Init, Idle
<1>2. 0 \in 0 .. U - 1 /\ 0 \in 0 .. MaxLag /\ 0 \in Nat /\ 0 <= 0
  BY Sizes
<1>3. Clocked
  BY Zenon, <1>1, <1>2 DEF Clocked
<1>4. DeadlineSet /\ NotStale /\ TerminalOwn
  BY Zenon, <1>1 DEF DeadlineSet, NotStale, TerminalOwn
<1>5. NotEarly /\ DueTells /\ NotLate /\ NotOverdue /\ ReliedOnTime
  BY Zenon, <1>1, <1>2 DEF NotEarly, DueTells, NotLate, NotOverdue, ReliedOnTime
<1> QED
  BY Zenon, <1>3, <1>4, <1>5 DEF TInv

LEMMA NextTInv == IInv /\ TInv /\ [Next]_vars => TInv'
<1> SUFFICES ASSUME IInv, TInv, [Next]_vars PROVE TInv'
  OBVIOUS
<1>1. CASE Opener
  <2>1. CASE Pend \/ Poll \/ SelectArm \/ ArmFails \/ Send \/ SelectWait
             \/ SelectBroken \/ SelectCheck \/ SelectLast
    BY Zenon, <2>1, PendTime, PollTime, SelectArmTime, SendTime, SelectWaitTime,
       SelectCheckTime, EndTime
  <2>2. CASE SliceTurn \/ SliceEnd \/ Park \/ Reenter \/ Until \/ UntilFails
             \/ Awake \/ Return
    BY Zenon, <2>2, SliceTurnTime, SliceEndTime, ParkTime, ReenterTime, UntilTime,
       UntilFailsTime, AwakeTime, ReturnTime
  <2> QED
    BY Zenon, <1>1, <2>1, <2>2 DEF Opener
<1>2. CASE UNCHANGED vars
  BY Zenon, <1>2, OthersTime DEF vars, timerVars
<1> QED
  BY Zenon, <1>1, <1>2, CallerTime, CallbackTime, FireTime, ElapseTime DEF Next

(* Timeouts come on time: a wait that answers a timeout has less than a    *)
(* tick of the time asked for left, whatever request it was kept waiting   *)
(* by, and a request that WaitSelect(), a blocking call or a pause relies  *)
(* on, one armed by bsd_timer_arm() or kept by bsd_timer_until() from an   *)
(* earlier wait, fires less than three ticks and twice the opener's        *)
(* lateness after what is owed, through any wrap of the tick word.         *)
THEOREM TimeoutsOnTime == Spec => []OnTime
<1>1. IInv /\ TInv => OnTime
  <2> SUFFICES ASSUME IInv, TInv PROVE OnTime
    OBVIOUS
  <2>1. "timer" \in Mask => Relying
    <3> SUFFICES ASSUME "timer" \in Mask PROVE Relying
      OBVIOUS
    <3>1. app.umask \subseteq User /\ "timer" \notin User
      BY DEF IInv, TypeOK, Locals, User
    <3>2. CASE app.pc = "wait"
      BY Zenon, <3>1, <3>2 DEF Mask, Break, Relying
    <3>3. CASE app.pc = "park"
      BY Zenon, <3>3 DEF Mask, Relying
    <3>4. CASE app.pc \notin {"wait", "park"}
      BY Zenon, <3>4 DEF Mask, Relying
    <3> QED
      BY Zenon, <3>2, <3>3, <3>4
  <2> QED
    BY Zenon, <2>1 DEF TInv, NotEarly, ReliedOnTime, OnTime
<1>2. Init => TInv
  BY InitTInv
<1>3. IInv /\ TInv /\ [Next]_vars => TInv'
  BY NextTInv
<1> QED
  BY <1>1, <1>2, <1>3, Invariance, PTL DEF Spec
=============================================================================
