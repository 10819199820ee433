----------------------------- MODULE WaitSelect -----------------------------
(***************************************************************************)
(* The waits of a library base (select.c): WaitSelect(), the sliced wait   *)
(* of a blocking call and its park, bsd_pause(), and the one timer request *)
(* they share and leave out between calls.                                 *)
(*                                                                         *)
(* One opener, one socket it waits to read from, the thread that runs the  *)
(* socket's callbacks, timer.device, and whoever signals the opener.  Real *)
(* time runs in units, U to a tick.  The stack's own clock counts ticks in *)
(* a word of Word values (2^32 in the code); only differences from the     *)
(* present are ever read, so sb_TimerDue and the deadlines are kept as     *)
(* their distance from it, and a distance nobody reads any more as Never.  *)
(***************************************************************************)
EXTENDS Integers

CONSTANTS U,          \* units of real time in a tick
          Word,       \* values of a tick word
          Timeouts,   \* what a WaitSelect() may be given, in units
          Waits,      \* SO_RCVTIMEO and pauses, in ticks
          Masks,      \* the signal masks a WaitSelect() may be given
          Slice,      \* BSD_BREAK_SLICE_TICKS
          MaxLag      \* bound: units the opener is late between two Wait()s

Never == -1           \* no timeout, no distance

LongMax == Word \div 2 - 1

User == {"user", "brk"}

(* A caller's mask has none of the bits the library allocated for itself.  *)
ASSUME WaitSelectAssumption ==
  /\ U \in Nat \ {0} /\ Word \in Nat \ {0} /\ MaxLag \in Nat
  /\ Timeouts \subseteq Nat /\ Waits \subseteq Nat /\ Slice \in Nat
  /\ Masks \subseteq SUBSET User

(* Waits are under LONG_MAX ticks, and half a tick word is longer than a   *)
(* wait can be overdue.                                                    *)
ASSUME TimeAssumption ==
  /\ \A n \in Waits \cup {Slice} : n <= LongMax
  /\ 3 * U + 4 * MaxLag <= (Word \div 2) * U

VARIABLES phase,      \* units gone in this tick
          lag,        \* units the opener has been late since its last Wait()
          sig,        \* tc_SigRecvd of the opener
          ready,      \* the socket has something to read
          cb,         \* the callback: where it is, and what it will signal
          opened,     \* sb_TimerOpen
          armed,      \* sb_TimerArmed
          due,        \* sb_TimerDue less tx_time_get(), while armed
          req,        \* the request: with us, out, or replied
          fireIn,     \* units until it fires
          app,        \* the opener: where it is, and its locals
          left        \* units the caller of this wait has asked for still

sockVars == <<ready, cb>>
timerVars == <<opened, armed, due, req, fireIn>>
vars == <<phase, lag, sig, sockVars, timerVars, app, left>>

Idle == [pc |-> "idle", call |-> "none", tmo |-> Never, umask |-> {},
         wanted |-> Never, span |-> 0, running |-> FALSE, terminal |-> FALSE,
         got |-> {}, res |-> "none", rem |-> 0, ago |-> Never, recv |-> {}]

Init ==
  /\ phase = 0 /\ lag = 0
  /\ sig = {} /\ left = 0
  /\ ready = FALSE /\ cb = [pc |-> "idle", sigs |-> {}]
  /\ opened = FALSE /\ armed = FALSE /\ due = Never
  /\ req = "back" /\ fireIn = 0
  /\ app = Idle

(* The (LONG) of a distance.                                               *)
Signed(d) == IF d > LongMax THEN d - Word ELSE d

(* A distance one tick later.                                              *)
Nearer(d) == IF d = Never THEN Never ELSE (d - 1) % Word

(* bsd_timeout_ticks(): rounded up, saturated.                             *)
Ticks(units) ==
  LET n == (units + U - 1) \div U IN IF n >= Word THEN Word - 1 ELSE n

Goto(pc) == app' = [app EXCEPT !.pc = pc]

(* A call's answer; its other locals go.                                   *)
Answer(res) == app' = [Idle EXCEPT !.pc = "ret", !.res = res, !.tmo = app.tmo,
                                   !.got = app.got]

----------------------------------------------------------------------------
(* The socket's callbacks: bsd_event_post(), on a thread with the baton.   *)
(* The opener has the baton in these places.                               *)
Inside ==
  app.call \in {"wait", "poll"} /\ app.pc \in {"slices", "until", "send"}

(* Something arrives for the socket (or, with no change for a reader, room *)
(* to write); the event bit is looked at before it is signalled.           *)
Post ==
  /\ cb.pc = "idle" /\ ~Inside
  /\ \/ ready' = TRUE
     \/ UNCHANGED ready
  /\ cb' = [cb EXCEPT !.pc = "look"]
  /\ UNCHANGED <<phase, lag, sig, timerVars, app, left>>

PostLook ==
  /\ cb.pc = "look"
  /\ cb' = [pc |-> "signal", sigs |-> {"event"} \ sig]
  /\ UNCHANGED <<phase, lag, sig, ready, timerVars, app, left>>

PostSignal ==
  /\ cb.pc = "signal"
  /\ sig' = sig \cup cb.sigs
  /\ cb' = [pc |-> "idle", sigs |-> {}]
  /\ UNCHANGED <<phase, lag, ready, timerVars, app, left>>

(* What a BSD_WAKE_POLL call waits for comes without an event.             *)
Quiet ==
  /\ app.call = "poll" /\ ~Inside /\ cb.pc = "idle" /\ ~ready
  /\ ready' = TRUE
  /\ UNCHANGED <<phase, lag, sig, cb, timerVars, app, left>>

(* Somebody signals the opener.                                            *)
Others(s) ==
  /\ s \notin sig
  /\ sig' = sig \cup {s}
  /\ UNCHANGED <<phase, lag, sockVars, timerVars, app, left>>

----------------------------------------------------------------------------
(* timer.device and the passing of time.                                   *)
(* bsd_timer_reply(): the soft interrupt of the reply port.                *)
Fire ==
  /\ req = "out" /\ fireIn = 0
  /\ req' = "reply" /\ sig' = sig \cup {"timer"}
  /\ UNCHANGED <<phase, lag, sockVars, opened, armed, due, fireIn, app,
                 left>>

(* The request comes back: WaitIO() after CheckIO() or, with AbortIO()     *)
(* before it, bsd_timer_cancel(), whose reply signals as any other does.   *)
Taken ==
  /\ armed' = FALSE /\ due' = Never /\ req' = "back" /\ fireIn' = 0
  /\ sig' = IF req = "out" THEN sig \cup {"timer"} ELSE sig

Kept == UNCHANGED <<armed, due, req, fireIn, sig>>

(* Mutant: a request that has fired with nobody waiting is kept too.       *)
ReapMutant(late) == IF armed /\ late THEN Taken ELSE Kept

(* bsd_timer_reap(), and the cancel of a request too late for a wait.      *)
Reap(late) ==
  IF armed /\ (req = "reply" \/ late) THEN Taken ELSE Kept

(* A kept request is too late for a deadline want ticks away.              *)
TooLate(want) == Signed(due) > want + 1

(* Mutant: the event bit cleared with the timer's, after the poll.         *)
ArmMutant(units, at) ==
  /\ sig' = sig \ {"timer", "event"}
  /\ req' = "out" /\ fireIn' = units
  /\ armed' = TRUE /\ due' = at
  /\ UNCHANGED opened

(* bsd_timer_arm()                                                         *)
Arm(units, at) ==
  /\ sig' = sig \ {"timer"}
  /\ req' = "out" /\ fireIn' = units
  /\ armed' = TRUE /\ due' = at
  /\ UNCHANGED opened

(* Wait(mask): what it takes.                                              *)
Received(mask) == sig \cap mask

Break == {"brk"} \ app.umask

Mask ==
  CASE app.pc = "wait" -> {"event"} \cup app.umask \cup Break
                          \cup (IF app.running THEN {"timer"} ELSE {})
    [] app.pc = "park" -> {"event", "brk"}
                          \cup (IF app.running THEN {"timer"} ELSE {})
    [] app.pc = "sleep" -> {"timer", "brk"}
    [] OTHER -> {}

SliceLen ==
  IF app.tmo # Never /\ app.rem < Slice THEN app.rem ELSE Slice

(* What remains of a timed wait.                                           *)
Spend == IF app.tmo = Never THEN app.rem
         ELSE IF app.ago >= app.rem THEN 0 ELSE app.rem - app.ago

(* The opener has nothing to do: outside the library, or blocked.          *)
Asleep ==
  \/ app.pc = "idle"
  \/ app.pc = "slice" /\ ~ready /\ app.ago < SliceLen
  \/ Mask # {} /\ Received(Mask) = {}

Elapse ==
  /\ ~(req = "out" /\ fireIn = 0)
  /\ IF Asleep THEN UNCHANGED lag ELSE lag < MaxLag /\ lag' = lag + 1
  /\ phase' = (phase + 1) % U
  /\ fireIn' = IF req = "out" THEN fireIn - 1 ELSE fireIn
  /\ left' = IF left > 0 THEN left - 1 ELSE left
  /\ IF phase + 1 = U
     THEN /\ due' = Nearer(due)
          /\ app' = [app EXCEPT !.wanted = Nearer(@),
                       !.ago = IF @ = Never THEN @ ELSE (@ + 1) % Word]
     ELSE UNCHANGED <<due, app>>
  /\ UNCHANGED <<sig, sockVars, opened, armed, req>>

----------------------------------------------------------------------------
(* The opener's calls.  Each begins outside the library.                   *)
Begin(locals) ==
  /\ app.pc = "idle"
  /\ app' = locals /\ left' = IF locals.tmo = Never THEN 0 ELSE locals.tmo
  /\ lag' = 0
  /\ UNCHANGED <<phase, sig, sockVars, timerVars>>

CallSelect(t, umask) ==
  Begin([Idle EXCEPT !.pc = "pend", !.call = "select",
                     !.tmo = t, !.umask = umask])

CallWait(call, n) ==
  /\ cb.pc = "idle"
  /\ Begin([Idle EXCEPT !.pc = "slices", !.call = call, !.rem = n,
                        !.tmo = IF n = Never THEN Never ELSE n * U])

CallPause(n) ==
  /\ "brk" \notin sig
  /\ Begin([Idle EXCEPT !.pc = "until", !.call = "pause", !.tmo = n * U,
                        !.wanted = n])

(* The caller gets its answer, and the signals WaitSelect() took.          *)
Return ==
  /\ app.pc = "ret"
  /\ app' = Idle /\ left' = 0 /\ lag' = 0
  /\ UNCHANGED <<phase, sig, sockVars, timerVars>>

(* Between its calls the opener reads the socket dry, or sees to signals.  *)
Recv ==
  /\ app.pc = "idle" /\ cb.pc = "idle" /\ ready
  /\ ready' = FALSE
  /\ UNCHANGED <<phase, lag, sig, cb, timerVars, app, left>>

Collect ==
  /\ app.pc = "idle"
  /\ sig' = sig \ User
  /\ UNCHANGED <<phase, lag, sockVars, timerVars, app, left>>

(* bsd_timer_teardown() with the base; the opener opens another.           *)
Close ==
  /\ app.pc = "idle" /\ cb.pc = "idle"
  /\ armed' = FALSE /\ req' = "back" /\ fireIn' = 0
  /\ opened' = FALSE /\ due' = Never /\ ready' = FALSE
  /\ sig' = sig \ {"event", "timer"}
  /\ UNCHANGED <<phase, lag, cb, app, left>>

----------------------------------------------------------------------------
(* WaitSelect()                                                            *)
(* Mutant: the terminal request stays out like any other (F-066).          *)
LeaveMutant(res) == Answer(res) /\ Kept /\ UNCHANGED opened

(* A return takes back a request whose due time is no tick word.           *)
Leave(res) ==
  /\ Answer(res)
  /\ IF app.terminal /\ armed THEN Taken ELSE Kept
  /\ UNCHANGED opened

(* The top of the loop: the break, the caller's signals, the event bit.    *)
Pend ==
  /\ app.pc = "pend"
  /\ IF sig \cap Break # {}
     THEN Leave("eintr")
     ELSE /\ app' = [app EXCEPT !.pc = "poll",
                                !.got = @ \cup (sig \cap app.umask)]
          /\ sig' = sig \ (app.umask \cup {"event"})
          /\ UNCHANGED timerVars
  /\ UNCHANGED <<phase, lag, sockVars, left>>

(* bsd_poll_sets(), in its bracket, which the pool may refuse.             *)
Poll ==
  /\ app.pc = "poll" /\ cb.pc = "idle"
  /\ \/ Leave("error")
     \/ ready /\ Leave("ready")
     \/ ~ready /\ app.got # {} /\ Leave("signals")
     \/ ~ready /\ app.got = {} /\ app.tmo = 0 /\ Leave("timeout")
     \/ /\ ~ready /\ app.got = {} /\ app.tmo # 0
        /\ Goto(IF app.tmo # Never /\ ~app.running THEN "arm" ELSE "wait")
        /\ UNCHANGED <<sig, timerVars>>
  /\ UNCHANGED <<phase, lag, sockVars, left>>

(* A timeout: judge the request still out, and keep it or make way.        *)
SelectArm ==
  /\ app.pc = "arm"
  /\ LET want == Ticks(app.tmo)
         terminal == want >= LongMax
     IN /\ Reap(terminal \/ TooLate(want))
        /\ app' = [app EXCEPT !.pc = IF armed' THEN "wait" ELSE "send",
                              !.running = armed', !.terminal = terminal,
                              !.span = IF armed' THEN 0 ELSE app.tmo,
                              !.wanted = IF terminal THEN Never ELSE want]
  /\ opened' = TRUE
  /\ UNCHANGED <<phase, lag, sockVars, left>>

(* bsd_timer_open() fails.                                                 *)
ArmFails ==
  /\ app.pc = "arm" /\ ~opened
  /\ Answer("error")
  /\ UNCHANGED <<phase, lag, sig, sockVars, timerVars, left>>

(* bsd_timer_arm(), and on to the wait it was armed for.                   *)
Send ==
  /\ app.pc = "send"
  /\ Arm(app.span, IF app.terminal THEN 0 ELSE app.wanted)
  /\ app' = [app EXCEPT !.running = TRUE, !.span = 0,
                !.wanted = IF app.call \in {"wait", "poll"} THEN Never ELSE @,
                !.pc = CASE app.call = "pause" -> "sleep"
                         [] app.call \in {"wait", "poll"} -> "park"
                         [] app.call = "select" /\ app.running -> "pend"
                         [] OTHER -> "wait"]
  /\ UNCHANGED <<phase, lag, sockVars, left>>

(* Mutant: the break is taken from the Task for good.                      *)
SelectWaitMutant ==
  /\ app.pc = "wait"
  /\ LET r == Received(Mask) IN
       /\ r # {}
       /\ sig' = sig \ r
       /\ app' = [app EXCEPT !.got = @ \cup (r \cap app.umask),
                    !.pc = IF r \cap Break # {} THEN "broken"
                           ELSE IF "timer" \in r THEN "check" ELSE "pend"]
  /\ lag' = 0
  /\ UNCHANGED <<phase, sockVars, timerVars, left>>

(* Wait(): the break goes back to the Task, the rest is ours.              *)
SelectWait ==
  /\ app.pc = "wait"
  /\ LET r == Received(Mask) IN
       /\ r # {}
       /\ sig' = (sig \ r) \cup (r \cap Break)
       /\ app' = [app EXCEPT !.got = @ \cup (r \cap app.umask),
                    !.pc = IF r \cap Break # {} THEN "broken"
                           ELSE IF "timer" \in r THEN "check" ELSE "pend"]
  /\ lag' = 0
  /\ UNCHANGED <<phase, sockVars, timerVars, left>>

SelectBroken ==
  /\ app.pc = "broken"
  /\ Leave("eintr")
  /\ UNCHANGED <<phase, lag, sockVars, left>>

(* The timer's bit: a request armed for an earlier wait fired, or the one  *)
(* for the time this wait asked for.  (With no reply the bit is stale and  *)
(* the wait goes on; bsd_timer_arm() clearing it, none is.)                *)
SelectCheck ==
  /\ app.pc = "check"
  /\ IF req # "reply"
     THEN Goto("pend") /\ UNCHANGED <<sig, timerVars>>
     ELSE LET more == Signed(app.wanted) IN
          /\ armed' = FALSE /\ due' = Never /\ req' = "back"
          /\ UNCHANGED <<opened, fireIn>>
          /\ IF ~app.terminal /\ more > 0
             THEN /\ app' = [app EXCEPT !.pc = "send", !.span = more * U]
                  /\ UNCHANGED sig
             ELSE /\ app' = [app EXCEPT !.pc = "last", !.running = FALSE]
                  /\ sig' = sig \ {"event"}
  /\ UNCHANGED <<phase, lag, sockVars, left>>

SelectLast ==
  /\ app.pc = "last" /\ cb.pc = "idle"
  /\ \/ Leave("error")
     \/ Leave(IF ready THEN "ready"
              ELSE IF app.got # {} THEN "signals" ELSE "timeout")
  /\ UNCHANGED <<phase, lag, sockVars, left>>

----------------------------------------------------------------------------
(* bsd_wait_slices(), in the caller's bracket.                             *)

(* One turn: the break, the last try, or a try before the park.            *)
SliceTurn ==
  /\ app.pc = "slices"
  /\ IF "brk" \in sig
     THEN Answer("eintr") /\ UNCHANGED sig
     ELSE IF app.tmo # Never /\ app.rem = 0
     THEN Answer(IF ready THEN "ready" ELSE "timeout") /\ UNCHANGED sig
     ELSE \/ /\ app' = [app EXCEPT !.pc = "slice", !.ago = 0]
             /\ UNCHANGED sig
          \/ /\ sig' = sig \ {"event"}
             /\ IF ready
                THEN Answer("ready")
                ELSE LET span == IF app.call = "poll" THEN SliceLen ELSE app.rem
                         timed == app.call = "poll" \/ app.tmo # Never
                     IN app' = [app EXCEPT !.ago = 0, !.running = timed,
                                  !.pc = IF timed THEN "until" ELSE "park",
                                  !.wanted = IF timed THEN span ELSE Never]
  /\ UNCHANGED <<phase, lag, sockVars, timerVars, left>>

(* The slice in NetX Duo, outside the baton while it sleeps.               *)
SliceEnd ==
  /\ app.pc = "slice" /\ cb.pc = "idle"
  /\ \/ ready /\ Answer("ready")
     \/ /\ ~ready /\ app.ago >= SliceLen
        /\ app' = [app EXCEPT !.pc = "slices", !.rem = Spend, !.ago = Never]
  /\ lag' = 0
  /\ UNCHANGED <<phase, sig, sockVars, timerVars, left>>

(* bsd_nx_park(): the break stays set for the way back in.                 *)
Park ==
  /\ app.pc \in {"park", "sleep"}
  /\ LET r == Received(Mask) IN
       /\ r # {}
       /\ sig' = sig \ (r \ {"brk"})
       /\ app' = [app EXCEPT !.recv = r,
                    !.pc = IF @ = "park" THEN "reenter" ELSE "awake"]
  /\ lag' = 0
  /\ UNCHANGED <<phase, sockVars, timerVars, left>>

(* bsd_timer_take()                                                        *)
Take ==
  IF "timer" \in app.recv /\ armed /\ req = "reply"
  THEN armed' = FALSE /\ due' = Never /\ req' = "back"
       /\ UNCHANGED <<opened, fireIn>>
  ELSE UNCHANGED timerVars

Reenter ==
  /\ app.pc = "reenter" /\ cb.pc = "idle"
  /\ \/ /\ Answer(IF "brk" \in app.recv THEN "eintr" ELSE "error")
        /\ UNCHANGED timerVars
     \/ /\ "brk" \in app.recv /\ Answer("eintr") /\ UNCHANGED timerVars
     \/ /\ "brk" \notin app.recv /\ Take
        /\ app' = [app EXCEPT !.pc = "slices", !.rem = Spend,
                              !.ago = Never, !.recv = {}]
  /\ UNCHANGED <<phase, lag, sig, sockVars, left>>

(* bsd_timer_until(): the request kept, or made way for another.           *)
Until ==
  /\ app.pc = "until"
  /\ LET span == Signed(app.wanted)
         want == IF span < 1 THEN 1 ELSE span
     IN /\ Reap(TooLate(want))
        /\ app' = [app EXCEPT !.span = IF armed' THEN 0 ELSE want * U,
                     !.wanted = IF armed' /\ app.call # "pause" THEN Never ELSE @,
                     !.pc = IF ~armed' THEN "send"
                            ELSE IF app.call = "pause" THEN "sleep" ELSE "park"]
  /\ opened' = TRUE
  /\ UNCHANGED <<phase, lag, sockVars, left>>

UntilFails ==
  /\ app.pc = "until" /\ ~opened
  /\ IF app.call = "pause" THEN Answer("error")
     ELSE app' = [app EXCEPT !.pc = "slice", !.ago = 0, !.wanted = Never]
  /\ UNCHANGED <<phase, lag, sig, sockVars, timerVars, left>>

(* bsd_pause(), awake.                                                     *)
Awake ==
  /\ app.pc = "awake"
  /\ Take
  /\ IF "brk" \in app.recv THEN Answer("eintr")
     ELSE IF ~armed' /\ Signed(app.wanted) <= 0 THEN Answer("timeout")
     ELSE app' = [app EXCEPT !.pc = "until", !.recv = {}]
  /\ UNCHANGED <<phase, lag, sig, sockVars, left>>

----------------------------------------------------------------------------
Opener ==
  \/ Pend \/ Poll \/ SelectArm \/ ArmFails \/ Send \/ SelectWait
  \/ SelectBroken \/ SelectCheck \/ SelectLast
  \/ SliceTurn \/ SliceEnd \/ Park \/ Reenter \/ Until \/ UntilFails
  \/ Awake \/ Return

Caller ==
  \/ \E t \in Timeouts \cup {Never}, u \in Masks : CallSelect(t, u)
  \/ \E c \in {"wait", "poll"}, n \in Waits \cup {Never} : CallWait(c, n)
  \/ \E n \in Waits : CallPause(n)
  \/ Recv \/ Collect \/ Close

Callback == Post \/ PostLook \/ PostSignal

Next ==
  \/ Opener \/ Caller \/ Callback \/ Quiet \/ Fire \/ Elapse
  \/ \E s \in User : Others(s)

Spec == Init /\ [][Next]_vars

----------------------------------------------------------------------------
(* No wake-up is lost: an opener asleep on a socket that can be read has   *)
(* the event bit pending, or the callback has yet to decide on it.         *)
NoLostEvent ==
  /\ app.pc = "wait" \/ (app.pc = "park" /\ app.call = "wait")
  /\ ready /\ cb.pc = "idle"
  => "event" \in sig

(* The armed flag tells where the request is, and whoever relies on the    *)
(* request is told: it is out, or it has replied and its bit is pending.   *)
TimerHeard ==
  /\ armed <=> req # "back"
  /\ "timer" \in Mask => req = "out" \/ (req = "reply" /\ "timer" \in sig)

(* What the wait has asked the timer for: a WaitSelect() and a pause what  *)
(* is left of their time, a turn of a blocking call what it counts to be   *)
(* left, or a slice.                                                       *)
Owed ==
  CASE app.call = "wait" -> app.rem * U
    [] app.call = "poll" -> SliceLen * U
    [] OTHER -> left

(* "No wait ends before its time" to within the tick it counts in, and a   *)
(* request that is relied on, kept or new, fires less than three ticks and *)
(* twice the opener's own lateness after the time it is wanted for.        *)
OnTime ==
  /\ app.pc = "ret" /\ app.res = "timeout" => left < U
  /\ "timer" \in Mask /\ req = "out" => fireIn < Owed + 3 * U + 2 * MaxLag

(* A signal sent to the opener stays pending or in the mask the call will  *)
(* report until the call returns, whichever way it ends.                   *)
Pending == User \cap (sig \cup app.got)

SignalsKept == [][app.pc \in {"ret", "idle"} \/ Pending \subseteq Pending']_vars
=============================================================================
