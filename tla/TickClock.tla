----------------------------- MODULE TickClock -----------------------------
(***************************************************************************)
(* The tick's arithmetic (_tx_amiga_tick_deliver(), tx_initialize_low_     *)
(* level.c): how a wakeup, early or late, is turned into ticks of the      *)
(* system clock and of the timer wheel.  The E-Clock is the time base; the *)
(* low word the service reads wraps, and Hz is not a multiple of TPS.      *)
(*                                                                         *)
(* The bookkeeping of a service is one step, each tick of its backlog is   *)
(* another, and time passes between any two.                               *)
(*                                                                         *)
(* UptimeOnce, AdvanceTruncated and AccountAll, before the definition each *)
(* varies, are plausible mistakes in the arithmetic.                       *)
(***************************************************************************)
EXTENDS Integers

CONSTANTS Hz,          \* E-Clock frequency
          TPS,         \* TX_TIMER_TICKS_PER_SECOND
          Wrap,        \* 2^32 in the code
          MaxCatchup,  \* TX_AMIGA_TIMER_MAX_CATCHUP
          MaxSleep,    \* bound: the most time that passes in one step
          Horizon      \* bound: where time ends

ASSUME TickClockAssumption ==
  /\ {Hz, TPS, Wrap, MaxCatchup, MaxSleep, Horizon} \subseteq Nat \ {0}
  /\ Hz >= TPS

PerTick == Hz \div TPS   \* tr_eclock_per_tick
Remain == Hz % TPS       \* tr_eclock_rem

VARIABLES now,             \* the whole E-Clock; the code reads now % Wrap
          lastLo, upLo,    \* tr_last_lo, tr_up_lo
          anchor, upTo,    \* what those two stand for before they wrap
          frac, upRem, backlog,  \* tr_frac, tr_up_rem, tr_backlog
          seconds,         \* tx_amiga_tick_uptime_ms / 1000
          clock,           \* _tx_timer_system_clock
          wheel,           \* calls of _tx_timer_interrupt()
          delivered, lost, \* tx_amiga_tick_delivered, tx_amiga_tick_lost
          owed, ran,       \* svc_owed and svc_i, while a service is delivering
          busy

timeVars == <<lastLo, upLo, anchor, upTo, frac, upRem, seconds, clock>>
wheelVars == <<backlog, wheel, delivered, lost, owed, ran, busy>>
vars == <<now, timeVars, wheelVars>>

TypeOK ==
  /\ {now, anchor, upTo, frac, upRem, backlog, seconds, clock, wheel, delivered,
      lost, owed, ran} \subseteq Nat
  /\ {lastLo, upLo} \subseteq 0 .. Wrap - 1
  /\ ran <= owed /\ owed <= backlog
  /\ busy \in BOOLEAN

Init ==
  /\ now = 0 /\ lastLo = 0 /\ upLo = 0 /\ anchor = 0 /\ upTo = 0
  /\ frac = 0 /\ upRem = 0 /\ backlog = 0 /\ seconds = 0 /\ clock = 0
  /\ wheel = 0 /\ delivered = 0 /\ lost = 0 /\ owed = 0 /\ ran = 0
  /\ busy = FALSE

(* Time passes; never a whole wrap between two services, the one thing the *)
(* low word cannot show.                                                   *)
Elapse ==
  \E d \in 1 .. MaxSleep :
    /\ now + d <= Horizon
    /\ now + d - anchor < Wrap /\ now + d - upTo < Wrap
    /\ now' = now + d
    /\ UNCHANGED <<timeVars, wheelVars>>

(* The uptime: whole seconds leave the remainder in a loop.                *)
UptimeOnce ==
  LET rem == upRem + ((now - upLo) % Wrap) IN
    /\ seconds' = IF rem >= Hz THEN seconds + 1 ELSE seconds
    /\ upRem' = rem % Hz
    /\ upLo' = now % Wrap /\ upTo' = now

Uptime ==
  LET rem == upRem + ((now - upLo) % Wrap) IN
    /\ seconds' = seconds + rem \div Hz
    /\ upRem' = rem % Hz
    /\ upLo' = now % Wrap /\ upTo' = now

(* The carry of the fractions, held over when it would pass the present.   *)
Carry(delta, measured) ==
  LET carry == (frac + measured * Remain) \div TPS IN
    IF measured * PerTick + carry > delta THEN 0 ELSE carry

(* The anchor moves by whole periods, the fraction is kept.                *)
AdvanceTruncated(measured, carry) ==
  /\ anchor' = anchor + measured * PerTick + carry
  /\ lastLo' = (lastLo + measured * PerTick + carry) % Wrap
  /\ frac' = (frac + measured * Remain) % TPS
  /\ clock' = clock + measured

Advance(measured, carry) ==
  /\ anchor' = anchor + measured * PerTick + carry
  /\ lastLo' = (lastLo + measured * PerTick + carry) % Wrap
  /\ frac' = frac + measured * Remain - carry * TPS
  /\ clock' = clock + measured

(* The backlog's ceiling, the only place a tick is thrown away.            *)
Clip(all) ==
  /\ backlog' = IF all > MaxCatchup THEN MaxCatchup ELSE all
  /\ lost' = lost + (all - backlog')

(* The first section of a service.                                         *)
Measure ==
  /\ ~busy
  /\ Uptime
  /\ LET delta == (now - lastLo) % Wrap
         measured == delta \div PerTick
     IN IF measured = 0
        THEN UNCHANGED <<anchor, lastLo, frac, clock, wheelVars>>
        ELSE /\ Advance(measured, Carry(delta, measured))
             /\ Clip(backlog + measured)
             /\ owed' = backlog' /\ ran' = 0 /\ busy' = TRUE
             /\ UNCHANGED <<wheel, delivered>>
  /\ UNCHANGED now

(* One tick of the wheel.                                                  *)
Interrupt ==
  /\ busy /\ ran < owed
  /\ wheel' = wheel + 1 /\ ran' = ran + 1
  /\ UNCHANGED <<now, timeVars, backlog, delivered, lost, owed, busy>>

(* The last section, when nothing is owed any more or, after at least one  *)
(* tick, the budget is spent; what is left waits for the next wakeup.      *)
AccountAll ==
  /\ busy /\ ran > 0
  /\ backlog' = backlog - owed /\ delivered' = delivered + ran
  /\ busy' = FALSE /\ owed' = 0 /\ ran' = 0
  /\ UNCHANGED <<now, timeVars, wheel, lost>>

Account ==
  /\ busy /\ ran > 0
  /\ backlog' = backlog - ran /\ delivered' = delivered + ran
  /\ busy' = FALSE /\ owed' = 0 /\ ran' = 0
  /\ UNCHANGED <<now, timeVars, wheel, lost>>

Next == Elapse \/ Measure \/ Interrupt \/ Account

Spec == Init /\ [][Next]_vars

----------------------------------------------------------------------------
(* No part of a tick is lost or gained, however the wakeups fall: the      *)
(* ticks the clock has counted, at their exact length Hz / TPS, are the    *)
(* E-Clocks the anchor has moved plus the fraction still carried.          *)
ClockExact == clock * Hz = anchor * TPS + frac

(* The anchor is never past the present, which the next service would read *)
(* as a wrap, and the wrapped words give the true distances back.          *)
AnchorBehind ==
  /\ anchor <= now /\ lastLo = anchor % Wrap
  /\ (now - lastLo) % Wrap = now - anchor

(* The uptime has missed no wrap and no second of a late wakeup.           *)
UptimeExact == seconds * Hz + upRem = upTo /\ upRem < Hz

(* Every tick of the clock reaches the wheel, waits in the backlog or is   *)
(* counted as lost, also halfway through a delivery.                       *)
TicksAccounted ==
  /\ clock = delivered + backlog + lost
  /\ wheel = delivered + ran

(* A stall of any length leaves at most MaxCatchup ticks to make up.       *)
BacklogCapped == backlog <= MaxCatchup
=============================================================================
