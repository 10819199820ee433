-------------------------- MODULE TickClockProofs --------------------------
(***************************************************************************)
(* Proofs about TickClock, for every E-Clock frequency, tick rate, word    *)
(* size and backlog ceiling: the clock, the uptime and the tick accounts   *)
(* are exact whatever the pattern of wakeups.                              *)
(***************************************************************************)
EXTENDS TickClock, TLAPS

----------------------------------------------------------------------------
(* Division and remainder.                                                 *)

(* What division by a positive number gives.                               *)
LEMMA DivMod ==
  ASSUME NEW x \in Int, NEW d \in Nat \ {0}
  PROVE  /\ x \div d \in Int /\ x % d \in 0 .. d - 1
         /\ x = d * (x \div d) + (x % d)
BY SMT

(* Only zero is a multiple of d smaller than d.                            *)
LEMMA SmallMultiple ==
  ASSUME NEW k \in Int, NEW d \in Nat \ {0}, d * k < d, d * k > -d
  PROVE  k = 0
<1>1. CASE k >= 1
  <2>1. d * k >= d * 1  BY <1>1, SMT
  <2> QED BY <2>1, SMT
<1>2. CASE k <= -1
  <2>1. d * k <= d * (-1)  BY <1>2, SMT
  <2> QED BY <2>1, SMT
<1> QED BY <1>1, <1>2, SMT

(* The remainder and the quotient are unique.                              *)
LEMMA ModUnique ==
  ASSUME NEW q \in Int, NEW d \in Nat \ {0}, NEW r \in 0 .. d - 1
  PROVE  (d * q + r) % d = r /\ (d * q + r) \div d = q
<1> DEFINE x == d * q + r
           p == x \div d
           s == x % d
<1>1. x \in Int  BY SMT
<1>2. p \in Int /\ s \in 0 .. d - 1 /\ x = d * p + s  BY <1>1, DivMod
<1>3. d * (p - q) = r - s
  <2>1. d * p + s = d * q + r  BY <1>2
  <2>2. d * (p - q) = d * p - d * q  BY <1>2, SMT
  <2> HIDE DEF p, s, x
  <2> QED BY <2>1, <2>2, <1>2, SMT
<1> HIDE DEF p, s, x
<1>4. p - q = 0
  <2>1. d * (p - q) < d /\ d * (p - q) > -d  BY <1>2, <1>3, SMT
  <2> QED BY <2>1, <1>2, SmallMultiple
<1>5. p = q /\ s = r  BY <1>2, <1>3, <1>4, SMT
<1> QED BY <1>5 DEF p, s, x

(* A distance below the word size survives the wrap of either end.         *)
LEMMA Distance ==
  ASSUME NEW n \in Nat, NEW a \in Nat, NEW w \in Nat \ {0}, a <= n, n - a < w
  PROVE  (n - (a % w)) % w = n - a
<1> DEFINE q == a \div w
           lo == a % w
<1>1. q \in Int /\ lo \in 0 .. w - 1 /\ a = w * q + lo  BY DivMod
<1> HIDE DEF q, lo
<1>2. n - lo = w * q + (n - a)  BY <1>1, SMT
<1>3. n - a \in 0 .. w - 1  BY SMT
<1>4. (w * q + (n - a)) % w = n - a  BY <1>1, <1>3, ModUnique
<1> QED BY <1>2, <1>4 DEF lo

(* Adding to a wrapped word is adding to what it stands for.               *)
LEMMA WrapAdd ==
  ASSUME NEW a \in Nat, NEW k \in Nat, NEW w \in Nat \ {0}
  PROVE  ((a % w) + k) % w = (a + k) % w
<1> DEFINE q == a \div w
           lo == a % w
           p == (lo + k) \div w
           r == (lo + k) % w
<1>1. q \in Int /\ lo \in 0 .. w - 1 /\ a = w * q + lo  BY DivMod
<1>2. p \in Int /\ r \in 0 .. w - 1 /\ lo + k = w * p + r
  <2>1. lo + k \in Int  BY <1>1, SMT
  <2> QED BY <2>1, DivMod
<1> HIDE DEF q, lo, p, r
<1>3. a + k = w * (q + p) + r
  <2>1. w * (q + p) = w * q + w * p  BY <1>1, <1>2, SMT
  <2> QED BY <1>1, <1>2, <2>1, SMT
<1>4. (w * (q + p) + r) % w = r
  <2>1. q + p \in Int  BY <1>1, <1>2, SMT
  <2> QED BY <1>2, <2>1, ModUnique
<1> QED BY <1>3, <1>4 DEF r, lo

(* The constants, and the length of a tick.                                *)
LEMMA Constants ==
  /\ Hz \in Nat \ {0} /\ TPS \in Nat \ {0} /\ Wrap \in Nat \ {0}
  /\ MaxCatchup \in Nat \ {0} /\ MaxSleep \in Nat \ {0} /\ Horizon \in Nat \ {0}
  /\ PerTick \in Nat \ {0} /\ Remain \in 0 .. TPS - 1
  /\ Hz = TPS * PerTick + Remain
<1>1. /\ Hz \in Nat \ {0} /\ TPS \in Nat \ {0} /\ Wrap \in Nat \ {0}
      /\ MaxCatchup \in Nat \ {0} /\ MaxSleep \in Nat \ {0} /\ Horizon \in Nat \ {0}
      /\ Hz >= TPS
  BY TickClockAssumption
<1>2. PerTick \in Int /\ Remain \in 0 .. TPS - 1 /\ Hz = TPS * PerTick + Remain
  BY <1>1, DivMod DEF PerTick, Remain
<1>3. PerTick > 0
  <2> SUFFICES ASSUME PerTick <= 0 PROVE FALSE  BY <1>2, SMT
  <2>1. TPS * PerTick <= TPS * 0  BY <1>1, <1>2, SMT
  <2> QED BY <1>1, <1>2, <2>1, SMT
<1> QED BY <1>1, <1>2, <1>3, SMT

----------------------------------------------------------------------------
(* The inductive invariant: the properties, and that neither word has      *)
(* fallen a whole wrap behind.                                             *)

Behind ==
  /\ anchor <= now /\ now - anchor < Wrap /\ lastLo = anchor % Wrap
  /\ upTo <= now /\ now - upTo < Wrap /\ upLo = upTo % Wrap

Idle == ~busy => owed = 0 /\ ran = 0

IInv ==
  /\ TypeOK /\ Behind /\ Idle
  /\ ClockExact /\ UptimeExact /\ TicksAccounted /\ BacklogCapped

LEMMA InitIInv == Init => IInv
<1> SUFFICES ASSUME Init PROVE IInv  OBVIOUS
<1>1. TypeOK
  <2>1. busy \in BOOLEAN  BY Zenon DEF Init
  <2> QED BY <2>1, Constants, SMT DEF Init, TypeOK
<1>2. 0 % Wrap = 0
  <2>1. (Wrap * 0 + 0) % Wrap = 0  BY Constants, ModUnique, SMT
  <2> QED BY <2>1, Constants, SMT
<1>3. Behind  BY <1>2, Constants, SMT DEF Init, Behind
<1>4. ClockExact /\ UptimeExact  BY Constants, SMT DEF Init, ClockExact, UptimeExact
<1>5. TicksAccounted /\ BacklogCapped /\ Idle
  BY Constants, SMT DEF Init, TicksAccounted, BacklogCapped, Idle
<1> QED BY <1>1, <1>3, <1>4, <1>5 DEF IInv

LEMMA ElapseStep == IInv /\ Elapse => IInv'
<1> SUFFICES ASSUME IInv, Elapse PROVE IInv'  OBVIOUS
<1> USE Constants
<1>1. UNCHANGED <<timeVars, wheelVars>>  BY DEF Elapse
<1>2. PICK d \in 1 .. MaxSleep :
        /\ now + d - anchor < Wrap /\ now + d - upTo < Wrap /\ now' = now + d
  BY DEF Elapse
<1>3. TypeOK'  BY <1>1, <1>2, SMT DEF IInv, TypeOK, timeVars, wheelVars
<1>4. Behind'  BY <1>1, <1>2, SMT DEF IInv, TypeOK, Behind, timeVars
<1>5. (ClockExact /\ UptimeExact /\ TicksAccounted /\ BacklogCapped /\ Idle)'
  BY <1>1 DEF IInv, ClockExact, UptimeExact, TicksAccounted, BacklogCapped, Idle,
              timeVars, wheelVars
<1> QED BY <1>3, <1>4, <1>5 DEF IInv

LEMMA InterruptStep == IInv /\ Interrupt => IInv'
<1> SUFFICES ASSUME IInv, Interrupt PROVE IInv'  OBVIOUS
<1>1. UNCHANGED <<now, timeVars, backlog, delivered, lost, owed, busy>>
  BY DEF Interrupt
<1>2. TypeOK'
  BY <1>1, Constants, SMT DEF IInv, TypeOK, Interrupt, timeVars
<1>3. (Behind /\ ClockExact /\ UptimeExact /\ BacklogCapped)'
  BY <1>1 DEF IInv, Behind, ClockExact, UptimeExact, BacklogCapped, timeVars
<1>4. TicksAccounted'
  BY <1>1, SMT DEF IInv, TypeOK, TicksAccounted, Interrupt, timeVars
<1>5. Idle'  BY <1>1 DEF Interrupt, Idle
<1> QED BY <1>2, <1>3, <1>4, <1>5 DEF IInv

LEMMA AccountStep == IInv /\ Account => IInv'
<1> SUFFICES ASSUME IInv, Account PROVE IInv'  OBVIOUS
<1>1. UNCHANGED <<now, timeVars, wheel, lost>>  BY DEF Account
<1>2. TypeOK'
  <2>1. busy' \in BOOLEAN  BY Zenon DEF Account
  <2> QED BY <1>1, <2>1, Constants, SMT DEF IInv, TypeOK, Account, timeVars
<1>3. (Behind /\ ClockExact /\ UptimeExact)'
  BY <1>1 DEF IInv, Behind, ClockExact, UptimeExact, timeVars
<1>4. (TicksAccounted /\ BacklogCapped)'
  BY <1>1, Constants, SMT
  DEF IInv, TypeOK, TicksAccounted, BacklogCapped, Account, timeVars
<1>5. Idle'  BY DEF Account, Idle
<1> QED BY <1>2, <1>3, <1>4, <1>5 DEF IInv

(* The carry is covered by the fractions and does not pass the present.    *)
LEMMA CarryFits ==
  ASSUME frac \in Nat, NEW delta \in Nat, NEW measured \in Nat,
         measured * PerTick <= delta
  PROVE  /\ Carry(delta, measured) \in Nat
         /\ measured * PerTick + Carry(delta, measured) <= delta
         /\ Carry(delta, measured) * TPS <= frac + measured * Remain
<1> DEFINE sum == frac + measured * Remain
           carry == sum \div TPS
           length == measured * PerTick
<1>1. sum \in Nat /\ length \in Nat /\ length <= delta
  <2>1. measured * Remain \in Nat /\ measured * PerTick \in Nat  BY Constants, SMT
  <2> QED BY <2>1, SMT
<1>2. carry \in Int /\ (sum % TPS) \in 0 .. TPS - 1 /\ sum = TPS * carry + (sum % TPS)
  BY <1>1, Constants, DivMod
<1>3. Carry(delta, measured) = IF length + carry > delta THEN 0 ELSE carry
  BY DEF Carry
<1> HIDE DEF sum, carry, length
<1>4. TPS * carry <= sum  BY <1>1, <1>2, Constants, SMT
<1>5. carry \in Nat
  <2> SUFFICES ASSUME carry <= -1 PROVE FALSE  BY <1>2, SMT
  <2>1. TPS * carry <= TPS * (-1)  BY <1>2, Constants, SMT
  <2> QED BY <1>1, <1>2, <2>1, Constants, SMT
<1>6. carry * TPS = TPS * carry /\ 0 * TPS = 0  BY <1>5, Constants, SMT
<1>7. CASE length + carry > delta
  <2>1. Carry(delta, measured) = 0  BY <1>3, <1>7
  <2> QED BY <1>1, <1>6, <2>1, SMT DEF sum, length
<1>8. CASE ~(length + carry > delta)
  <2>1. Carry(delta, measured) = carry  BY <1>3, <1>8
  <2>2. length + carry <= delta  BY <1>1, <1>5, <1>8, SMT
  <2> QED BY <1>4, <1>5, <1>6, <2>1, <2>2 DEF sum, length
<1> QED BY <1>7, <1>8

(* The uptime's half of a service.                                         *)
LEMMA UptimeStep ==
  ASSUME IInv, Uptime, now' = now
  PROVE  /\ UptimeExact' /\ seconds' \in Nat /\ upRem' \in Nat
         /\ upTo' = now /\ upLo' = now % Wrap
<1> DEFINE rem == upRem + (now - upTo)
           k == rem \div Hz
           r == rem % Hz
<1> USE Constants
<1>1. /\ now \in Nat /\ upTo \in Nat /\ upRem \in Nat /\ seconds \in Nat
      /\ upTo <= now /\ now - upTo < Wrap /\ upLo = upTo % Wrap
      /\ seconds * Hz + upRem = upTo
  BY DEF IInv, TypeOK, Behind, UptimeExact
<1>2. (now - upLo) % Wrap = now - upTo  BY <1>1, Distance
<1>3. seconds' = seconds + k /\ upRem' = r /\ upTo' = now /\ upLo' = now % Wrap
  BY <1>2 DEF Uptime
<1>4. rem \in Nat /\ rem \in Int  BY <1>1, SMT
<1> HIDE DEF rem
<1>5. k \in Int /\ r \in 0 .. Hz - 1 /\ rem = Hz * k + r  BY <1>4, DivMod
<1> HIDE DEF k, r
<1>6. k \in Nat
  <2> SUFFICES ASSUME k <= -1 PROVE FALSE  BY <1>5, SMT
  <2>1. Hz * k <= Hz * (-1)  BY <1>5, SMT
  <2> QED BY <1>4, <1>5, <2>1, SMT
<1>7. (seconds + k) * Hz = seconds * Hz + Hz * k  BY <1>1, <1>6, SMT
<1>8. seconds * Hz \in Nat /\ Hz * k \in Nat  BY <1>1, <1>6, SMT
<1>9. (seconds + k) * Hz + r = now
  <2>1. rem = upRem + now - upTo  BY <1>1, SMT DEF rem
  <2> QED BY <1>1, <1>4, <1>5, <1>7, <1>8, <2>1, SMT
<1> QED BY <1>3, <1>5, <1>6, <1>1, <1>9, SMT DEF UptimeExact

(* WrapAdd at the anchor.                                                  *)
LEMMA AnchorWrap ==
  anchor \in Nat =>
    \A n \in Nat : ((anchor % Wrap) + n) % Wrap = (anchor + n) % Wrap
<1> SUFFICES ASSUME anchor \in Nat, NEW n \in Nat
             PROVE  ((anchor % Wrap) + n) % Wrap = (anchor + n) % Wrap
  OBVIOUS
<1>1. Wrap \in Nat \ {0}  BY Constants
<1> QED BY <1>1, WrapAdd

(* The clock's half.                                                       *)
LEMMA AdvanceStep ==
  ASSUME IInv, NEW measured \in Nat, NEW carry \in Nat,
         measured * PerTick + carry <= now - anchor,
         carry * TPS <= frac + measured * Remain,
         Advance(measured, carry), now' = now
  PROVE  /\ ClockExact' /\ {anchor', frac', clock'} \subseteq Nat
         /\ anchor' <= now /\ now - anchor' < Wrap /\ lastLo' = anchor' % Wrap
         /\ clock' = clock + measured
<1> DEFINE length == measured * PerTick
<1> USE Constants
<1>1. /\ now \in Nat /\ anchor \in Nat /\ frac \in Nat /\ clock \in Nat
      /\ anchor <= now /\ now - anchor < Wrap /\ lastLo = anchor % Wrap
      /\ clock * Hz = anchor * TPS + frac
  BY DEF IInv, TypeOK, Behind, ClockExact
<1>2. /\ length \in Nat /\ measured * Remain \in Nat /\ carry * TPS \in Nat
      /\ measured * Hz \in Nat /\ clock * Hz \in Nat /\ anchor * TPS \in Nat
      /\ length * TPS \in Nat
  BY <1>1, SMT
<1>3. /\ anchor' = anchor + length + carry
      /\ lastLo' = (lastLo + length + carry) % Wrap
      /\ frac' = frac + measured * Remain - carry * TPS
      /\ clock' = clock + measured
  BY DEF Advance
<1>4. measured * Hz = length * TPS + measured * Remain
  <2>1. measured * (TPS * PerTick + Remain)
          = measured * (TPS * PerTick) + measured * Remain
    BY SMT
  <2>2. measured * (TPS * PerTick) = (measured * PerTick) * TPS  BY SMT
  <2>3. measured * Hz = measured * (TPS * PerTick + Remain)  OBVIOUS
  <2> QED BY <2>1, <2>2, <2>3
<1> HIDE DEF length
<1>5. (clock + measured) * Hz = clock * Hz + measured * Hz  BY <1>1, SMT
<1>6. (anchor + length + carry) * TPS = anchor * TPS + length * TPS + carry * TPS
  BY <1>1, <1>2, SMT
<1>7. ClockExact'
  BY <1>1, <1>2, <1>3, <1>4, <1>5, <1>6, SMT DEF ClockExact
<1>8. length + carry <= now - anchor  BY DEF length
<1>9. {anchor', frac', clock'} \subseteq Nat /\ anchor' <= now /\ now - anchor' < Wrap
  BY <1>1, <1>2, <1>3, <1>8, SMT
<1>10. lastLo' = anchor' % Wrap
  <2> DEFINE sum == length + carry
  <2>1. sum \in Nat  BY <1>2, SMT
  <2>2. ((anchor % Wrap) + sum) % Wrap = (anchor + sum) % Wrap
    BY <1>1, <2>1, AnchorWrap
  <2>3. lastLo \in Int  BY SMT DEF IInv, TypeOK
  <2>4. lastLo + length + carry = lastLo + sum  BY <1>2, <2>3, SMT
  <2>5. anchor + length + carry = anchor + sum  BY <1>1, <1>2, SMT
  <2> HIDE DEF sum
  <2> QED BY <1>1, <1>3, <2>2, <2>4, <2>5
<1> QED BY <1>3, <1>7, <1>9, <1>10

(* The wheel's half.                                                       *)
LEMMA AccountsStep ==
  ASSUME IInv, ~busy, NEW measured \in Nat, Clip(backlog + measured),
         clock' = clock + measured, ran' = 0, UNCHANGED <<wheel, delivered>>
  PROVE  (TicksAccounted /\ BacklogCapped)'
<1>1. /\ backlog \in Nat /\ lost \in Nat /\ wheel \in Nat /\ delivered \in Nat
      /\ clock = delivered + backlog + lost /\ wheel = delivered
  BY SMT DEF IInv, TypeOK, TicksAccounted, Idle
<1>2. MaxCatchup \in Nat  BY Constants
<1>3. CASE backlog + measured > MaxCatchup
  <2>1. backlog' = MaxCatchup /\ lost' = lost + (backlog + measured - MaxCatchup)
    BY <1>1, <1>2, <1>3, SMT DEF Clip
  <2> QED BY <1>1, <1>2, <2>1, SMT DEF TicksAccounted, BacklogCapped
<1>4. CASE ~(backlog + measured > MaxCatchup)
  <2>1. backlog' = backlog + measured /\ lost' = lost
    BY <1>1, <1>4, SMT DEF Clip
  <2> QED BY <1>1, <1>2, <1>4, <2>1, SMT DEF TicksAccounted, BacklogCapped
<1> QED BY <1>3, <1>4

(* A remainder is a word.                                                  *)
LEMMA WordType ==
  ASSUME NEW n \in Nat
  PROVE  (n % Wrap) \in 0 .. Wrap - 1
BY Constants, DivMod

LEMMA MeasureStep == IInv /\ Measure => IInv'
<1> SUFFICES ASSUME IInv, Measure PROVE IInv'  OBVIOUS
<1> USE Constants
<1> DEFINE delta == (now - lastLo) % Wrap
           measured == delta \div PerTick
<1>1. now' = now /\ ~busy /\ Uptime  BY DEF Measure
<1>2. /\ now \in Nat /\ anchor \in Nat /\ frac \in Nat
      /\ anchor <= now /\ now - anchor < Wrap /\ lastLo = anchor % Wrap
  BY DEF IInv, TypeOK, Behind
<1>3. /\ UptimeExact' /\ seconds' \in Nat /\ upRem' \in Nat
      /\ upTo' = now /\ upLo' = now % Wrap
  BY <1>1, UptimeStep
<1>4. delta = now - anchor  BY <1>2, Distance
<1>5. delta \in Nat /\ delta \in Int  BY <1>2, <1>4, SMT
<1>6. measured \in Nat /\ measured * PerTick <= delta
  <2> HIDE DEF delta
  <2>1. /\ measured \in Int /\ (delta % PerTick) \in 0 .. PerTick - 1
        /\ delta = PerTick * measured + (delta % PerTick)
    BY <1>5, DivMod
  <2> HIDE DEF measured
  <2>2. PerTick * measured <= delta  BY <1>5, <2>1, SMT
  <2>3. measured \in Nat
    <3> SUFFICES ASSUME measured <= -1 PROVE FALSE  BY <2>1, SMT
    <3>1. PerTick * measured <= PerTick * (-1)  BY <2>1, SMT
    <3> QED BY <1>5, <2>1, <3>1, SMT
  <2>4. measured * PerTick = PerTick * measured  BY <2>3, SMT
  <2> QED BY <2>2, <2>3, <2>4
<1>7. CASE measured = 0
  <2>1. UNCHANGED <<anchor, lastLo, frac, clock, wheelVars>>  BY <1>7 DEF Measure
  <2>2. TypeOK'
    <3>1. upLo' \in 0 .. Wrap - 1  BY <1>2, <1>3, WordType
    <3> QED BY <1>1, <1>2, <1>3, <2>1, <3>1, SMT DEF IInv, TypeOK, wheelVars
  <2>3. Behind'  BY <1>1, <1>2, <1>3, <2>1, SMT DEF Behind
  <2>4. (ClockExact /\ TicksAccounted /\ BacklogCapped /\ Idle)'
    BY <2>1 DEF IInv, ClockExact, TicksAccounted, BacklogCapped, Idle, wheelVars
  <2> QED BY <1>3, <2>2, <2>3, <2>4 DEF IInv
<1>8. CASE measured # 0
  <2> DEFINE carry == Carry(delta, measured)
             all == backlog + measured
  <2>1. /\ Advance(measured, carry) /\ Clip(all)
        /\ owed' = backlog' /\ ran' = 0 /\ busy' = TRUE
        /\ UNCHANGED <<wheel, delivered>>
    BY <1>8 DEF Measure
  <2>2. /\ carry \in Nat /\ measured * PerTick + carry <= delta
        /\ carry * TPS <= frac + measured * Remain
    BY <1>2, <1>5, <1>6, CarryFits
  <2> HIDE DEF carry
  <2> HIDE DEF measured
  <2>3. /\ ClockExact' /\ {anchor', frac', clock'} \subseteq Nat
        /\ anchor' <= now /\ now - anchor' < Wrap /\ lastLo' = anchor' % Wrap
        /\ clock' = clock + measured
    BY <1>1, <1>4, <1>6, <2>1, <2>2, AdvanceStep
  <2> HIDE DEF delta
  <2>4. /\ backlog \in Nat /\ lost \in Nat /\ wheel \in Nat /\ delivered \in Nat
        /\ clock = delivered + backlog + lost /\ wheel = delivered + ran /\ ran = 0
    BY <1>1, SMT DEF IInv, TypeOK, TicksAccounted, Idle
  <2>5. /\ backlog' \in Nat /\ lost' \in Nat /\ backlog' <= MaxCatchup
        /\ backlog' + lost' = all + lost
    BY <1>6, <2>1, <2>4, SMT DEF Clip
  <2>6. (TicksAccounted /\ BacklogCapped)'
    BY <1>1, <1>6, <2>1, <2>3, AccountsStep
  <2>9. Idle'  BY <2>1, Zenon DEF Idle
  <2>7. Behind'  BY <1>1, <1>2, <1>3, <2>3, SMT DEF Behind
  <2>8. TypeOK'
    <3>1. upLo' \in 0 .. Wrap - 1  BY <1>2, <1>3, WordType
    <3>2. lastLo' \in 0 .. Wrap - 1  BY <2>3, WordType
    <3>3. busy' \in BOOLEAN  BY <2>1, Zenon
    <3> QED BY <1>1, <1>2, <1>3, <2>1, <2>3, <2>4, <2>5, <3>1, <3>2, <3>3, SMT
        DEF TypeOK
  <2> QED BY <1>3, <2>3, <2>6, <2>7, <2>8, <2>9 DEF IInv
<1> QED BY <1>7, <1>8

LEMMA NextIInv == IInv /\ [Next]_vars => IInv'
<1> SUFFICES ASSUME IInv, [Next]_vars PROVE IInv'  OBVIOUS
<1>1. CASE UNCHANGED vars
  BY <1>1 DEF IInv, TypeOK, Behind, Idle, ClockExact, UptimeExact, TicksAccounted,
              BacklogCapped, vars, timeVars, wheelVars
<1>2. CASE Next
  BY <1>2, ElapseStep, MeasureStep, InterruptStep, AccountStep DEF Next
<1> QED BY <1>1, <1>2

----------------------------------------------------------------------------
(* The invariant holds throughout.                                         *)
THEOREM Invariance == Spec => []IInv
BY InitIInv, NextIInv, PTL DEF Spec

(* The clock neither gains nor loses: its ticks at their exact length are  *)
(* the E-Clocks the anchor moved and the fraction carried, for every       *)
(* frequency and rate (_tx_amiga_tick_deliver()).                          *)
THEOREM ExactClock == Spec => []ClockExact
<1>1. IInv => ClockExact  BY DEF IInv
<1> QED BY <1>1, Invariance, PTL

(* The anchor never passes the present, so no service takes a small delta  *)
(* for a wrapped one (the carry that is held over).                        *)
THEOREM AnchorNotAhead == Spec => []AnchorBehind
<1>1. IInv => AnchorBehind
  <2> SUFFICES ASSUME IInv PROVE AnchorBehind  OBVIOUS
  <2>1. /\ now \in Nat /\ anchor \in Nat /\ anchor <= now /\ now - anchor < Wrap
        /\ lastLo = anchor % Wrap
    BY DEF IInv, TypeOK, Behind
  <2>2. (now - lastLo) % Wrap = now - anchor  BY <2>1, Constants, Distance
  <2> QED BY <2>1, <2>2 DEF AnchorBehind
<1> QED BY <1>1, Invariance, PTL

(* The uptime is exact across wraps and late wakeups.                      *)
THEOREM ExactUptime == Spec => []UptimeExact
<1>1. IInv => UptimeExact  BY DEF IInv
<1> QED BY <1>1, Invariance, PTL

(* Every tick of the clock is delivered, owed or counted as lost.          *)
THEOREM TicksKept == Spec => []TicksAccounted
<1>1. IInv => TicksAccounted  BY DEF IInv
<1> QED BY <1>1, Invariance, PTL

(* No stall leaves more than MaxCatchup ticks to make up.                  *)
THEOREM CappedBacklog == Spec => []BacklogCapped
<1>1. IInv => BacklogCapped  BY DEF IInv
<1> QED BY <1>1, Invariance, PTL
=============================================================================
