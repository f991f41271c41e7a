------------------------------ MODULE ChipProofs -----------------------------
(* The proofs about the two chips beside the 6507: the RIOT's timer and the  *)
(* TIA.                                                                      *)
EXTENDS RiotTimer, Tia, TLAPS

------------------------------------------------------------------------------
(***************************************************************************)
(* The RIOT's timer, for any counter width and any prescales.              *)
(*                                                                         *)
(* IntimSchedule and FastFromTheWrap speak of the age of the anchor, while *)
(* the code counts the cycles of an interval: neither is inductive without *)
(* the relation between the two.  Slow says it for the prescaled timer,    *)
(* Fast for one that has wrapped.                                          *)
(***************************************************************************)

Timers == [value : 0 .. TimerMax, prescale : Prescales, elapsed : Nat,
           underflow : BOOLEAN, postUnderflow : BOOLEAN,
           wrappedThisCycle : BOOLEAN]

Anchors == [value : 0 .. TimerMax, first : Nat \ {0}, age : Nat]

Types ==
  /\ timer \in Timers
  /\ timer.elapsed < timer.prescale
  /\ anchor \in Anchors

\* The cycles to the wrap are those of the intervals that are left.
Slow ==
  ~timer.postUnderflow =>
    /\ WrapAge - anchor.age = timer.value * timer.prescale + timer.prescale - timer.elapsed
    /\ timer.value <= anchor.value

\* Past the wrap every cycle is an interval.
Fast ==
  timer.postUnderflow =>
    /\ timer.elapsed = 0
    /\ WrapAge <= anchor.age
    /\ timer.value = TimerMax - (anchor.age - WrapAge)

Wrapped == fresh => (timer.wrappedThisCycle <=> timer.postUnderflow /\ anchor.age = WrapAge)

TimerInv == Types /\ Slow /\ Fast /\ Wrapped

LEMMA PrescaleFacts == \A p \in Prescales : p \in Nat \ {0}
BY PrescalesAssumption

\* The least bound there is on the intervals: a product with a prescale.
LEMMA WrapAgeNat == Types => WrapAge \in Nat \ {0}
<1> SUFFICES ASSUME Types PROVE WrapAge \in Nat \ {0}
  OBVIOUS
<1>1. timer.prescale \in Nat \ {0} /\ anchor.first \in Nat \ {0} /\ anchor.value \in Nat
  BY PrescaleFacts, TimerMaxAssumption DEF Types, Timers, Anchors
<1>2. anchor.value * timer.prescale \in Nat
  BY <1>1
<1> QED
  BY <1>1, <1>2 DEF WrapAge

\* A number of whole intervals and a part of one.
LEMMA DivFacts ==
  ASSUME NEW p \in Nat \ {0}, NEW q \in Nat, NEW e \in Nat, e < p
  PROVE  (q * p + e) \div p = q
OBVIOUS

\* The three outcomes of Riot::tick (riot lib.rs 80-102).
LEMMA TimerTickFacts ==
  ASSUME Types
  PROVE  /\ timer.elapsed + 1 < Target(timer) =>
              TickTimer(timer) = [timer EXCEPT !.elapsed = @ + 1, !.wrappedThisCycle = FALSE]
         /\ (~(timer.elapsed + 1 < Target(timer)) /\ timer.value = 0) =>
              TickTimer(timer) =
                [timer EXCEPT !.value = TimerMax, !.elapsed = 0, !.underflow = TRUE,
                              !.postUnderflow = TRUE, !.wrappedThisCycle = TRUE]
         /\ (~(timer.elapsed + 1 < Target(timer)) /\ timer.value # 0) =>
              TickTimer(timer) =
                [timer EXCEPT !.value = @ - 1, !.elapsed = 0, !.wrappedThisCycle = FALSE]
         /\ Target(timer) \in Nat \ {0}
<1>1. timer.prescale \in Nat \ {0} /\ timer.elapsed \in Nat
  BY PrescaleFacts DEF Types, Timers
<1>2. Target(timer) \in Nat \ {0}
  BY <1>1 DEF Target
<1>3. ~(timer.elapsed + 1 < Target(timer)) <=> timer.elapsed + 1 >= Target(timer)
  BY <1>1, <1>2
<1> QED
  BY <1>2, <1>3, Zenon DEF TickTimer, Decrement

LEMMA InitTimerInv == Init => TimerInv
<1> SUFFICES ASSUME Init PROVE TimerInv
  OBVIOUS
<1> DEFINE p == DefaultPrescale
<1>1. p \in Prescales /\ p \in Nat \ {0}
  BY PrescalesAssumption
<1> HIDE DEF p
<1>2. timer = [value |-> 0, prescale |-> p, elapsed |-> 0, underflow |-> FALSE,
               postUnderflow |-> FALSE, wrappedThisCycle |-> FALSE]
      /\ fresh = FALSE /\ anchor = [value |-> 0, first |-> p, age |-> 0]
  BY DEF Init, p
<1>3. Types
  BY <1>1, <1>2, TimerMaxAssumption DEF Types, Timers, Anchors
<1>4. WrapAge = p
  BY <1>1, <1>2 DEF WrapAge
<1>5. Slow /\ Fast /\ Wrapped
  BY <1>1, <1>2, <1>4 DEF Slow, Fast, Wrapped
<1> QED
  BY <1>3, <1>5 DEF TimerInv

\* A tick takes a slow timer one cycle nearer to the wrap, or to it, and a fast
\* one one value on.
LEMMA TickIInv == TimerInv /\ Tick => TimerInv'
<1> SUFFICES ASSUME TimerInv, Tick PROVE TimerInv'
  OBVIOUS
<1> DEFINE v == timer.value
           p == timer.prescale
           e == timer.elapsed
           w == WrapAge
           a == anchor.age
<1>1. /\ v \in 0 .. TimerMax /\ p \in Nat \ {0} /\ p \in Prescales /\ e \in Nat /\ e < p
      /\ TimerMax \in Nat \ {0} /\ a \in Nat /\ w \in Nat \ {0}
      /\ anchor.first \in Nat \ {0} /\ anchor.value \in 0 .. TimerMax
  BY PrescaleFacts, TimerMaxAssumption, WrapAgeNat DEF TimerInv, Types, Timers, Anchors
<1>2. timer' = TickTimer(timer) /\ fresh' = TRUE /\ anchor' = [anchor EXCEPT !.age = NextAge]
  BY DEF Tick
<1>3. anchor' \in Anchors /\ anchor'.age = NextAge /\ anchor'.first = anchor.first
      /\ anchor'.value = anchor.value /\ NextAge \in Nat
  <2>1. NextAge \in Nat
    BY <1>1 DEF NextAge
  <2> HIDE DEF NextAge
  <2>2. anchor \in Anchors
    BY DEF TimerInv, Types
  <2> QED
    BY <1>2, <2>1, <2>2 DEF Anchors
<1>4. timer'.prescale = p => WrapAge' = w
  BY <1>3 DEF WrapAge
<1>5. v * p \in Nat /\ (v - 1) * p + p = v * p
  BY <1>1
<1>6. timer \in Timers /\ timer.postUnderflow \in BOOLEAN
  BY DEF TimerInv, Types, Timers
<1>7. ~timer.postUnderflow => /\ Target(timer) = p /\ w - a = v * p + p - e
                              /\ a < w /\ v <= anchor.value
  BY <1>1, <1>5 DEF TimerInv, Slow, Target
<1>8. timer.postUnderflow => /\ Target(timer) = 1 /\ e = 0
                             /\ w <= a /\ v = TimerMax - (a - w)
  BY DEF TimerInv, Fast, Target
<1>9. NextAge = IF a = w + TimerMax THEN w ELSE a + 1
  BY DEF NextAge
<1>10. CASE e + 1 < Target(timer)
  <2>1. timer' = [timer EXCEPT !.elapsed = @ + 1, !.wrappedThisCycle = FALSE]
    BY <1>2, <1>10, TimerTickFacts DEF TimerInv
  <2>2. timer' \in Timers
    <3>1. timer.elapsed + 1 \in Nat
      BY <1>1
    <3> QED
      BY <1>6, <2>1, <3>1 DEF Timers
  <2>3. timer'.value = v /\ timer'.prescale = p /\ timer'.elapsed = e + 1
        /\ timer'.wrappedThisCycle = FALSE /\ timer'.postUnderflow = timer.postUnderflow
    BY <1>6, <2>1 DEF Timers
  <2>4. ~timer.postUnderflow
    BY <1>1, <1>8, <1>10
  <2>5. NextAge = a + 1 /\ e + 1 < p
    BY <1>1, <1>7, <1>9, <1>10, <2>4
  <2> HIDE DEF v, p, e, w, a
  <2>6. Types'
    BY <1>3, <2>2, <2>3, <2>5 DEF Types
  <2>7. Slow'
    BY <1>1, <1>3, <1>4, <1>5, <1>7, <2>3, <2>4, <2>5 DEF Slow
  <2>8. Fast' /\ Wrapped'
    BY <2>3, <2>4 DEF Fast, Wrapped
  <2> QED
    BY <2>6, <2>7, <2>8 DEF TimerInv
<1>11. CASE ~(e + 1 < Target(timer)) /\ v = 0
  <2>1. timer' = [timer EXCEPT !.value = TimerMax, !.elapsed = 0, !.underflow = TRUE,
                               !.postUnderflow = TRUE, !.wrappedThisCycle = TRUE]
    BY <1>2, <1>11, TimerTickFacts DEF TimerInv
  <2>2. timer' \in Timers
    <3>1. TimerMax \in 0 .. TimerMax
      BY <1>1
    <3> QED
      BY <1>6, <2>1, <3>1 DEF Timers
  <2>3. timer'.value = TimerMax /\ timer'.prescale = p /\ timer'.elapsed = 0
        /\ timer'.wrappedThisCycle = TRUE /\ timer'.postUnderflow = TRUE
    BY <1>6, <2>1 DEF Timers
  <2>4. NextAge = w
    <3>1. CASE timer.postUnderflow
      BY <1>1, <1>8, <1>9, <1>11, <3>1
    <3>2. CASE ~timer.postUnderflow
      <4>1. v * p = 0 /\ e = p - 1
        BY <1>1, <1>7, <1>11, <3>2
      <4> QED
        BY <1>1, <1>7, <1>9, <3>2, <4>1
    <3> QED
      BY <3>1, <3>2
  <2> HIDE DEF v, p, e, w, a
  <2>5. Types'
    BY <1>1, <1>3, <2>2, <2>3 DEF Types
  <2>6. Slow'
    BY <2>3 DEF Slow
  <2>7. Fast' /\ Wrapped'
    BY <1>1, <1>3, <1>4, <2>3, <2>4 DEF Fast, Wrapped
  <2> QED
    BY <2>5, <2>6, <2>7 DEF TimerInv
<1>12. CASE ~(e + 1 < Target(timer)) /\ v # 0
  <2>1. timer' = [timer EXCEPT !.value = @ - 1, !.elapsed = 0, !.wrappedThisCycle = FALSE]
    BY <1>2, <1>12, TimerTickFacts DEF TimerInv
  <2>2. v - 1 \in 0 .. TimerMax
    BY <1>1, <1>12
  <2>3. timer' \in Timers
    BY <1>1, <1>6, <2>1, <2>2 DEF Timers
  <2>4. timer'.value = v - 1 /\ timer'.prescale = p /\ timer'.elapsed = 0
        /\ timer'.wrappedThisCycle = FALSE /\ timer'.postUnderflow = timer.postUnderflow
    BY <1>6, <2>1 DEF Timers
  <2>5. NextAge = a + 1
    BY <1>1, <1>7, <1>8, <1>9, <1>12
  <2>6. ~timer.postUnderflow => e = p - 1
    <3>1. ~timer.postUnderflow => ~(e + 1 < p)
      BY <1>7, <1>12
    <3> HIDE DEF e, p
    <3> QED
      BY <1>1, <3>1
  <2> HIDE DEF v, p, e, w, a
  <2>7. Types'
    BY <1>1, <1>3, <2>3, <2>4 DEF Types
  <2>8. Slow'
    BY <1>1, <1>3, <1>4, <1>5, <1>7, <2>2, <2>4, <2>5, <2>6 DEF Slow
  <2>9. Fast'
    BY <1>1, <1>3, <1>4, <1>8, <2>4, <2>5 DEF Fast
  <2>10. Wrapped'
    BY <1>1, <1>3, <1>4, <1>8, <2>4, <2>5 DEF Wrapped
  <2> QED
    BY <2>7, <2>8, <2>9, <2>10 DEF TimerInv
<1> QED
  BY <1>10, <1>11, <1>12

\* A read that restores the prescale leaves a whole interval of it, and any
\* other read leaves the count alone.
LEMMA ReadIInv == TimerInv /\ ReadIntim => TimerInv'
<1> SUFFICES ASSUME TimerInv, ReadIntim PROVE TimerInv'
  OBVIOUS
<1>1. /\ timer \in Timers /\ timer.prescale \in Nat \ {0} /\ timer.elapsed \in Nat
      /\ timer.elapsed < timer.prescale /\ timer.value \in 0 .. TimerMax
      /\ timer.postUnderflow \in BOOLEAN /\ timer.wrappedThisCycle \in BOOLEAN
      /\ anchor \in Anchors /\ TimerMax \in Nat
  BY PrescaleFacts, TimerMaxAssumption DEF TimerInv, Types, Timers
<1>2. Wrapped'
  BY DEF ReadIntim, Wrapped
<1>3. timer' = [timer EXCEPT !.underflow = FALSE,
                             !.postUnderflow = timer.postUnderflow /\ timer.wrappedThisCycle]
  BY <1>1, Zenon DEF ReadIntim, ReadIntimTimer, Timers
<1>4. timer' \in Timers
  <2> DEFINE b == timer.postUnderflow /\ timer.wrappedThisCycle
  <2>1. b \in BOOLEAN
    OBVIOUS
  <2> HIDE DEF b
  <2>2. timer' = [timer EXCEPT !.underflow = FALSE, !.postUnderflow = b]
    BY <1>3 DEF b
  <2> QED
    BY <1>1, <2>1, <2>2 DEF Timers
<1>5. timer'.value = timer.value /\ timer'.prescale = timer.prescale
      /\ timer'.elapsed = timer.elapsed
  BY <1>1, <1>3 DEF Timers
<1>6. timer'.postUnderflow <=> timer.postUnderflow /\ timer.wrappedThisCycle
  BY <1>1, <1>3 DEF Timers
<1>7. CASE timer.postUnderflow /\ ~timer.wrappedThisCycle
  <2>1. anchor' = [value |-> timer.value, first |-> timer.prescale, age |-> 0]
    BY <1>7 DEF ReadIntim
  <2>2. Types'
    BY <1>1, <1>4, <1>5, <2>1 DEF Types, Anchors
  <2>3. timer.elapsed = 0
    BY <1>7 DEF TimerInv, Fast
  <2>4. timer.value * timer.prescale \in Nat
        /\ WrapAge' = timer.prescale + timer.value * timer.prescale
    BY <1>1, <1>5, <2>1 DEF WrapAge
  <2>5. Slow'
    BY <1>1, <1>5, <2>1, <2>3, <2>4 DEF Slow
  <2>6. Fast'
    BY <1>6, <1>7 DEF Fast
  <2> QED
    BY <1>2, <2>2, <2>5, <2>6 DEF TimerInv
<1>8. CASE ~(timer.postUnderflow /\ ~timer.wrappedThisCycle)
  <2>1. anchor' = anchor /\ (timer'.postUnderflow <=> timer.postUnderflow)
    BY <1>6, <1>8 DEF ReadIntim
  <2>2. WrapAge' = WrapAge
    BY <1>5, <2>1 DEF WrapAge
  <2>3. Types'
    BY <1>1, <1>4, <1>5, <2>1 DEF Types
  <2>4. Slow' /\ Fast'
    BY <1>5, <2>1, <2>2 DEF TimerInv, Slow, Fast
  <2> QED
    BY <1>2, <2>3, <2>4 DEF TimerInv
<1> QED
  BY <1>7, <1>8

\* A write leaves one cycle of the first interval.
LEMMA WriteIInv == TimerInv /\ WriteTimer => TimerInv'
<1> SUFFICES ASSUME TimerInv, WriteTimer PROVE TimerInv'
  OBVIOUS
<1> PICK v \in 0 .. TimerMax, p \in Prescales :
      /\ timer' = SetTimer(timer, v, p)
      /\ anchor' = [value |-> v, first |-> 1, age |-> 0]
  BY DEF WriteTimer
<1>1. v \in Nat /\ p \in Nat \ {0} /\ timer \in Timers /\ v * p \in Nat
  BY PrescaleFacts, TimerMaxAssumption DEF TimerInv, Types
<1>2. timer' = [timer EXCEPT !.value = v, !.prescale = p, !.elapsed = p - 1,
                             !.underflow = FALSE, !.postUnderflow = FALSE]
  BY DEF SetTimer
<1>3. timer' \in Timers /\ anchor' \in Anchors
  <2>1. p - 1 \in Nat
    BY <1>1
  <2> QED
    <3>1. timer' \in Timers
      BY <1>1, <1>2, <2>1 DEF Timers
    <3>2. anchor' \in Anchors
      BY DEF Anchors
    <3> QED
      BY <3>1, <3>2
<1>4. timer'.value = v /\ timer'.prescale = p /\ timer'.elapsed = p - 1
      /\ timer'.postUnderflow = FALSE
  BY <1>1, <1>2 DEF Timers
<1>5. WrapAge' = 1 + v * p
  BY <1>1, <1>4 DEF WrapAge
<1>6. Types' /\ Slow'
  BY <1>1, <1>3, <1>4, <1>5 DEF Types, Slow
<1>7. Fast' /\ Wrapped'
  BY <1>4 DEF Fast, Wrapped, WriteTimer
<1> QED
  BY <1>6, <1>7 DEF TimerInv

LEMMA NextTimerInv == TimerInv /\ [Next]_vars => TimerInv'
<1>1. CASE StartPoll \/ UNCHANGED vars
  <2>1. UNCHANGED <<timer, fresh, anchor>>
    BY <1>1 DEF StartPoll, vars
  <2> QED
    BY <2>1 DEF TimerInv, Types, Slow, Fast, Wrapped, WrapAge
<1> QED
  BY <1>1, TickIInv, ReadIInv, WriteIInv DEF Next

\* The polling environment counts no further than it has to.
PollBound == poll \in 0 .. PollPeriod + 1 /\ fresh \in BOOLEAN

LEMMA InitPollBound == Init => PollBound
<1>1. 0 \in 0 .. PollPeriod + 1
  BY PollPeriodAssumption, TimerMaxAssumption
<1>2. Init => poll = 0 /\ fresh = FALSE
  BY DEF Init
<1> QED
  BY <1>1, <1>2, Zenon DEF PollBound

LEMMA NextPollBound == PollBound /\ [Next]_vars => PollBound'
<1> SUFFICES ASSUME PollBound, [Next]_vars PROVE PollBound'
  OBVIOUS
<1>1. fresh' \in BOOLEAN
  BY DEF PollBound, Next, vars, Tick, ReadIntim, WriteTimer, StartPoll
<1>2. poll' \in 0 .. PollPeriod + 1
  BY PollPeriodAssumption, TimerMaxAssumption
     DEF PollBound, Next, vars, Tick, ReadIntim, WriteTimer, StartPoll
<1> QED
  BY <1>1, <1>2 DEF PollBound

\* A register in its range, and an interval never outstayed
\* (riot lib.rs 80-102, 176-195).
THEOREM TimerTypes == Spec => []TypeOK
<1>1. TimerInv /\ PollBound => TypeOK
  BY Zenon DEF TimerInv, Types, Timers, Anchors, PollBound, TypeOK
<1> QED
  BY <1>1, InitTimerInv, NextTimerInv, InitPollBound, NextPollBound, PTL DEF Spec

\* The prescale is in force until the wrap and the fast rate from it on, and a
\* read can tell the cycle of the wrap (riot lib.rs 91-99, 134-136).
THEOREM TimerFastFromTheWrap == Spec => []FastFromTheWrap
<1>1. TimerInv => FastFromTheWrap
  <2> SUFFICES ASSUME TimerInv PROVE FastFromTheWrap
    OBVIOUS
  <2>1. /\ timer.value \in Nat /\ timer.prescale \in Nat \ {0} /\ timer.elapsed \in Nat
        /\ timer.elapsed < timer.prescale /\ WrapAge \in Nat /\ anchor.age \in Nat
    BY PrescaleFacts, TimerMaxAssumption, WrapAgeNat DEF TimerInv, Types, Timers, Anchors
  <2>2. timer.value * timer.prescale \in Nat
    BY <2>1
  <2>3. timer.postUnderflow <=> anchor.age >= WrapAge
    BY <2>1, <2>2 DEF TimerInv, Slow, Fast
  <2> QED
    BY <2>1, <2>3 DEF TimerInv, Wrapped, FastFromTheWrap
<1> QED
  BY <1>1, InitTimerInv, NextTimerInv, PTL DEF Spec

\* INTIM follows the schedule that docs/riot.md gives for every written value
\* and prescale (riot lib.rs 80-142, 176-195).
THEOREM TimerSchedule == Spec => []IntimSchedule
<1>1. TimerInv => IntimSchedule
  <2> SUFFICES ASSUME TimerInv PROVE IntimSchedule
    OBVIOUS
  <2> DEFINE v == timer.value
             p == timer.prescale
             e == timer.elapsed
             n == anchor.age
             q == anchor.value - timer.value - 1
  <2>1. /\ v \in Nat /\ p \in Nat \ {0} /\ e \in Nat /\ e < p
        /\ WrapAge \in Nat /\ n \in Nat
        /\ anchor.value \in Nat /\ anchor.first \in Nat \ {0}
        /\ WrapAge = anchor.first + anchor.value * p /\ q \in Int
    BY PrescaleFacts, TimerMaxAssumption, WrapAgeNat
       DEF TimerInv, Types, Timers, Anchors, WrapAge
  <2>2. CASE timer.postUnderflow
    BY <2>1, <2>2 DEF TimerInv, Fast, IntimSchedule
  <2>3. CASE ~timer.postUnderflow
    <3>1. WrapAge - n = v * p + p - e /\ v <= anchor.value
      BY <2>3 DEF TimerInv, Slow
    <3>2. v * p \in Nat /\ q * p \in Int /\ q * p = anchor.value * p - v * p - p
      BY <2>1
    <3>3. n < WrapAge
      BY <2>1, <3>1, <3>2
    <3>4. n - anchor.first = q * p + e
      BY <2>1, <3>1, <3>2
    <3> HIDE DEF v, p, e, n
    <3>5. CASE v = anchor.value
      <4>1. q * p = 0 - p
        BY <2>1, <3>2, <3>5, SMT
      <4>2. n < anchor.first
        BY <2>1, <3>4, <4>1
      <4> QED
        BY <2>1, <3>3, <3>5, <4>2 DEF IntimSchedule, Decrements, v, n, p
    <3>6. CASE v # anchor.value
      <4>1. q \in Nat
        BY <2>1, <3>1, <3>6 DEF v
      <4> HIDE DEF q
      <4>2. q * p \in Nat
        BY <2>1, <4>1
      <4>3. ~(n < anchor.first)
        BY <2>1, <3>4, <4>2
      <4>4. (n - anchor.first) \div p = q
        BY <2>1, <3>4, <4>1, DivFacts
      <4>5. Decrements(n, anchor.first, p) = 1 + q
        BY <4>3, <4>4 DEF Decrements
      <4> QED
        BY <2>1, <3>3, <4>5 DEF IntimSchedule, v, n, p, q
    <3> QED
      BY <3>5, <3>6
  <2> QED
    BY <2>2, <2>3
<1> QED
  BY <1>1, InitTimerInv, NextTimerInv, PTL DEF Spec

------------------------------------------------------------------------------
(***************************************************************************)
(* The TIA's picture, sound and paddles, for any program whose accesses    *)
(* fit the registers they name, any rate of charging and any threshold.    *)
(*                                                                         *)
(* LineWhole speaks of a whole line and is not inductive: Drawn says of    *)
(* the part of a quiet line that has been drawn what LineWhole says at its *)
(* end, in terms of what is lit at a column (Lit, as the code counts it);  *)
(* LitCovers then says that an object is lit at the columns it covers.     *)
(* TonePeriod speaks of the clock at which an output changes: InPeriod     *)
(* says where the divider and the prescaler must stand at every clock of   *)
(* the period, for a tone that no AUDC write has touched.  PaddleExact     *)
(* follows from CaughtUp: what the code would add for the clocks since it  *)
(* last looked is what adding each of them has made.                       *)
(***************************************************************************)

------------------------------------------------------------------------------
(* Where an object is: the code counts how far the beam is into it, and    *)
(* Covers lists its columns.                                               *)

LEMMA SizeFacts ==
  ASSUME NEW v \in 0 .. 255
  PROVE  Size(v) \in {1, 2, 4, 8}
<1>1. (v \div 16) % 4 \in 0 .. 3
  OBVIOUS
<1> DEFINE k == (v \div 16) % 4
<1> HIDE DEF k
<1>2. k \in 0 .. 3 => <<1, 2, 4, 8>>[k + 1] \in {1, 2, 4, 8}
  OBVIOUS
<1> QED
  BY <1>1, <1>2 DEF Size, k

LEMMA CopiesFacts ==
  ASSUME NEW v \in 0 .. 255
  PROVE  /\ Copies(v) \subseteq {0, 16, 32, 64}
         /\ Scale(v) = 1 \/ (Scale(v) \in {2, 4} /\ Copies(v) = {0})
<1>1. v % 8 \in 0 .. 7
  OBVIOUS
<1> DEFINE k == v % 8
<1> HIDE DEF k
<1>2. k \in 0 .. 7 =>
        LET c == <<{0}, {0, 16}, {0, 32}, {0, 16, 32}, {0, 64}, {0}, {0, 32, 64}, {0}>>[k + 1]
        IN c \subseteq {0, 16, 32, 64} /\ (k \in {5, 7} => c = {0})
  OBVIOUS
<1>3. Copies(v) \subseteq {0, 16, 32, 64} /\ (k \in {5, 7} => Copies(v) = {0})
  BY <1>1, <1>2 DEF Copies, k
<1>4. Scale(v) = (IF k = 5 THEN 2 ELSE IF k = 7 THEN 4 ELSE 1)
  BY <1>1 DEF Scale, k
<1> QED
  BY <1>3, <1>4

\* Counting from a position and coming back to it are each other's inverses,
\* round the line.
Visible == 0 .. 159

LEMMA DiffIs ==
  ASSUME NEW p \in Visible, NEW x \in Visible
  PROVE  /\ Diff(x, p) \in Visible
         /\ p <= x => Diff(x, p) = x - p
         /\ p > x => Diff(x, p) = x + Columns - p
<1>1. (p <= x => (x + 160 - p) % 160 = x - p) /\ (p > x => (x + 160 - p) % 160 = x + 160 - p)
  BY DEF Visible
<1> QED
  BY <1>1 DEF Diff, Columns, Visible

LEMMA Back ==
  ASSUME NEW p \in Visible, NEW x \in Visible
  PROVE  (p + Diff(x, p)) % Columns = x
<1> DEFINE d == Diff(x, p)
<1>1. d \in Visible /\ (p <= x => d = x - p) /\ (p > x => d = x + Columns - p)
  BY DiffIs, Zenon
<1> HIDE DEF d
<1>2. /\ p + d < 160 => (p + d) % 160 = p + d
      /\ p + d >= 160 => (p + d) % 160 = p + d - 160
  BY <1>1 DEF Visible
<1>3. (p + d) % Columns = x
  BY <1>1, <1>2 DEF Visible, Columns
<1> QED
  BY <1>3, Zenon DEF d

LEMMA Forth ==
  ASSUME NEW p \in Visible, NEW d \in Visible
  PROVE  Diff((p + d) % Columns, p) = d
<1> DEFINE x == (p + d) % Columns
<1>1. /\ x \in Visible
      /\ p + d < 160 => x = p + d
      /\ p + d >= 160 => x = p + d - 160
  BY DEF Visible, Columns
<1> HIDE DEF x
<1>2. /\ p <= x => Diff(x, p) = x - p
      /\ p > x => Diff(x, p) = x + Columns - p
  BY <1>1, DiffIs, Zenon
<1>3. Diff(x, p) = d
  BY <1>1, <1>2 DEF Visible, Columns
<1> QED
  BY <1>3, Zenon DEF x

\* How far behind an object its copies may be.
Starts == {0, 16, 32, 64}

LEMMA Placed ==
  ASSUME NEW p \in 0 .. 159, NEW x \in 0 .. 159, NEW copies \in SUBSET Starts,
         NEW w \in 1 .. 32
  PROVE  (\E start \in copies : Diff(x, p) - start \in 0 .. w - 1)
           <=> (\E start \in copies, k \in 0 .. w - 1 : x = (p + start + k) % Columns)
<1>1. ASSUME NEW start \in copies, Diff(x, p) - start \in 0 .. w - 1
      PROVE  \E k \in 0 .. w - 1 : x = (p + start + k) % Columns
  <2>1. PICK k \in 0 .. w - 1 : k = Diff(x, p) - start
    BY <1>1
  <2>0. p \in Visible /\ x \in Visible
    BY DEF Visible
  <2>2. Diff(x, p) \in Visible /\ (p + Diff(x, p)) % Columns = x
    BY <2>0, DiffIs, Back, Zenon
  <2>3. p + start + k = p + Diff(x, p)
    BY <2>1, <2>2 DEF Visible, Starts
  <2>4. x = (p + start + k) % Columns
    BY <2>2, <2>3, Zenon
  <2> QED
    BY <2>1, <2>4, Zenon
<1>2. ASSUME NEW start \in copies, NEW k \in 0 .. w - 1, x = (p + start + k) % Columns
      PROVE  Diff(x, p) - start \in 0 .. w - 1
  <2> DEFINE d == start + k
  <2>1. d \in Visible /\ p \in Visible
    BY DEF Visible, Starts
  <2>2. p + start + k = p + d
    BY DEF Starts
  <2> HIDE DEF d
  <2>3. Diff(x, p) = d
    BY <1>2, <2>1, <2>2, Forth, Zenon
  <2> QED
    BY <2>3 DEF d, Starts
<1> QED
  BY <1>1, <1>2, Zenon

\* The columns of a group of copies, by how far the beam is from the position.
LEMMA SpreadIs ==
  ASSUME NEW p \in 0 .. 159, NEW x \in 0 .. 159, NEW v \in 0 .. 255, NEW w \in 1 .. 32
  PROVE  x \in Spread(p, v, w) <=> \E start \in Copies(v) : Diff(x, p) - start \in 0 .. w - 1
<1> DEFINE At(start, k) == (p + start + k) % Columns
           span == 0 .. w - 1
<1>1. Spread(p, v, w) = {At(start, k) : start \in Copies(v), k \in span}
  BY DEF Spread
<1>2. (\E start \in Copies(v) : Diff(x, p) - start \in 0 .. w - 1)
        <=> (\E start \in Copies(v), k \in span : x = At(start, k))
  <2>1. Copies(v) \in SUBSET Starts
    BY CopiesFacts DEF Starts
  <2> QED
    BY <2>1, Placed, Zenon
<1> HIDE DEF At, span
<1>3. x \in {At(start, k) : start \in Copies(v), k \in span}
        <=> (\E start \in Copies(v), k \in span : x = At(start, k))
  OBVIOUS
<1> QED
  BY <1>1, <1>2, <1>3

LEMMA BallCovers ==
  ASSUME NEW o \in Objects, NEW x \in 0 .. 159
  PROVE  Ball(o, x) <=> x \in Covers(o, "BL")
<1> DEFINE p == o.pos[4]
           w == Size(o.ctrlpf)
<1>1. p \in 0 .. 159 /\ w \in {1, 2, 4, 8} /\ o.enabl \in BOOLEAN
  BY SizeFacts DEF Objects, Columns
<1>2. Copies(0) = {0}
  BY DEF Copies
<1>3. Covers(o, "BL") = IF o.enabl THEN Spread(p, 0, w) ELSE {}
  BY DEF Covers
<1>4. Ball(o, x) <=> o.enabl /\ Diff(x, p) < w
  BY DEF Ball
<1> HIDE DEF p, w
<1>5. x \in Spread(p, 0, w) <=> \E start \in Copies(0) : Diff(x, p) - start \in 0 .. w - 1
  <2>1. w \in 1 .. 32 /\ 0 \in 0 .. 255
    BY <1>1
  <2> QED
    BY <1>1, <2>1, SpreadIs, Zenon
<1>6. Diff(x, p) \in 0 .. 159
  <2>1. p \in Visible /\ x \in Visible
    BY <1>1 DEF Visible
  <2> QED
    BY <2>1, DiffIs, Zenon DEF Visible
<1>7. Diff(x, p) < w <=> \E start \in {0} : Diff(x, p) - start \in 0 .. w - 1
  BY <1>1, <1>6
<1> QED
  BY <1>1, <1>2, <1>3, <1>4, <1>5, <1>7, Zenon

LEMMA MissileCovers ==
  ASSUME NEW o \in Objects, NEW x \in 0 .. 159, NEW i \in 0 .. 1
  PROVE  Missile(o, i, x) <=> x \in Covers(o, IF i = 0 THEN "M0" ELSE "M1")
<1> DEFINE p == o.pos[2 + i]
           v == o.nusiz[i]
           w == Size(v)
<1>1. p \in 0 .. 159 /\ v \in 0 .. 255 /\ o.enam[i] \in BOOLEAN /\ o.resmp[i] \in BOOLEAN
  BY DEF Objects, Columns
<1>2. w \in {1, 2, 4, 8}
  BY <1>1, SizeFacts
<1>3. Covers(o, IF i = 0 THEN "M0" ELSE "M1") = IF o.enam[i] /\ ~ o.resmp[i] THEN Spread(p, v, w) ELSE {}
  BY DEF Covers
<1>4. Missile(o, i, x) <=> o.enam[i] /\ ~ o.resmp[i] /\ \E start \in Copies(v) : Diff(x, p) - start \in 0 .. w - 1
  BY DEF Missile, Into
<1> HIDE DEF p, v, w
<1>5. x \in Spread(p, v, w) <=> \E start \in Copies(v) : Diff(x, p) - start \in 0 .. w - 1
  <2>1. w \in 1 .. 32
    BY <1>2
  <2> QED
    BY <1>1, <2>1, SpreadIs, Zenon
<1> QED
  BY <1>1, <1>3, <1>4, <1>5, Zenon

\* Dot k of a graphics byte, scale columns wide, is where the byte is k * scale
\* to k * scale + scale - 1 columns in.
LEMMA DotIs ==
  ASSUME NEW offset \in Int, NEW scale \in {1, 2, 4}
  PROVE  offset \in 0 .. 8 * scale - 1 =>
           /\ offset \div scale \in 0 .. 7
           /\ offset - (offset \div scale) * scale \in 0 .. scale - 1
<1>1. CASE scale = 1
  BY <1>1
<1>2. CASE scale = 2
  BY <1>2
<1>3. CASE scale = 4
  BY <1>3
<1> QED
  BY <1>1, <1>2, <1>3

LEMMA ColumnOfDot ==
  ASSUME NEW scale \in {1, 2, 4}, NEW k \in 0 .. 7, NEW j \in 0 .. scale - 1
  PROVE  k * scale + j \in 0 .. 8 * scale - 1 /\ (k * scale + j) \div scale = k
<1>1. CASE scale = 1
  BY <1>1
<1>2. CASE scale = 2
  BY <1>2
<1>3. CASE scale = 4
  BY <1>3
<1> QED
  BY <1>1, <1>2, <1>3

LEMMA PlayerCovers ==
  ASSUME NEW o \in Objects, NEW x \in 0 .. 159, NEW i \in 0 .. 1
  PROVE  Player(o, i, x) <=> x \in Covers(o, IF i = 0 THEN "P0" ELSE "P1")
<1> DEFINE p == o.pos[i]
           v == o.nusiz[i]
           scale == Scale(v)
           on(k) == BitOf(Graphics(o, i), IF o.refp[i] THEN k ELSE 7 - k)
           d == Diff(x, p)
<1>1. p \in 0 .. 159 /\ v \in 0 .. 255
  BY DEF Objects, Columns
<1>2. /\ Copies(v) \subseteq {0, 16, 32, 64}
      /\ scale \in {1, 2, 4}
  BY <1>1, CopiesFacts
<1>3. d \in 0 .. 159 /\ (p + d) % 160 = x
  <2>1. p \in Visible /\ x \in Visible
    BY <1>1 DEF Visible
  <2> HIDE DEF p
  <2>2. d \in Visible /\ (p + d) % Columns = x
    BY <2>1, DiffIs, Back, Zenon
  <2> HIDE DEF d
  <2> QED
    BY <2>2 DEF Visible, Columns
<1>4. Player(o, i, x) <=> \E start \in Copies(v) : d - start \in 0 .. 8 * scale - 1 /\ on((d - start) \div scale)
  BY DEF Player, Into
<1>5. Covers(o, IF i = 0 THEN "P0" ELSE "P1") =
        UNION {Spread(p + k * scale, v, scale) : k \in {j \in 0 .. 7 : on(j)}}
  BY DEF Covers, PlayerColumns
<1> HIDE DEF p, v, scale, on, d
<1>6. ASSUME NEW start \in Copies(v), d - start \in 0 .. 8 * scale - 1, on((d - start) \div scale)
      PROVE  \E k \in 0 .. 7 : on(k) /\ \E j \in 0 .. scale - 1 : x = (p + k * scale + start + j) % Columns
  <2> DEFINE k == (d - start) \div scale
             j == (d - start) - k * scale
  <2>1. d - start \in Int
    BY <1>2, <1>3
  <2>2. k \in 0 .. 7 /\ j \in 0 .. scale - 1
    BY <1>2, <1>6, <2>1, DotIs
  <2>3. on(k)
    BY <1>6
  <2>4. k * scale \in Int
    BY <1>2, <2>2
  <2>5. p + k * scale + start + j = p + d
    BY <1>1, <1>2, <1>3, <2>4
  <2> HIDE DEF k, j
  <2>6. x = (p + k * scale + start + j) % Columns
    BY <1>3, <2>5 DEF Columns
  <2> QED
    BY <2>2, <2>3, <2>6, Zenon
<1>7. ASSUME NEW start \in Copies(v), NEW k \in 0 .. 7, on(k), NEW j \in 0 .. scale - 1,
             x = (p + k * scale + start + j) % Columns
      PROVE  d - start \in 0 .. 8 * scale - 1 /\ on((d - start) \div scale)
  <2> DEFINE offset == k * scale + j
             e == start + offset
  <2>1. offset \in 0 .. 31 /\ offset \in Int
    BY <1>2
  <2>2. offset \in 0 .. 8 * scale - 1 /\ offset \div scale = k
    BY <1>2, ColumnOfDot
  <2>3. k * scale \in Int
    BY <1>2
  <2>4. p + k * scale + start + j = p + e
    BY <1>1, <1>2, <2>3
  <2> HIDE DEF offset
  <2>5. e \in Visible /\ p \in Visible /\ start \in Int
    BY <1>1, <1>2, <2>1 DEF Visible
  <2>6. x = (p + e) % Columns
    BY <1>7, <2>4, Zenon
  <2>7. Diff((p + e) % Columns, p) = e
    BY <2>5, Forth, Zenon
  <2>8. d = e
    BY <2>6, <2>7, Zenon DEF d
  <2>9. d - start = offset
    BY <2>1, <2>5, <2>8
  <2> QED
    BY <1>7, <2>2, <2>9
<1>8. x \in UNION {Spread(p + k * scale, v, scale) : k \in {j \in 0 .. 7 : on(j)}}
        <=> \E start \in Copies(v), k \in 0 .. 7 : on(k) /\ \E j \in 0 .. scale - 1 : x = (p + k * scale + start + j) % Columns
  <2> DEFINE At(k, start, j) == (p + k * scale + start + j) % Columns
             span == 0 .. scale - 1
             dots == 0 .. 7
             Row(k) == Spread(p + k * scale, v, scale)
  <2>1. ASSUME NEW k \in dots
        PROVE  x \in Row(k) <=> \E start \in Copies(v), j \in span : x = At(k, start, j)
    <3>1. Row(k) = {At(k, start, j) : start \in Copies(v), j \in span}
      BY DEF Spread
    <3> HIDE DEF At, span, Row
    <3> QED
      BY <3>1
  <2>2. \A k \in dots : x \in Row(k) <=> \E start \in Copies(v), j \in span : x = At(k, start, j)
    BY <2>1
  <2> HIDE DEF At, span, dots, Row
  <2>3. x \in UNION {Row(k) : k \in {j \in dots : on(j)}} <=> \E k \in dots : on(k) /\ x \in Row(k)
    OBVIOUS
  <2>4. x \in UNION {Row(k) : k \in {j \in dots : on(j)}}
          <=> \E start \in Copies(v), k \in dots : on(k) /\ \E j \in span : x = At(k, start, j)
    BY <2>2, <2>3, Zenon
  <2> QED
    BY <2>4 DEF At, span, dots, Row
<1> QED
  BY <1>4, <1>5, <1>6, <1>7, <1>8, Zenon

\* The column of the playfield's twenty, on the left and, in order or in a
\* mirror, on the right.
LEMMA ColumnIs ==
  ASSUME NEW o, NEW x \in 0 .. 159
  PROVE  /\ PlayfieldColumn(o, x) \in 0 .. 19
         /\ x < 80 => PlayfieldColumn(o, x) = x \div 4
         /\ x >= 80 /\ BitOf(o.ctrlpf, 0) => PlayfieldColumn(o, x) = (159 - x) \div 4
         /\ x >= 80 /\ ~ BitOf(o.ctrlpf, 0) => PlayfieldColumn(o, x) = (x - 80) \div 4
<1>1. /\ x \div 4 \in 0 .. 39
      /\ x < 80 <=> x \div 4 < 20
      /\ x >= 80 => (159 - x) \div 4 = 39 - x \div 4 /\ (x - 80) \div 4 = x \div 4 - 20
  OBVIOUS
<1> DEFINE c == x \div 4
<1> HIDE DEF c
<1>2. PlayfieldColumn(o, x) = IF c < 20 THEN c ELSE IF BitOf(o.ctrlpf, 0) THEN 39 - c ELSE c - 20
  BY DEF PlayfieldColumn, c
<1>3. c < 20 => PlayfieldColumn(o, x) = c
  BY <1>2
<1>4. ~ (c < 20) /\ BitOf(o.ctrlpf, 0) => PlayfieldColumn(o, x) = 39 - c
  BY <1>2, Zenon
<1>5. ~ (c < 20) /\ ~ BitOf(o.ctrlpf, 0) => PlayfieldColumn(o, x) = c - 20
  BY <1>2, Zenon
<1>6. CASE x < 80
  BY <1>1, <1>3, <1>6 DEF c
<1>7. CASE x >= 80 /\ BitOf(o.ctrlpf, 0)
  <2>1. PlayfieldColumn(o, x) = 39 - c
    BY <1>1, <1>4, <1>7 DEF c
  <2>2. (159 - x) \div 4 = 39 - c /\ 39 - c \in 0 .. 19
    BY <1>1, <1>7 DEF c
  <2> QED
    BY <1>7, <2>1, <2>2
<1>8. CASE x >= 80 /\ ~ BitOf(o.ctrlpf, 0)
  <2>1. PlayfieldColumn(o, x) = c - 20
    BY <1>1, <1>5, <1>8 DEF c
  <2>2. (x - 80) \div 4 = c - 20 /\ c - 20 \in 0 .. 19
    BY <1>1, <1>8 DEF c
  <2> QED
    BY <1>8, <2>1, <2>2
<1> QED
  BY <1>6, <1>7, <1>8

LEMMA FieldCovers ==
  ASSUME NEW o \in Objects, NEW x \in 0 .. 159
  PROVE  Playfield(o, x) <=> x \in Covers(o, "PF")
<1> DEFINE on(i) == IF i < 4 THEN 4 + i \in o.pf[0]
                    ELSE IF i < 12 THEN 11 - i \in o.pf[1] ELSE i - 12 \in o.pf[2]
           half == [i \in 0 .. 19 |-> on(i)]
           c == PlayfieldColumn(o, x)
<1>1. c \in 0 .. 19
  BY ColumnIs
<1>2. Playfield(o, x) <=> on(c)
  <2> HIDE DEF c
  <2>1. Playfield(o, x) = CASE c \in 0 .. 3   -> 4 + c \in o.pf[0]
                            [] c \in 4 .. 11  -> 11 - c \in o.pf[1]
                            [] c \in 12 .. 19 -> c - 12 \in o.pf[2]
    BY Zenon DEF Playfield, c
  <2>2. CASE c \in 0 .. 3
    <3>1. c < 4 /\ ~ (c \in 4 .. 11) /\ ~ (c \in 12 .. 19)
      BY <2>2
    <3> QED
      BY <2>1, <2>2, <3>1, Zenon
  <2>3. CASE c \in 4 .. 11
    <3>1. ~ (c < 4) /\ c < 12 /\ ~ (c \in 0 .. 3) /\ ~ (c \in 12 .. 19)
      BY <2>3
    <3> QED
      BY <2>1, <2>3, <3>1, Zenon
  <2>4. CASE c \in 12 .. 19
    <3>1. ~ (c < 4) /\ ~ (c < 12) /\ ~ (c \in 0 .. 3) /\ ~ (c \in 4 .. 11)
      BY <2>4
    <3> QED
      BY <2>1, <2>4, <3>1, Zenon
  <2> QED
    BY <1>1, <2>2, <2>3, <2>4
<1>3. x \in FieldColumns(o) <=> (IF x < 80 THEN half[x \div 4]
                                 ELSE half[IF BitOf(o.ctrlpf, 0) THEN (159 - x) \div 4 ELSE (x - 80) \div 4])
  BY DEF FieldColumns, Columns
<1> HIDE DEF half
<1>4. x \in FieldColumns(o) <=> half[c]
  <2> HIDE DEF c
  <2>1. CASE x < 80
    BY <1>3, <2>1, ColumnIs DEF c
  <2>2. CASE x >= 80 /\ BitOf(o.ctrlpf, 0)
    BY <1>3, <2>2, ColumnIs DEF c
  <2>3. CASE x >= 80 /\ ~ BitOf(o.ctrlpf, 0)
    BY <1>3, <2>3, ColumnIs DEF c
  <2> QED
    BY <2>1, <2>2, <2>3
<1>5. half[c] = on(c)
  BY <1>1 DEF half
<1> QED
  BY <1>2, <1>4, <1>5 DEF Covers

LEMMA SpreadInside ==
  ASSUME NEW p \in Int, NEW v, Copies(v) \subseteq Int, NEW w \in Int
  PROVE  Spread(p, v, w) \subseteq 0 .. 159
<1>1. ASSUME NEW start \in Copies(v), NEW k \in 0 .. w - 1
      PROVE  (p + start + k) % Columns \in 0 .. 159
  <2>1. p + start + k \in Int
    OBVIOUS
  <2> QED
    BY <2>1 DEF Columns
<1> DEFINE Column(start, k) == (p + start + k) % Columns
           span == 0 .. w - 1
           inside == 0 .. 159
<1>2. \A start \in Copies(v), k \in span : Column(start, k) \in inside
  BY <1>1
<1>3. Spread(p, v, w) = {Column(start, k) : start \in Copies(v), k \in span}
  BY DEF Spread
<1> HIDE DEF Column, span, inside
<1>4. Spread(p, v, w) \subseteq inside
  BY <1>2, <1>3
<1> QED
  BY <1>4 DEF inside

LEMMA CoversInside ==
  ASSUME NEW o \in Objects, NEW t \in Things
  PROVE  Covers(o, t) \subseteq 0 .. 159
<1>1. CASE t = "PF"
  BY <1>1 DEF Covers, FieldColumns, Columns
<1>2. CASE t = "BL"
  <2>1. o.pos[4] \in Int /\ Size(o.ctrlpf) \in Int
    BY SizeFacts DEF Objects, Columns
  <2>2. Spread(o.pos[4], 0, Size(o.ctrlpf)) \subseteq 0 .. 159
    <3>1. Copies(0) \subseteq Int
      BY DEF Copies
    <3> QED
      BY <2>1, <3>1, SpreadInside
  <2> QED
    BY <1>2, <2>2 DEF Covers
<1>3. ASSUME NEW i \in 0 .. 1, t = IF i = 0 THEN "M0" ELSE "M1"
      PROVE  Covers(o, t) \subseteq 0 .. 159
  <2>1. o.pos[2 + i] \in Int /\ o.nusiz[i] \in 0 .. 255
    BY DEF Objects, Columns
  <2>2. Size(o.nusiz[i]) \in Int /\ Copies(o.nusiz[i]) \subseteq Int
    <3> DEFINE v == o.nusiz[i]
    <3>1. v \in 0 .. 255
      BY <2>1
    <3> HIDE DEF v
    <3>2. Size(v) \in Int
      BY <3>1, SizeFacts
    <3>3. Copies(v) \subseteq Int
      BY <3>1, CopiesFacts
    <3> QED
      BY <3>2, <3>3 DEF v
  <2>3. Spread(o.pos[2 + i], o.nusiz[i], Size(o.nusiz[i])) \subseteq 0 .. 159
    BY <2>1, <2>2, SpreadInside
  <2> QED
    BY <1>3, <2>3 DEF Covers
<1>4. ASSUME NEW i \in 0 .. 1, t = IF i = 0 THEN "P0" ELSE "P1"
      PROVE  Covers(o, t) \subseteq 0 .. 159
  <2> DEFINE scale == Scale(o.nusiz[i])
             on == {k \in 0 .. 7 : BitOf(Graphics(o, i), IF o.refp[i] THEN k ELSE 7 - k)}
             Row(k) == Spread(o.pos[i] + k * scale, o.nusiz[i], scale)
  <2>1. o.pos[i] \in Int /\ o.nusiz[i] \in 0 .. 255
    BY DEF Objects, Columns
  <2>2. scale \in {1, 2, 4} /\ Copies(o.nusiz[i]) \subseteq Int
    BY <2>1, CopiesFacts
  <2>3. \A k \in on : Row(k) \subseteq 0 .. 159
    <3> TAKE k \in on
    <3>1. k \in Int
      OBVIOUS
    <3> HIDE DEF on, scale
    <3>2. o.pos[i] + k * scale \in Int
      BY <2>1, <2>2, <3>1
    <3>3. scale \in Int
      BY <2>2
    <3> QED
      BY <2>2, <3>2, <3>3, SpreadInside DEF Row
  <2>4. Covers(o, t) = UNION {Row(k) : k \in on}
    BY <1>4 DEF Covers, PlayerColumns
  <2> HIDE DEF on, Row
  <2> QED
    BY <2>3, <2>4
<1> QED
  BY <1>1, <1>2, <1>3, <1>4 DEF Things

\* What is lit at a column is what covers it (lib.rs 442-602).
LEMMA LitCovers ==
  ASSUME NEW o \in Objects, NEW x \in 0 .. 159, NEW t \in Things
  PROVE  t \in Lit(o, x) <=> x \in Covers(o, t)
<1>1. /\ Player(o, 0, x) <=> x \in Covers(o, "P0")
      /\ Player(o, 1, x) <=> x \in Covers(o, "P1")
  BY PlayerCovers
<1>2. /\ Missile(o, 0, x) <=> x \in Covers(o, "M0")
      /\ Missile(o, 1, x) <=> x \in Covers(o, "M1")
  BY MissileCovers
<1>3. Playfield(o, x) <=> x \in Covers(o, "PF")
  BY FieldCovers
<1>4. Ball(o, x) <=> x \in Covers(o, "BL")
  BY BallCovers
<1> QED
  BY <1>1, <1>2, <1>3, <1>4 DEF Lit, Things

------------------------------------------------------------------------------
(* The tag.                                                                *)

LEMMA ChooseIs ==
  ASSUME NEW lit, NEW order, NEW n \in 1 .. 6, order[n] \in lit, \A j \in 1 .. n - 1 : order[j] \notin lit
  PROVE  Choose(lit, order) = order[n]
<1> DEFINE First(i) == i \in 1 .. 6 /\ order[i] \in lit /\ \A j \in 1 .. i - 1 : order[j] \notin lit
           c == CHOOSE i \in 1 .. 6 : order[i] \in lit /\ \A j \in 1 .. i - 1 : order[j] \notin lit
<1>1. First(n)
  OBVIOUS
<1>2. First(c)
  BY <1>1, Zenon
<1> HIDE DEF c
<1>3. c = n
  BY <1>1, <1>2
<1>4. lit # {}
  OBVIOUS
<1> QED
  BY <1>3, <1>4 DEF Choose, c

\* What is drawn is the color of the object that is told of (lib.rs 654-783).
TagColor(o, x, t) ==
  CASE t = "BK" -> {3} [] t \in {"P0", "M0"} -> {0} [] t \in {"P1", "M1"} -> {1}
    [] t = "BL" -> {2}
    [] t = "PF" -> IF BitOf(o.ctrlpf, 1) THEN {IF x < 80 THEN 0 ELSE 1} ELSE {2}

LEMMA TagAndColor ==
  ASSUME NEW o, NEW lit \in SUBSET Things, NEW x \in 0 .. 159
  PROVE  /\ Tag(o, lit) \in Things \cup {"BK"}
         /\ Color(o, lit, x) \in 0 .. 3
         /\ Color(o, lit, x) \in TagColor(o, x, Tag(o, lit))
<1> DEFINE front == <<"PF", "BL", "P0", "M0", "P1", "M1">>
           back == <<"P0", "M0", "P1", "M1", "PF", "BL">>
<1>1. CASE lit = {}
  <2>1. Tag(o, lit) = "BK"
    BY <1>1 DEF Tag, Choose
  <2>2. Color(o, lit, x) = 3
    BY <1>1 DEF Color
  <2> QED
    BY <2>1, <2>2 DEF Things, TagColor
<1>2. CASE lit # {} /\ BitOf(o.ctrlpf, 2)
  <2>1. PICK n \in 1 .. 6 : front[n] \in lit /\ \A j \in 1 .. n - 1 : front[j] \notin lit
    <3>1. CASE "PF" \in lit
      BY <3>1
    <3>2. CASE "PF" \notin lit /\ "BL" \in lit
      BY <3>2
    <3>3. CASE "PF" \notin lit /\ "BL" \notin lit /\ "P0" \in lit
      BY <3>3
    <3>4. CASE "PF" \notin lit /\ "BL" \notin lit /\ "P0" \notin lit /\ "M0" \in lit
      BY <3>4
    <3>5. CASE "PF" \notin lit /\ "BL" \notin lit /\ "P0" \notin lit /\ "M0" \notin lit /\ "P1" \in lit
      BY <3>5
    <3>6. CASE lit = {"M1"}
      BY <3>6
    <3> QED
      BY <1>2, <3>1, <3>2, <3>3, <3>4, <3>5, <3>6 DEF Things
  <2>2. Tag(o, lit) = front[n]
    BY <1>2, <2>1, ChooseIs DEF Tag
  <2>3. CASE n = 1
    BY <1>2, <2>1, <2>2, <2>3 DEF Things, TagColor, Color, FieldColor, Columns
  <2>4. CASE n = 2
    BY <1>2, <2>1, <2>2, <2>4 DEF Things, TagColor, Color, FieldColor
  <2>5. CASE n \in 3 .. 4
    BY <1>2, <2>1, <2>2, <2>5 DEF Things, TagColor, Color
  <2>6. CASE n \in 5 .. 6
    BY <1>2, <2>1, <2>2, <2>6 DEF Things, TagColor, Color
  <2> QED
    BY <2>3, <2>4, <2>5, <2>6
<1>3. CASE lit # {} /\ ~ BitOf(o.ctrlpf, 2)
  <2>1. PICK n \in 1 .. 6 : back[n] \in lit /\ \A j \in 1 .. n - 1 : back[j] \notin lit
    <3>1. CASE "P0" \in lit
      BY <3>1
    <3>2. CASE "P0" \notin lit /\ "M0" \in lit
      BY <3>2
    <3>3. CASE "P0" \notin lit /\ "M0" \notin lit /\ "P1" \in lit
      BY <3>3
    <3>4. CASE "P0" \notin lit /\ "M0" \notin lit /\ "P1" \notin lit /\ "M1" \in lit
      BY <3>4
    <3>5. CASE "P0" \notin lit /\ "M0" \notin lit /\ "P1" \notin lit /\ "M1" \notin lit /\ "PF" \in lit
      BY <3>5
    <3>6. CASE lit = {"BL"}
      BY <3>6
    <3> QED
      BY <1>3, <3>1, <3>2, <3>3, <3>4, <3>5, <3>6 DEF Things
  <2>2. Tag(o, lit) = back[n]
    BY <1>3, <2>1, ChooseIs DEF Tag
  <2>3. CASE n \in 1 .. 2
    BY <1>3, <2>1, <2>2, <2>3 DEF Things, TagColor, Color
  <2>4. CASE n \in 3 .. 4
    BY <1>3, <2>1, <2>2, <2>4 DEF Things, TagColor, Color
  <2>5. CASE n = 5
    BY <1>3, <2>1, <2>2, <2>5 DEF Things, TagColor, Color, FieldColor, Columns
  <2>6. CASE n = 6
    BY <1>3, <2>1, <2>2, <2>6 DEF Things, TagColor, Color, FieldColor
  <2> QED
    BY <2>3, <2>4, <2>5, <2>6
<1> QED
  BY <1>1, <1>2, <1>3

------------------------------------------------------------------------------
(* The paddles.                                                            *)

Paddle == [level : Nat, position : {Unplugged} \cup 0 .. 255, last : Nat, dumped : BOOLEAN]

\* A charge of a clock after one of n clocks is a charge of n + 1, rising or
\* falling, and the charge is never negative (paddle.rs 140-157).
LEMMA ChargedOn ==
  ASSUME TiaAssumption, NEW q \in Paddle, NEW n \in Nat
  PROVE  /\ Charged(q, n) \in Nat
         /\ Charged(q, 0) = q.level
         /\ \A p \in Paddle : p.level = Charged(q, n) /\ p.position = q.position /\ p.dumped = q.dumped
                             => Charged(p, 1) = Charged(q, n + 1)
<1> DEFINE rate == IF q.position = Unplugged THEN 0 ELSE Rate(q.position)
<1>1. rate \in Nat /\ Drain \in Nat
  <2>1. (\A v \in 0 .. 255 : Rate(v) \in Nat) /\ Drain \in Nat
    <3>1. (\A v \in 0 .. 255 : Rate(v) \in Nat) /\ Drain \in Nat \ {0}
      BY Zenon DEF TiaAssumption, RatesFit
    <3> QED
      BY <3>1, Zenon
  <2>2. q.position = Unplugged \/ q.position \in 0 .. 255
    BY DEF Paddle
  <2>3. q.position \in 0 .. 255 => Rate(q.position) \in Nat
    BY <2>1, Zenon
  <2> QED
    BY <2>1, <2>2, <2>3
<1>2. q.level \in Nat /\ q.dumped \in BOOLEAN
  BY DEF Paddle
<1>3. \A k \in Nat : Rise(q, k) = k * rate
  BY <1>1 DEF Rise
<1>4. \A k \in Nat, p \in Paddle : p.position = q.position => Rise(p, k) = k * rate
  BY <1>1 DEF Rise
<1> HIDE DEF rate
<1>5. /\ n * rate \in Nat /\ n * Drain \in Nat
      /\ (n + 1) * rate = n * rate + rate /\ (n + 1) * Drain = n * Drain + Drain
      /\ 0 * rate = 0 /\ 0 * Drain = 0 /\ 1 * rate = rate /\ 1 * Drain = Drain
  BY <1>1
<1>6. CASE q.dumped
  <2> DEFINE N == n * Drain
             M == (n + 1) * Drain
             Z == 0 * Drain
             U == 1 * Drain
  <2>1. /\ Charged(q, n) = IF q.level > N THEN q.level - N ELSE 0
        /\ Charged(q, 0) = IF q.level > Z THEN q.level - Z ELSE 0
        /\ Charged(q, n + 1) = IF q.level > M THEN q.level - M ELSE 0
        /\ \A p \in Paddle : p.dumped = q.dumped => Charged(p, 1) = IF p.level > U THEN p.level - U ELSE 0
    BY <1>6 DEF Charged
  <2>2. N \in Nat /\ M = N + Drain /\ Z = 0 /\ U = Drain
    BY <1>5
  <2> HIDE DEF N, M, Z, U
  <2> QED
    BY <1>1, <1>2, <2>1, <2>2
<1>7. CASE ~ q.dumped
  <2>1. /\ Charged(q, n) = q.level + n * rate
        /\ Charged(q, 0) = q.level + 0 * rate
        /\ Charged(q, n + 1) = q.level + (n + 1) * rate
        /\ \A p \in Paddle : p.dumped = q.dumped /\ p.position = q.position => Charged(p, 1) = p.level + 1 * rate
    BY <1>3, <1>4, <1>7 DEF Charged
  <2> QED
    BY <1>1, <1>2, <1>5, <2>1
<1> QED
  BY <1>2, <1>6, <1>7

------------------------------------------------------------------------------
(* The sound.                                                              *)

ToneSince == [clocks : Nat, freq : 0 .. 31, mode : -1 .. 15]

\* A channel of a pure tone is as far into its period as the clocks since its
\* output last changed, counted in the frequency of that change.
InPeriod(c, u) ==
  u.mode \in Pure =>
    /\ c.control % 16 = u.mode
    /\ c.prescale < Prescale(c) /\ c.divider <= u.freq
    /\ u.clocks = (u.freq - c.divider) * Prescale(c) + c.prescale

LEMMA WaveformFacts ==
  ASSUME NEW c \in Channel
  PROVE  /\ Waveform(c) \in Channel
         /\ Waveform(c).control = c.control /\ Waveform(c).freq = c.freq
         /\ Waveform(c).divider = c.divider /\ Waveform(c).prescale = c.prescale
         /\ c.control % 16 \in Pure => Waveform(c).output = 1 - c.output
<1> DEFINE Alike(d) ==
             /\ d \in Channel
             /\ d.control = c.control /\ d.freq = c.freq
             /\ d.divider = c.divider /\ d.prescale = c.prescale
<1>1. ASSUME NEW d, Alike(d), NEW in \in Nat
      PROVE  /\ Alike([d EXCEPT !.poly5 = Shifted(@, in, 32)])
             /\ Alike([d EXCEPT !.poly4 = Shifted(@, in, 16)])
             /\ [d EXCEPT !.poly5 = Shifted(@, in, 32)].poly5 \in 0 .. 31
  <2>1. Shifted(d.poly5, in, 32) \in 0 .. 31 /\ Shifted(d.poly4, in, 16) \in 0 .. 15
    <3>1. d.poly5 \in Int /\ d.poly4 \in Int
      BY <1>1 DEF Channel
    <3>2. 2 * d.poly5 + in \in Int /\ 2 * d.poly4 + in \in Int
      BY <3>1
    <3>3. \A a \in Int : a % 32 \in 0 .. 31 /\ a % 16 \in 0 .. 15
      OBVIOUS
    <3> QED
      BY <3>2, <3>3, Zenon DEF Shifted
  <2> QED
    BY <1>1, <2>1 DEF Channel
<1>2. ASSUME NEW d, Alike(d)
      PROVE  /\ Alike(Out4(d)) /\ Alike(Out5(d)) /\ Alike(Flip(d)) /\ Alike([d EXCEPT !.output = 1])
             /\ Flip(d).output = 1 - d.output
  <2>1. d.poly4 % 2 \in 0 .. 1 /\ d.poly5 % 2 \in 0 .. 1 /\ 1 - d.output \in 0 .. 1
    BY <1>2 DEF Channel
  <2>2. \A bit \in 0 .. 1 : Alike([d EXCEPT !.output = bit])
    BY <1>2 DEF Channel
  <2>3. Flip(d).output = 1 - d.output
    BY <1>2 DEF Flip, Channel
  <2> HIDE DEF Alike
  <2>4. Alike(Out4(d)) /\ Alike(Out5(d))
    BY <2>1, <2>2 DEF Out4, Out5
  <2>5. Alike(Flip(d)) /\ Alike([d EXCEPT !.output = 1])
    BY <2>1, <2>2 DEF Flip
  <2> QED
    BY <2>3, <2>4, <2>5
<1>3. \A p, q : Differ(p, q) \in Nat
  BY DEF Differ
<1>4. Alike(c)
  OBVIOUS
<1> HIDE DEF Alike
<1> DEFINE next5 == Step5(c)
           noise == [c EXCEPT !.poly5 = Shifted(@, Differ(BitOf(c.poly5, 4), BitOf(c.poly4, 3)), 32)]
           mode == c.control % 16
<1>5. Alike(next5) /\ Alike(Step4(c)) /\ Alike(Step4(next5))
  <2>1. In4(c) \in Nat /\ In5(c) \in Nat /\ In4(next5) \in Nat
    BY <1>3 DEF In4, In5
  <2>2. Alike(next5) /\ Alike(Step4(c))
    BY <1>1, <1>4, <2>1 DEF Step5, Step4
  <2> HIDE DEF next5
  <2>3. Alike(Step4(next5))
    BY <1>1, <2>1, <2>2 DEF Step4
  <2> QED
    BY <2>2, <2>3
<1>6. Alike([next5 EXCEPT !.poly4 = Shifted(@, (In4(c) + next5.poly5) % 2, 16)])
  <2>1. In4(c) \in Nat
    BY <1>3 DEF In4
  <2>2. next5.poly5 \in 0 .. 31
    BY <1>5 DEF Alike, Channel
  <2> HIDE DEF next5
  <2>3. (In4(c) + next5.poly5) % 2 \in Nat
    BY <2>1, <2>2
  <2> QED
    BY <1>1, <1>5, <2>3
<1>7. Alike([noise EXCEPT !.poly4 = Shifted(@, noise.poly5 % 2, 16)])
  <2>1. Alike(noise)
    BY <1>1, <1>3, <1>4
  <2> HIDE DEF noise
  <2>2. noise.poly5 % 2 \in Nat
    BY <2>1 DEF Alike, Channel
  <2> QED
    BY <1>1, <2>1, <2>2
<1>8. mode \in 0 .. 15
  BY DEF Channel
<1>9. Alike(Waveform(c)) /\ (mode \in Pure => Waveform(c).output = 1 - c.output)
  <2> DEFINE composite == [next5 EXCEPT !.poly4 = Shifted(@, (In4(c) + next5.poly5) % 2, 16)]
             white == [noise EXCEPT !.poly4 = Shifted(@, noise.poly5 % 2, 16)]
             gated == IF next5.poly5 % 2 = 1 THEN Step4(next5) ELSE next5
             still == [c EXCEPT !.output = 1]
             poly1 == Out4(Step4(c))
             poly2 == Out4(gated)
             poly3 == Out4(composite)
             pure == Flip(c)
             five == Out5(next5)
             halved == IF next5.poly5 % 2 = 1 THEN Flip(next5) ELSE next5
             nine == Out4(white)
  <2>1. Waveform(c) =
          CASE mode \in {0, 11} -> still
            [] mode = 1 -> poly1
            [] mode = 2 -> poly2
            [] mode = 3 -> poly3
            [] mode \in {4, 5, 12, 13} -> pure
            [] mode \in {6, 9, 10, 14} -> five
            [] mode \in {7, 15} -> halved
            [] mode = 8 -> nine
    BY Zenon DEF Waveform
  <2>2. /\ Alike(still) /\ Alike(poly1) /\ Alike(pure) /\ Alike(five)
        /\ pure.output = 1 - c.output
    BY <1>2, <1>4, <1>5, Zenon
  <2>3. Alike(poly2)
    <3>1. Alike(gated)
      BY <1>5, Zenon
    <3> QED
      BY <1>2, <3>1, Zenon
  <2>4. Alike(poly3) /\ Alike(nine)
    BY <1>2, <1>6, <1>7, Zenon
  <2>5. Alike(halved)
    BY <1>2, <1>5, Zenon
  <2> HIDE DEF still, poly1, poly2, poly3, pure, five, halved, nine, composite, white, gated, next5, mode
  <2>6. /\ mode \in {4, 5, 12, 13} => Waveform(c) = pure
        /\ Waveform(c) \in {still, poly1, poly2, poly3, pure, five, halved, nine}
    BY <1>8, <2>1
  <2> QED
    BY <2>2, <2>3, <2>4, <2>5, <2>6 DEF Pure
<1> QED
  BY <1>9 DEF Alike

\* A clock of a channel, with the count since its last change (audio.rs 53-136).
LEMMA TickFacts ==
  ASSUME NEW c \in Channel, NEW u \in ToneSince, InPeriod(c, u), NEW d, d = TickChannel(c)
  PROVE  LET v == IF d.output # c.output
                  THEN [clocks |-> 0, freq |-> d.freq, mode |-> d.control % 16]
                  ELSE [u EXCEPT !.clocks = @ + 1]
         IN /\ d \in Channel
            /\ v \in ToneSince
            /\ InPeriod(d, v)
            /\ d.output # c.output /\ u.mode \in Pure => u.clocks + 1 = Prescale(c) * (u.freq + 1)
<1> DEFINE v == IF d.output # c.output
                THEN [clocks |-> 0, freq |-> d.freq, mode |-> d.control % 16]
                ELSE [u EXCEPT !.clocks = @ + 1]
           P == Prescale(c)
<1>1. /\ P \in {114, 342} /\ c.prescale \in 0 .. 341 /\ c.divider \in 0 .. 31 /\ c.freq \in 0 .. 31
      /\ c.control \in 0 .. 255 /\ c.control % 16 \in 0 .. 15 /\ c.output \in 0 .. 1
      /\ u.clocks \in Nat /\ u.freq \in 0 .. 31 /\ u.mode \in -1 .. 15
  BY DEF Prescale, Channel, ToneSince
<1>2. /\ u.mode \in Pure => c.control % 16 = u.mode
      /\ u.mode \in Pure => c.prescale < P /\ c.divider <= u.freq
      /\ u.mode \in Pure => u.clocks = (u.freq - c.divider) * P + c.prescale
  BY DEF InPeriod
<1>3. ASSUME NEW e \in Channel, e.control = c.control
      PROVE  Prescale(e) = P
  BY <1>3 DEF Prescale
<1>4. CASE c.prescale + 1 < P
  <2>1. d = [c EXCEPT !.prescale = @ + 1]
    BY <1>4 DEF TickChannel
  <2>2. d \in Channel /\ d.output = c.output /\ d.control = c.control
    BY <1>1, <1>4, <2>1 DEF Channel
  <2>3. v = [u EXCEPT !.clocks = @ + 1]
    BY <2>2
  <2>4. v \in ToneSince /\ v.clocks = u.clocks + 1 /\ v.freq = u.freq /\ v.mode = u.mode
    BY <1>1, <2>3 DEF ToneSince
  <2>5. d.prescale = c.prescale + 1 /\ d.divider = c.divider
    BY <2>1 DEF Channel
  <2>6. Prescale(d) = P
    BY <1>3, <2>2
  <2> HIDE DEF P, v
  <2>7. InPeriod(d, v)
    <3> SUFFICES ASSUME u.mode \in Pure
                 PROVE  /\ d.control % 16 = u.mode /\ d.prescale < P /\ d.divider <= u.freq
                        /\ u.clocks + 1 = (u.freq - d.divider) * P + d.prescale
      BY <2>4, <2>6 DEF InPeriod
    <3>1. (u.freq - c.divider) * P \in Int
      BY <1>1
    <3> QED
      BY <1>1, <1>2, <1>4, <2>2, <2>5, <3>1
  <2> QED
    BY <2>2, <2>4, <2>7 DEF v
<1>5. CASE ~ (c.prescale + 1 < P) /\ c.divider # 0
  <2>1. d = [c EXCEPT !.prescale = 0, !.divider = @ - 1]
    BY <1>5 DEF TickChannel
  <2>2. d \in Channel /\ d.output = c.output /\ d.control = c.control
    <3>1. c.divider - 1 \in 0 .. 31 /\ 0 \in 0 .. 341
      BY <1>1, <1>5
    <3> DEFINE e == [c EXCEPT !.prescale = 0]
    <3>2. e \in Channel /\ e.output = c.output /\ e.control = c.control /\ e.divider = c.divider
      BY <3>1 DEF Channel
    <3>3. d = [e EXCEPT !.divider = c.divider - 1]
      BY <2>1, <3>2 DEF Channel
    <3> HIDE DEF e
    <3> QED
      BY <3>1, <3>2, <3>3 DEF Channel
  <2>3. v = [u EXCEPT !.clocks = @ + 1]
    BY <2>2
  <2>4. v \in ToneSince /\ v.clocks = u.clocks + 1 /\ v.freq = u.freq /\ v.mode = u.mode
    BY <1>1, <2>3 DEF ToneSince
  <2>5. d.prescale = 0 /\ d.divider = c.divider - 1
    BY <2>1 DEF Channel
  <2>6. Prescale(d) = P
    BY <1>3, <2>2
  <2> HIDE DEF P, v
  <2>7. InPeriod(d, v)
    <3> SUFFICES ASSUME u.mode \in Pure
                 PROVE  /\ d.control % 16 = u.mode /\ d.prescale < P /\ d.divider <= u.freq
                        /\ u.clocks + 1 = (u.freq - d.divider) * P + d.prescale
      BY <2>4, <2>6 DEF InPeriod
    <3>1. c.prescale + 1 = P
      BY <1>1, <1>2, <1>5
    <3>2. (u.freq - (c.divider - 1)) * P = (u.freq - c.divider) * P + P /\ (u.freq - c.divider) * P \in Int
      <4>1. CASE P = 114
        BY <1>1, <4>1
      <4>2. CASE P = 342
        BY <1>1, <4>2
      <4> QED
        BY <1>1, <4>1, <4>2
    <3>3. u.clocks + 1 = (u.freq - d.divider) * P + d.prescale
      BY <1>1, <1>2, <2>5, <3>1, <3>2
    <3> QED
      BY <1>1, <1>2, <1>5, <2>2, <2>5, <3>3
  <2> QED
    BY <2>2, <2>4, <2>7 DEF v
<1>6. CASE ~ (c.prescale + 1 < P) /\ c.divider = 0
  <2> DEFINE e == [c EXCEPT !.prescale = 0, !.divider = c.freq]
  <2>1. d = Waveform(e)
    BY <1>6 DEF TickChannel
  <2>2. /\ e \in Channel /\ e.control = c.control /\ e.freq = c.freq /\ e.output = c.output
        /\ e.prescale = 0 /\ e.divider = c.freq
    <3>1. c.freq \in 0 .. 31 /\ 0 \in 0 .. 341
      BY <1>1
    <3> DEFINE c0 == [c EXCEPT !.prescale = 0]
    <3>2. /\ c0 \in Channel /\ c0.output = c.output /\ c0.control = c.control /\ c0.freq = c.freq
          /\ c0.prescale = 0
      BY <3>1 DEF Channel
    <3>3. e = [c0 EXCEPT !.divider = c.freq]
      BY <3>2 DEF Channel
    <3> HIDE DEF c0, e
    <3> QED
      BY <3>1, <3>2, <3>3 DEF Channel
  <2> HIDE DEF e
  <2>3. /\ d \in Channel /\ d.control = c.control /\ d.freq = c.freq /\ d.divider = c.freq /\ d.prescale = 0
        /\ c.control % 16 \in Pure => d.output = 1 - c.output
    BY <2>1, <2>2, WaveformFacts
  <2>4. Prescale(d) = P
    BY <1>3, <2>3
  <2>5. CASE d.output # c.output
    <3>1. v = [clocks |-> 0, freq |-> d.freq, mode |-> d.control % 16]
      BY <2>5
    <3>2. v \in ToneSince
      BY <1>1, <2>3, <3>1 DEF ToneSince
    <3>3. InPeriod(d, v)
      <4>1. (c.freq - c.freq) * P + 0 = 0
        BY <1>1
      <4>2. v.mode = d.control % 16 /\ v.freq = c.freq /\ v.clocks = 0
        BY <2>3, <3>1
      <4> HIDE DEF v, P
      <4> QED
        BY <1>1, <2>3, <2>4, <4>1, <4>2 DEF InPeriod
    <3>4. ASSUME u.mode \in Pure
          PROVE  u.clocks + 1 = P * (u.freq + 1)
      <4>1. c.prescale + 1 = P
        BY <1>1, <1>2, <1>6, <3>4
      <4>2. u.clocks = (u.freq - 0) * P + c.prescale
        BY <1>2, <1>6, <3>4, Zenon
      <4> HIDE DEF P
      <4>3. CASE P = 114
        BY <1>1, <4>1, <4>2, <4>3
      <4>4. CASE P = 342
        BY <1>1, <4>1, <4>2, <4>4
      <4> QED
        BY <1>1, <4>3, <4>4
    <3> QED
      BY <2>3, <3>2, <3>3, <3>4
  <2>6. CASE d.output = c.output
    <3>1. v = [u EXCEPT !.clocks = @ + 1]
      BY <2>6
    <3>2. v \in ToneSince /\ v.mode = u.mode
      BY <1>1, <3>1 DEF ToneSince
    <3>3. u.mode \notin Pure
      BY <1>1, <1>2, <2>3, <2>6
    <3>4. InPeriod(d, v)
      BY <3>2, <3>3 DEF InPeriod
    <3> QED
      BY <2>3, <2>6, <3>2, <3>4
  <2> QED
    BY <2>5, <2>6
<1> QED
  BY <1>4, <1>5, <1>6

------------------------------------------------------------------------------
(* The registers.                                                          *)

\* The registers' types by name.
Pair == 0 .. 1
Movable == 0 .. 4
Octet == 0 .. 255
Column == 0 .. Columns - 1
Motion == -8 .. 7
Parts == 0 .. 2
PartBits == SUBSET (0 .. 7)
Registers ==
  [pf : [Parts -> PartBits], grp : [Pair -> Octet], oldgrp : [Pair -> Octet],
   nusiz : [Pair -> Octet], pos : [Movable -> Column], hm : [Movable -> Motion],
   ctrlpf : Octet, refp : [Pair -> BOOLEAN], enam : [Pair -> BOOLEAN], enabl : BOOLEAN,
   vdelp : [Pair -> BOOLEAN], resmp : [Pair -> BOOLEAN]]

LEMMA ObjectsAre == Objects = Registers
BY Zenon DEF Objects, Registers, Pair, Movable, Octet, Column, Motion, Parts, PartBits

LEMMA PutByte ==
  ASSUME NEW o \in Registers, NEW i \in Pair, NEW v \in Octet
  PROVE  /\ [o EXCEPT !.nusiz[i] = v] \in Registers
         /\ [o EXCEPT !.oldgrp[i] = v] \in Registers
         /\ [o EXCEPT !.grp[i] = v] \in Registers
<1>1. [o EXCEPT !.nusiz[i] = v] \in Registers
  BY DEF Registers
<1>2. [o EXCEPT !.oldgrp[i] = v] \in Registers
  BY DEF Registers
<1>3. [o EXCEPT !.grp[i] = v] \in Registers
  BY DEF Registers
<1> QED
  BY <1>1, <1>2, <1>3

LEMMA PutFlag ==
  ASSUME NEW o \in Registers, NEW i \in Pair, NEW v \in BOOLEAN
  PROVE  /\ [o EXCEPT !.refp[i] = v] \in Registers
         /\ [o EXCEPT !.enam[i] = v] \in Registers
         /\ [o EXCEPT !.vdelp[i] = v] \in Registers
         /\ [o EXCEPT !.resmp[i] = v] \in Registers
<1>1. [o EXCEPT !.refp[i] = v] \in Registers
  BY DEF Registers
<1>2. [o EXCEPT !.enam[i] = v] \in Registers
  BY DEF Registers
<1>3. [o EXCEPT !.vdelp[i] = v] \in Registers
  BY DEF Registers
<1>4. [o EXCEPT !.resmp[i] = v] \in Registers
  BY DEF Registers
<1> QED
  BY <1>1, <1>2, <1>3, <1>4

LEMMA PutPart ==
  ASSUME NEW o \in Registers, NEW i \in Parts, NEW v \in PartBits
  PROVE  [o EXCEPT !.pf[i] = v] \in Registers
BY DEF Registers

LEMMA PutColumn ==
  ASSUME NEW o \in Registers, NEW i \in Movable, NEW v \in Column
  PROVE  [o EXCEPT !.pos[i] = v] \in Registers
BY DEF Registers

LEMMA PutMotion ==
  ASSUME NEW o \in Registers, NEW i \in Movable, NEW v \in Motion
  PROVE  [o EXCEPT !.hm[i] = v] \in Registers
BY DEF Registers

LEMMA PutWhole ==
  ASSUME NEW o \in Registers
  PROVE  /\ \A v \in Octet : [o EXCEPT !.ctrlpf = v] \in Registers
         /\ \A f \in BOOLEAN : [o EXCEPT !.enabl = f] \in Registers
         /\ \A to \in [Movable -> Column] : [o EXCEPT !.pos = to] \in Registers
         /\ \A to \in [Movable -> Motion] : [o EXCEPT !.hm = to] \in Registers
<1>1. \A v \in Octet : [o EXCEPT !.ctrlpf = v] \in Registers
  BY DEF Registers
<1>2. \A f \in BOOLEAN : [o EXCEPT !.enabl = f] \in Registers
  BY DEF Registers
<1>3. \A to \in [Movable -> Column] : [o EXCEPT !.pos = to] \in Registers
  BY DEF Registers
<1>4. \A to \in [Movable -> Motion] : [o EXCEPT !.hm = to] \in Registers
  BY DEF Registers
<1> QED
  BY <1>1, <1>2, <1>3, <1>4, Zenon

LEMMA WriteRegisterFacts ==
  ASSUME NEW o \in Objects, clock \in 0 .. LineClocks - 1, NEW reg \in ObjectRegisters,
         NEW i \in Where(reg), NEW v \in 0 .. 255
  PROVE  WriteRegister(o, reg, i, v) \in Objects
<1> DEFINE to == WriteRegister(o, reg, i, v)
<1> SUFFICES to \in Registers
  BY ObjectsAre, Zenon
<1>0. o \in Registers /\ v \in Octet
  BY ObjectsAre, Zenon DEF Octet
<1>1. CASE reg \in {"NUSIZ", "REFP", "GRP", "ENAM", "VDELP", "RESMP"}
  <2>1. i \in 0 .. 1 /\ 1 - i \in 0 .. 1
    BY <1>1 DEF Where
  <2>2. \A b \in 0 .. 7 : BitOf(v, b) \in BOOLEAN
    BY DEF BitOf
  <2>3. i \in Pair /\ 1 - i \in Pair /\ BitOf(v, 3) \in BOOLEAN /\ BitOf(v, 1) \in BOOLEAN /\ BitOf(v, 0) \in BOOLEAN
    BY <2>1, <2>2 DEF Pair
  <2>4. CASE reg = "GRP"
    <3> DEFINE kept == [o EXCEPT !.oldgrp[1 - i] = o.grp[1 - i]]
    <3>1. to = [kept EXCEPT !.grp[i] = v]
      BY <2>4 DEF WriteRegister, Grp
    <3>2. o.grp[1 - i] \in Octet
      BY <1>0, <2>3 DEF Registers
    <3>3. kept \in Registers
      BY <1>0, <2>3, <3>2, PutByte, Zenon
    <3> HIDE DEF kept
    <3> HIDE DEF to
    <3> QED
      BY <1>0, <2>3, <3>1, <3>3, PutByte, Zenon
  <2>5. CASE reg = "NUSIZ"
    <3>1. to = [o EXCEPT !.nusiz[i] = v]
      BY <2>5 DEF WriteRegister
    <3> HIDE DEF to
    <3> QED
      BY <1>0, <2>3, <3>1, PutByte, Zenon
  <2>6. CASE reg = "REFP"
    <3>1. to = [o EXCEPT !.refp[i] = BitOf(v, 3)]
      BY <2>6 DEF WriteRegister
    <3> HIDE DEF to
    <3> QED
      BY <1>0, <2>3, <3>1, PutFlag, Zenon
  <2>7. CASE reg = "ENAM"
    <3>1. to = [o EXCEPT !.enam[i] = BitOf(v, 1)]
      BY <2>7 DEF WriteRegister
    <3> HIDE DEF to
    <3> QED
      BY <1>0, <2>3, <3>1, PutFlag, Zenon
  <2>8. CASE reg = "VDELP"
    <3>1. to = [o EXCEPT !.vdelp[i] = BitOf(v, 0)]
      BY <2>8 DEF WriteRegister
    <3> HIDE DEF to
    <3> QED
      BY <1>0, <2>3, <3>1, PutFlag, Zenon
  <2>9. CASE reg = "RESMP"
    <3>1. to = [o EXCEPT !.resmp[i] = BitOf(v, 1)]
      BY <2>9 DEF WriteRegister
    <3> HIDE DEF to
    <3> QED
      BY <1>0, <2>3, <3>1, PutFlag, Zenon
  <2> QED
    BY <1>1, <2>4, <2>5, <2>6, <2>7, <2>8, <2>9
<1>2. CASE reg = "PF"
  <2> DEFINE part == IF i = 0 THEN o.pf[i] \cup (Bits(v, 8) \cap 4 .. 7) ELSE Bits(v, 8)
  <2>1. i \in Parts
    BY <1>2 DEF Where, Parts
  <2>2. Bits(v, 8) \in PartBits
    BY DEF Bits, PartBits
  <2>3. o.pf[i] \in PartBits
    BY <1>0, <2>1 DEF Registers
  <2>4. part \in PartBits
    BY <2>2, <2>3 DEF PartBits
  <2>5. to = [o EXCEPT !.pf[i] = part]
    BY <1>2 DEF WriteRegister
  <2> HIDE DEF part
  <2> HIDE DEF to
  <2> QED
    BY <1>0, <2>1, <2>4, <2>5, PutPart, Zenon
<1>3. CASE reg = "RES"
  <2> DEFINE at == ResolvePosition(IF i < 2 THEN 5 ELSE 4)
  <2>1. i \in Movable
    BY <1>3 DEF Where, Movable
  <2>2. ResolvePosition(4) \in 0 .. 159 /\ ResolvePosition(5) \in 0 .. 159
    BY DEF ResolvePosition, LineClocks, Hblank, Columns
  <2>3. at \in Column
    BY <2>2 DEF Column, Columns
  <2>4. to = [o EXCEPT !.pos[i] = at]
    BY <1>3 DEF WriteRegister
  <2> HIDE DEF at
  <2> HIDE DEF to
  <2> QED
    BY <1>0, <2>1, <2>3, <2>4, PutColumn, Zenon
<1>4. CASE reg = "HM"
  <2>1. i \in Movable
    BY <1>4 DEF Where, Movable
  <2>2. SignExtend4bit(v) \in Motion
    BY DEF SignExtend4bit, Motion
  <2>3. to = [o EXCEPT !.hm[i] = SignExtend4bit(v)]
    BY <1>4 DEF WriteRegister
  <2> HIDE DEF to
  <2> QED
    BY <1>0, <2>1, <2>2, <2>3, PutMotion, Zenon
<1>5. CASE reg = "HMOVE"
  <2> DEFINE moved == [j \in Movable |-> Moved(o.pos[j], o.hm[j])]
  <2>1. \A j \in 0 .. 4 : Moved(o.pos[j], o.hm[j]) \in 0 .. 159
    <3> TAKE j \in 0 .. 4
    <3>1. o.pos[j] \in 0 .. 159 /\ o.hm[j] \in -8 .. 7
      <4>1. j \in Movable
        BY Zenon DEF Movable
      <4>2. o.pos[j] \in Column /\ o.hm[j] \in Motion
        BY <1>0, <4>1 DEF Registers
      <4> QED
        BY <4>2 DEF Column, Motion, Columns
    <3>2. \A p, h \in Int : Moved(p, h) \in 0 .. 159
      BY DEF Moved, Columns
    <3>3. o.pos[j] \in Int /\ o.hm[j] \in Int
      BY <3>1
    <3> QED
      BY <3>2, <3>3, Zenon
  <2>2. \A j \in Movable : Moved(o.pos[j], o.hm[j]) \in Column
    <3>1. 0 .. 159 = Column
      BY DEF Column, Columns
    <3> QED
      BY <2>1, <3>1, Zenon DEF Movable
  <2>3. moved \in [Movable -> Column]
    BY <2>2, Zenon
  <2>4. DOMAIN o.pos = Movable
    BY <1>0 DEF Registers
  <2>5. to = [o EXCEPT !.pos = moved]
    BY <1>5, <2>4 DEF WriteRegister
  <2> HIDE DEF moved
  <2> HIDE DEF to
  <2> QED
    BY <1>0, <2>3, <2>5, PutWhole, Zenon
<1>6. CASE reg = "HMCLR"
  <2> DEFINE cleared == [j \in Movable |-> 0]
  <2>1. cleared \in [Movable -> Motion]
    BY DEF Motion
  <2>2. DOMAIN o.hm = Movable
    BY <1>0 DEF Registers
  <2>3. to = [o EXCEPT !.hm = cleared]
    BY <1>6, <2>2 DEF WriteRegister
  <2> HIDE DEF cleared
  <2> HIDE DEF to
  <2> QED
    BY <1>0, <2>1, <2>3, PutWhole, Zenon
<1>7. CASE reg = "CTRLPF"
  <2>1. to = [o EXCEPT !.ctrlpf = v]
    BY <1>7 DEF WriteRegister
  <2> HIDE DEF to
  <2> QED
    BY <1>0, <2>1, PutWhole, Zenon
<1>8. CASE reg = "ENABL"
  <2>1. BitOf(v, 1) \in BOOLEAN
    BY DEF BitOf
  <2>2. to = [o EXCEPT !.enabl = BitOf(v, 1)]
    BY <1>8 DEF WriteRegister
  <2> HIDE DEF to
  <2> QED
    BY <1>0, <2>1, <2>2, PutWhole, Zenon
<1> QED
  BY <1>1, <1>2, <1>3, <1>4, <1>5, <1>6, <1>7, <1>8 DEF ObjectRegisters

------------------------------------------------------------------------------
(* The inductive invariant.                                                *)

Counts ==
  /\ program \in Programs /\ now \in Nat /\ busy \in Int
  /\ clock \in Nat /\ clock < LineClocks /\ line \in Nat /\ line < 65536
Picture ==
  /\ obj \in Objects /\ asked \in [0 .. 2 -> SUBSET (0 .. 7)]
  /\ cx \subseteq DOMAIN LatchOf
  /\ color \in Black .. 3 /\ tag \in Things \cup {"BK"}
  /\ seen \in [Things -> SUBSET Visible] /\ quiet \in BOOLEAN
Sounds == channels \in [0 .. 1 -> Channel] /\ sound \in 0 .. 30 /\ tone \in [0 .. 1 -> ToneSince]
Inputs == paddles \in [0 .. 3 -> Paddle] /\ level \in [0 .. 3 -> Nat]
TiaTypeOK == Counts /\ Picture /\ Sounds /\ Inputs

\* On a quiet line what has been seen so far is what is lit there, and every
\* collision of its columns is latched.
Drawn ==
  quiet /\ line < DrawnLines =>
    /\ \A t \in Things : seen[t] = {x \in 0 .. clock - Hblank : t \in Lit(obj, x)}
    /\ \A x \in 0 .. clock - Hblank : Collide(Lit(obj, x)) \subseteq cx

\* A channel is where its period says.
Tones == \A i \in 0 .. 1 : InPeriod(channels[i], tone[i])

\* What is left to charge since a paddle was last looked at is what the charge
\* of every clock has added since.
CaughtUp(q, l, t) == q.last <= t /\ l = Charged(q, t - q.last)
Charges == \A i \in 0 .. 3 : CaughtUp(paddles[i], level[i], now)

TiaInv == TiaTypeOK /\ Drawn /\ Tones /\ Charges

LEMMA LatchPairs ==
  ASSUME NEW l \in DOMAIN LatchOf
  PROVE  \E s, t \in Things : s # t /\ LatchOf[l] = {s, t}
<1>1. PICK r \in {"CXM0P", "CXM1P", "CXP0FB", "CXP1FB", "CXM0FB", "CXM1FB", "CXBLPF", "CXPPMM"}, b \in {7, 6} :
        l = <<r, b>> /\ l # <<"CXBLPF", 6>>
  BY DEF LatchOf
<1>2. LatchOf[l] \in {{"M0", "P1"}, {"M0", "P0"}, {"M1", "P0"}, {"M1", "P1"}, {"P0", "PF"}, {"P0", "BL"},
                      {"P1", "PF"}, {"P1", "BL"}, {"M0", "PF"}, {"M0", "BL"}, {"M1", "PF"}, {"M1", "BL"},
                      {"BL", "PF"}, {"P0", "P1"}, {"M0", "M1"}}
  BY <1>1 DEF LatchOf
<1> QED
  BY <1>2 DEF Things

------------------------------------------------------------------------------
(* A clock.                                                                *)

TickLeaves ==
  /\ clock' \in Nat /\ clock' < LineClocks /\ line' \in Nat /\ line' < 65536
  /\ color' \in Black .. 3 /\ tag' \in Things \cup {"BK"} /\ cx' \subseteq DOMAIN LatchOf
  /\ seen' \in [Things -> SUBSET Visible] /\ quiet' \in BOOLEAN
  /\ Drawn'
  /\ color' # Black => color' \in TagColor(obj, clock' - Hblank, tag')

LEMMA TickPicture ==
  ASSUME Counts, Picture, Drawn, TickColorClock
  PROVE  TickLeaves
<1>1. /\ clock \in Nat /\ clock < 228 /\ line \in Nat /\ line < 65536
  BY DEF Counts, LineClocks
<1>2. /\ obj \in Objects /\ quiet \in BOOLEAN
      /\ cx \subseteq DOMAIN LatchOf /\ seen \in [Things -> SUBSET Visible]
  BY DEF Picture
<1>3. clock' = Clock /\ line' = Line /\ obj' = obj /\ quiet' = (Wraps \/ quiet) /\ RenderPixel
  BY Zenon DEF TickColorClock
<1>4. /\ Wraps <=> clock = 227
      /\ clock = 227 => Clock = 0
      /\ clock # 227 => Clock = clock + 1 /\ Line = line
  BY <1>1 DEF Wraps, Clock, Line, LineClocks
<1>5. /\ clock' \in Nat /\ clock' < 228 /\ line' \in Nat /\ line' < 65536
      /\ clock = 227 => clock' = 0
      /\ clock # 227 => clock' = clock + 1 /\ line' = line
  <2>1. Line \in Nat /\ Line < 65536
    BY <1>1 DEF Line
  <2> QED
    BY <1>1, <1>3, <1>4, <2>1
<1>8. quiet' \in BOOLEAN /\ (clock # 227 => quiet' = quiet)
  BY <1>2, <1>3, <1>4, Zenon
<1>9. clock' < Hblank => \A x \in 0 .. clock' - Hblank : FALSE
  <2>1. \A k \in Nat : k < Hblank => \A x \in 0 .. k - Hblank : FALSE
    <3> SUFFICES ASSUME NEW k \in Nat, k < Hblank, NEW x \in Int, x \in 0 .. k - Hblank
                 PROVE  FALSE
      OBVIOUS
    <3> QED
      BY DEF Hblank
  <2>2. clock' \in Nat
    BY <1>5
  <2> QED
    BY <2>1, <2>2, Zenon
<1>6. CASE clock' < Hblank \/ line' >= DrawnLines
  <2>1. /\ color' = Black /\ tag' = "BK" /\ cx' = cx
        /\ seen' = IF clock = 227 THEN [t \in Things |-> {}] ELSE seen
    BY <1>3, <1>4, <1>6, Zenon DEF RenderPixel
  <2>2. seen' \in [Things -> SUBSET Visible]
    BY <1>2, <2>1
  <2>3. ASSUME quiet', line' < DrawnLines
        PROVE  /\ \A t \in Things : seen'[t] = {x \in 0 .. clock' - Hblank : t \in Lit(obj', x)}
               /\ \A x \in 0 .. clock' - Hblank : Collide(Lit(obj', x)) \subseteq cx'
    <3>1. clock' < Hblank
      <4>1. line' < DrawnLines => ~ (line' >= DrawnLines)
        BY <1>5 DEF DrawnLines
      <4> QED
        BY <1>6, <2>3, <4>1, Zenon
    <3>2. \A x \in 0 .. clock' - Hblank : FALSE
      BY <1>9, <3>1, Zenon
    <3>3. CASE clock = 227
      <4>1. \A t \in Things : seen'[t] = {}
        BY <2>1, <3>3
      <4> QED
        BY <3>2, <4>1, Zenon
    <3>4. CASE clock # 227
      <4>1. quiet /\ line < DrawnLines /\ clock < Hblank
        <5>1. line' = line /\ clock' = clock + 1
          BY <1>5, <3>4
        <5>2. clock < Hblank
          BY <1>1, <3>1, <5>1 DEF Hblank
        <5> QED
          BY <1>8, <2>3, <3>4, <5>1, <5>2
      <4>2. \A x \in 0 .. clock - Hblank : FALSE
        BY <1>1, <4>1 DEF Hblank
      <4>3. \A t \in Things : seen[t] = {x \in 0 .. clock - Hblank : t \in Lit(obj, x)}
        BY <4>1, Zenon DEF Drawn
      <4>4. \A t \in Things : seen[t] = {}
        BY <4>2, <4>3, Zenon
      <4>5. seen' = seen
        BY <2>1, <3>4
      <4> QED
        BY <3>2, <4>4, <4>5, Zenon
    <3> QED
      BY <3>3, <3>4
  <2>4. Drawn'
    BY <2>3, Zenon DEF Drawn
  <2>5. color' \in Black .. 3
    BY <2>1 DEF Black
  <2> QED
    BY <1>2, <1>5, <1>8, <2>1, <2>2, <2>4, <2>5 DEF LineClocks, TickLeaves
<1>7. CASE ~ (clock' < Hblank \/ line' >= DrawnLines)
  <2> DEFINE x == clock' - Hblank
             lit == Lit(obj, x)
  <2>1. /\ color' = Color(obj, lit, x) /\ tag' = Tag(obj, lit)
        /\ seen' = [t \in Things |-> IF t \in lit THEN seen[t] \cup {x} ELSE seen[t]]
        /\ cx' = cx \cup Collide(lit)
    BY <1>3, <1>7, Zenon DEF RenderPixel
  <2>2. x \in 0 .. 159 /\ clock # 227 /\ line < DrawnLines /\ clock - Hblank = x - 1
    <3>1. clock' >= Hblank /\ line' < DrawnLines
      BY <1>5, <1>7 DEF Hblank, DrawnLines
    <3>2. clock # 227
      BY <1>5, <3>1 DEF Hblank
    <3>3. clock' = clock + 1 /\ line' = line
      BY <1>5, <3>2
    <3>4. clock - Hblank = clock' - Hblank - 1 /\ clock' - Hblank \in 0 .. 159
      BY <1>1, <1>5, <3>1, <3>3 DEF Hblank
    <3> QED
      BY <3>1, <3>2, <3>3, <3>4
  <2>3. lit \in SUBSET Things
    BY DEF Lit
  <2>4. Collide(lit) \subseteq DOMAIN LatchOf
    BY DEF Collide
  <2>5. quiet' = quiet
    BY <1>8, <2>2
  <2> HIDE DEF x
  <2>6. /\ tag' \in Things \cup {"BK"} /\ color' \in 0 .. 3 /\ color' \in TagColor(obj, x, tag')
    BY <2>1, <2>2, <2>3, TagAndColor
  <2>7. seen' \in [Things -> SUBSET Visible]
    <3>1. x \in Visible
      BY <2>2 DEF Visible
    <3> QED
      BY <1>2, <2>1, <3>1
  <2>8. ASSUME quiet'
        PROVE  /\ \A t \in Things : seen'[t] = {y \in 0 .. x : t \in Lit(obj, y)}
               /\ \A y \in 0 .. x : Collide(Lit(obj, y)) \subseteq cx'
    <3>1. /\ \A t \in Things : seen[t] = {y \in 0 .. x - 1 : t \in Lit(obj, y)}
          /\ \A y \in 0 .. x - 1 : Collide(Lit(obj, y)) \subseteq cx
      BY <2>2, <2>5, <2>8 DEF Drawn
    <3>2. \A y : y \in 0 .. x <=> y \in 0 .. x - 1 \/ y = x
      BY <2>2
    <3>3. ASSUME NEW t \in Things
          PROVE  seen'[t] = {y \in 0 .. x : t \in Lit(obj, y)}
      <4>1. seen'[t] = IF t \in lit THEN seen[t] \cup {x} ELSE seen[t]
        BY <2>1
      <4>2. seen[t] = {y \in 0 .. x - 1 : t \in Lit(obj, y)}
        BY <3>1
      <4> DEFINE before == 0 .. x - 1
                 sofar == 0 .. x
                 There(y) == t \in Lit(obj, y)
      <4>3. /\ \A y : y \in sofar <=> y \in before \/ y = x
            /\ seen[t] = {y \in before : There(y)}
            /\ seen'[t] = IF There(x) THEN seen[t] \cup {x} ELSE seen[t]
        BY <3>2, <4>1, <4>2, Zenon
      <4> HIDE DEF before, sofar, There
      <4>4. seen'[t] = {y \in sofar : There(y)}
        BY <4>3
      <4> QED
        BY <4>4 DEF sofar, There
    <3>4. \A y \in 0 .. x : Collide(Lit(obj, y)) \subseteq cx'
      BY <2>1, <3>1, <3>2, Zenon
    <3> QED
      BY <3>3, <3>4
  <2>9. Drawn'
    BY <1>3, <2>8, Zenon DEF Drawn, x
  <2>10. color' \in Black .. 3
    BY <2>6 DEF Black
  <2> QED
    BY <1>2, <1>5, <1>8, <2>1, <2>4, <2>6, <2>7, <2>9, <2>10 DEF LineClocks, TickLeaves, x
<1> QED
  BY <1>6, <1>7

LEMMA TickSound ==
  ASSUME Sounds, Tones, TickColorClock
  PROVE  /\ Sounds' /\ Tones'
         /\ \A i \in 0 .. 1 :
              channels'[i].output # channels[i].output /\ tone[i].mode \in Pure
                => tone[i].clocks + 1 = Prescale(channels[i]) * (tone[i].freq + 1)
<1>1. /\ channels' = [i \in 0 .. 1 |-> TickChannel(channels[i])]
      /\ sound' = IF Clock \in {114, 227} THEN Sample(channels') ELSE sound
      /\ tone' = [i \in 0 .. 1 |->
                    IF channels'[i].output # channels[i].output
                    THEN [clocks |-> 0, freq |-> channels'[i].freq, mode |-> channels'[i].control % 16]
                    ELSE [tone[i] EXCEPT !.clocks = @ + 1]]
  BY Zenon DEF TickColorClock
<1>2. ASSUME NEW i \in 0 .. 1
      PROVE  /\ channels'[i] \in Channel /\ tone'[i] \in ToneSince
             /\ InPeriod(channels'[i], tone'[i])
             /\ channels'[i].output # channels[i].output /\ tone[i].mode \in Pure
                  => tone[i].clocks + 1 = Prescale(channels[i]) * (tone[i].freq + 1)
  <2> DEFINE c == channels[i]
             u == tone[i]
             d == channels'[i]
             v == tone'[i]
  <2>1. c \in Channel /\ u \in ToneSince /\ InPeriod(c, u)
    BY DEF Sounds, Tones
  <2>2. /\ d = TickChannel(c)
        /\ v = IF d.output # c.output THEN [clocks |-> 0, freq |-> d.freq, mode |-> d.control % 16]
                ELSE [u EXCEPT !.clocks = @ + 1]
    BY <1>1
  <2> HIDE DEF c, u, d, v
  <2>3. /\ d \in Channel /\ v \in ToneSince /\ InPeriod(d, v)
        /\ d.output # c.output /\ u.mode \in Pure => u.clocks + 1 = Prescale(c) * (u.freq + 1)
    BY <2>1, <2>2, TickFacts, Zenon
  <2> QED
    BY <2>3 DEF c, u, d, v
<1>3. channels' \in [0 .. 1 -> Channel] /\ tone' \in [0 .. 1 -> ToneSince]
  BY <1>1, <1>2
<1>4. sound' \in 0 .. 30
  <2>1. \A i \in 0 .. 1 : channels'[i].output \in 0 .. 1 /\ channels'[i].volume \in 0 .. 15
    BY <1>2 DEF Channel
  <2>2. \A i \in 0 .. 1 : channels'[i].output * channels'[i].volume \in 0 .. 15
    BY <2>1
  <2>3. channels'[0].output * channels'[0].volume \in 0 .. 15 /\ channels'[1].output * channels'[1].volume \in 0 .. 15
    BY <2>2
  <2>4. Sample(channels') \in 0 .. 30
    BY <2>3 DEF Sample
  <2>5. sound \in 0 .. 30
    BY DEF Sounds
  <2> QED
    BY <1>1, <2>4, <2>5, Zenon
<1> QED
  BY <1>2, <1>3, <1>4 DEF Sounds, Tones

LEMMA TickPaddles ==
  ASSUME TiaAssumption, now \in Nat, Inputs, Charges, TickColorClock
  PROVE  Inputs' /\ Charges'
<1>1. /\ paddles' = paddles /\ now' = now + 1
      /\ level' = [i \in 0 .. 3 |-> Charged([paddles[i] EXCEPT !.level = level[i]], 1)]
  BY DEF TickColorClock, Inputs
<1>2. ASSUME NEW i \in 0 .. 3
      PROVE  level'[i] \in Nat /\ CaughtUp(paddles[i], level'[i], now + 1)
  <2> DEFINE q == paddles[i]
             n == now - q.last
             p == [q EXCEPT !.level = level[i]]
  <2>1. q \in Paddle /\ level[i] \in Nat /\ q.last <= now /\ level[i] = Charged(q, n)
    BY DEF Inputs, Charges, CaughtUp
  <2>2. n \in Nat /\ (now + 1) - q.last = n + 1 /\ q.last <= now + 1
    BY <2>1 DEF Paddle
  <2>3. p \in Paddle /\ p.level = level[i] /\ p.position = q.position /\ p.dumped = q.dumped
    BY <2>1 DEF Paddle
  <2>4. level'[i] = Charged(p, 1)
    BY <1>1
  <2> HIDE DEF q, n, p
  <2>5. Charged(p, 1) = Charged(q, n + 1)
    BY <2>1, <2>2, <2>3, ChargedOn
  <2>6. Charged(q, n + 1) \in Nat
    <3>1. n + 1 \in Nat
      BY <2>2
    <3> QED
      BY <2>1, <3>1, ChargedOn
  <2> QED
    BY <2>2, <2>4, <2>5, <2>6 DEF CaughtUp, q
<1> QED
  BY <1>1, <1>2 DEF Inputs, Charges

------------------------------------------------------------------------------
(* The accesses.                                                           *)

LEMMA OfferedFit ==
  ASSUME TiaAssumption, Counts, Running, NEW what, NEW a \in Offered(what)
  PROVE  a[2] \in Where(what) /\ a[3] \in 0 .. 255
<1>1. ProgramFits(program)
  BY DEF TiaAssumption, Counts
<1>2. now \in 0 .. End(program) - 1
  BY <1>1 DEF ProgramFits, Counts, Running
<1>3. a \in Offers(program, now) /\ a[1] = what
  BY DEF Offered
<1>4. AccessFits(a)
  BY <1>1, <1>2, <1>3, Zenon DEF ProgramFits
<1> QED
  BY <1>3, <1>4, Zenon DEF AccessFits

\* A paddle that is looked at is as charged as it would be at every clock.
LEMMA Looked ==
  ASSUME TiaAssumption, NEW q \in Paddle, NEW l \in Nat, NEW t \in Nat, CaughtUp(q, l, t),
         NEW p \in Paddle, p.level = Charged(q, t - q.last), p.last = t
  PROVE  p.level = l /\ CaughtUp(p, l, t)
<1>1. p.level = l
  BY DEF CaughtUp
<1>2. Charged(p, 0) = p.level
  BY ChargedOn
<1>3. t - p.last = 0 /\ p.last <= t
  OBVIOUS
<1> QED
  BY <1>1, <1>2, <1>3 DEF CaughtUp

LEMMA UpdateFits ==
  ASSUME TiaAssumption, NEW q \in Paddle, NEW t \in Nat, q.last <= t
  PROVE  /\ UpdateCharge(q, t) \in Paddle
         /\ UpdateCharge(q, t).level = Charged(q, t - q.last)
         /\ UpdateCharge(q, t).last = t
         /\ UpdateCharge(q, t).position = q.position /\ UpdateCharge(q, t).dumped = q.dumped
<1>1. t - q.last \in Nat
  BY DEF Paddle
<1>2. Charged(q, t - q.last) \in Nat
  BY <1>1, ChargedOn
<1> DEFINE c == Charged(q, t - q.last)
<1>3. UpdateCharge(q, t) = [q EXCEPT !.level = c, !.last = t]
  BY DEF UpdateCharge
<1> HIDE DEF c
<1>4. c \in Nat
  BY <1>2 DEF c
<1> DEFINE r == [q EXCEPT !.level = c]
<1>5. r \in Paddle /\ r.level = c /\ r.position = q.position /\ r.dumped = q.dumped
  BY <1>4 DEF Paddle
<1>6. [q EXCEPT !.level = c, !.last = t] = [r EXCEPT !.last = t]
  OBVIOUS
<1> HIDE DEF r
<1> DEFINE p == UpdateCharge(q, t)
<1>7. p = [r EXCEPT !.last = t]
  BY <1>3, <1>6
<1> HIDE DEF p
<1>8. p \in Paddle /\ p.level = c /\ p.last = t /\ p.position = q.position /\ p.dumped = q.dumped
  BY <1>5, <1>7 DEF Paddle
<1> QED
  BY <1>8 DEF c, p

LEMMA WritePicture ==
  ASSUME TiaAssumption, Counts, Picture, WriteObject
  PROVE  Counts' /\ Picture' /\ Drawn'
<1>0. PICK reg \in ObjectRegisters : \E a \in Offered(reg) :
        /\ obj' = WriteRegister(obj, reg, a[2], a[3])
        /\ asked' = IF reg = "PF" THEN [asked EXCEPT ![a[2]] = Bits(a[3], 8)] ELSE asked
  BY Zenon DEF WriteObject
<1>1. PICK a \in Offered(reg) :
        /\ obj' = WriteRegister(obj, reg, a[2], a[3])
        /\ asked' = IF reg = "PF" THEN [asked EXCEPT ![a[2]] = Bits(a[3], 8)] ELSE asked
  BY <1>0, Zenon
<1>2. /\ Running /\ program' = program /\ now' = now /\ busy' = now
      /\ clock' = clock /\ line' = line /\ cx' = cx /\ color' = color /\ tag' = tag /\ seen' = seen
      /\ quiet' = FALSE
  BY DEF WriteObject, Access
<1>3. a[2] \in Where(reg) /\ a[3] \in 0 .. 255
  BY <1>2, OfferedFit
<1>4. clock \in 0 .. LineClocks - 1
  BY DEF Counts, LineClocks
<1>5. obj \in Objects
  BY DEF Picture
<1>6. obj' \in Objects
  BY <1>1, <1>3, <1>4, <1>5, WriteRegisterFacts, Zenon
<1>7. asked' \in [0 .. 2 -> SUBSET (0 .. 7)]
  <2>1. Bits(a[3], 8) \in SUBSET (0 .. 7)
    BY DEF Bits
  <2>2. reg = "PF" => a[2] \in 0 .. 2
    BY <1>3 DEF Where
  <2>3. asked \in [0 .. 2 -> SUBSET (0 .. 7)]
    BY DEF Picture
  <2> DEFINE b == Bits(a[3], 8)
  <2> HIDE DEF b
  <2>4. asked' = IF reg = "PF" THEN [asked EXCEPT ![a[2]] = b] ELSE asked
    BY <1>1 DEF b
  <2>5. b \in SUBSET (0 .. 7)
    BY <2>1 DEF b
  <2> QED
    BY <2>2, <2>3, <2>4, <2>5
<1>8. Counts'
  BY <1>2 DEF Counts
<1>9. Picture'
  BY <1>2, <1>6, <1>7, Zenon DEF Picture
<1> QED
  BY <1>2, <1>8, <1>9 DEF Drawn

LEMMA WriteSound ==
  ASSUME TiaAssumption, Counts, Sounds, Tones, WriteAudio
  PROVE  Sounds' /\ Tones' /\ \A i \in 0 .. 1 : channels'[i].output = channels[i].output
<1>0. PICK reg \in {"AUDC", "AUDF", "AUDV"} : \E a \in Offered(reg) :
        /\ channels' = [channels EXCEPT ![a[2]] = WriteChannel(@, reg, a[3])]
        /\ tone' = [tone EXCEPT ![a[2]].mode = IF reg = "AUDC" THEN -1 ELSE @]
  BY Zenon DEF WriteAudio
<1>1. PICK a \in Offered(reg) :
        /\ channels' = [channels EXCEPT ![a[2]] = WriteChannel(@, reg, a[3])]
        /\ tone' = [tone EXCEPT ![a[2]].mode = IF reg = "AUDC" THEN -1 ELSE @]
  BY <1>0, Zenon
<1>2. Running /\ sound' = sound
  BY DEF WriteAudio, Access
<1>3. a[2] \in 0 .. 1 /\ a[3] \in 0 .. 255
  BY <1>2, OfferedFit DEF Where
<1> DEFINE i == a[2]
           v == a[3]
           c == channels[i]
           u == tone[i]
           d == WriteChannel(c, reg, v)
           w == [u EXCEPT !.mode = IF reg = "AUDC" THEN -1 ELSE @]
<1>4. channels \in [0 .. 1 -> Channel] /\ tone \in [0 .. 1 -> ToneSince]
  BY DEF Sounds
<1>5. c \in Channel /\ u \in ToneSince /\ InPeriod(c, u)
  BY <1>3, <1>4 DEF Tones
<1>6. channels' = [channels EXCEPT ![i] = d] /\ tone' = [tone EXCEPT ![i] = w]
  BY <1>1, <1>3, <1>4
<1>7. i \in 0 .. 1 /\ v \in 0 .. 255
  BY <1>3
<1> HIDE DEF i, v, c, u
<1>8. ASSUME reg = "AUDC"
      PROVE  d \in Channel /\ w \in ToneSince /\ InPeriod(d, w) /\ d.output = c.output
  <2>1. d = [c EXCEPT !.control = v] /\ w = [u EXCEPT !.mode = -1]
    BY <1>8 DEF WriteChannel
  <2>2. d \in Channel /\ d.output = c.output
    BY <1>5, <1>7, <2>1 DEF Channel
  <2>3. w \in ToneSince /\ w.mode = -1
    BY <1>5, <2>1 DEF ToneSince
  <2> QED
    BY <2>2, <2>3 DEF InPeriod, Pure
<1>9. ASSUME reg # "AUDC"
      PROVE  d \in Channel /\ w \in ToneSince /\ InPeriod(d, w) /\ d.output = c.output
  <2>1. w = u
    BY <1>5, <1>9 DEF ToneSince
  <2>2. d = [c EXCEPT !.freq = v % 32] \/ d = [c EXCEPT !.volume = v % 16]
    BY <1>9 DEF WriteChannel
  <2>3. v % 32 \in 0 .. 31 /\ v % 16 \in 0 .. 15
    BY <1>7
  <2>4. /\ d \in Channel /\ d.output = c.output /\ d.control = c.control
        /\ d.divider = c.divider /\ d.prescale = c.prescale
    BY <1>5, <2>2, <2>3 DEF Channel
  <2> HIDE DEF d, w
  <2>5. Prescale(d) = Prescale(c)
    BY <2>4 DEF Prescale
  <2>6. InPeriod(d, w)
    BY <1>5, <2>1, <2>4, <2>5 DEF InPeriod
  <2> QED
    BY <1>5, <2>1, <2>4, <2>6
<1>10. d \in Channel /\ w \in ToneSince /\ InPeriod(d, w) /\ d.output = c.output
  BY <1>8, <1>9
<1> HIDE DEF d, w
<1>11. channels' \in [0 .. 1 -> Channel] /\ tone' \in [0 .. 1 -> ToneSince]
  BY <1>4, <1>6, <1>7, <1>10
<1>12. \A j \in 0 .. 1 : InPeriod(channels'[j], tone'[j]) /\ channels'[j].output = channels[j].output
  <2> SUFFICES ASSUME NEW j \in 0 .. 1
               PROVE  InPeriod(channels'[j], tone'[j]) /\ channels'[j].output = channels[j].output
    OBVIOUS
  <2>1. CASE j = i
    <3>1. channels'[j] = d /\ tone'[j] = w /\ channels[j] = c
      BY <1>4, <1>6, <1>7, <2>1 DEF c
    <3> QED
      BY <1>10, <3>1
  <2>2. CASE j # i
    <3>1. channels'[j] = channels[j] /\ tone'[j] = tone[j]
      BY <1>4, <1>6, <1>7, <2>2
    <3> QED
      BY <3>1 DEF Tones
  <2> QED
    BY <2>1, <2>2
<1>13. Sounds'
  BY <1>2, <1>11 DEF Sounds
<1> QED
  BY <1>12, <1>13 DEF Tones

LEMMA AccessPaddles ==
  ASSUME TiaAssumption, Counts, Inputs, Charges, WriteVblank \/ ReadInpt \/ SetPaddlePosition
  PROVE  Inputs' /\ Charges'
<1>1. Running /\ now' = now /\ level' = level /\ now \in Nat
  BY DEF WriteVblank, ReadInpt, SetPaddlePosition, Access, Counts
<1>2. /\ paddles \in [0 .. 3 -> Paddle] /\ level \in [0 .. 3 -> Nat]
      /\ DOMAIN paddles = 0 .. 3
  BY DEF Inputs
<1>3. ASSUME NEW q \in Paddle, NEW l \in Nat, CaughtUp(q, l, now)
      PROVE  /\ \A v : Vblank(q, v, now) \in Paddle /\ CaughtUp(Vblank(q, v, now), l, now)
             /\ UpdateCharge(q, now) \in Paddle /\ CaughtUp(UpdateCharge(q, now), l, now)
             /\ \A p \in 0 .. 255 : SetPosition(q, p, now) \in Paddle /\ CaughtUp(SetPosition(q, p, now), l, now)
  <2> DEFINE e == UpdateCharge(q, now)
  <2>1. q.last <= now
    BY <1>3 DEF CaughtUp
  <2>2. e \in Paddle /\ e.level = Charged(q, now - q.last) /\ e.last = now
    BY <1>1, <2>1, UpdateFits
  <2> HIDE DEF e
  <2>3. ASSUME NEW v
        PROVE  [e EXCEPT !.dumped = BitOf(v, 7)] \in Paddle /\ CaughtUp([e EXCEPT !.dumped = BitOf(v, 7)], l, now)
    <3>1. BitOf(v, 7) \in BOOLEAN
      BY DEF BitOf
    <3> DEFINE b == BitOf(v, 7)
               f == [e EXCEPT !.dumped = b]
    <3> HIDE DEF b
    <3>2. f \in Paddle /\ f.level = e.level /\ f.last = e.last
      BY <2>2, <3>1 DEF Paddle, b
    <3> HIDE DEF f
    <3>3. CaughtUp(f, l, now)
      BY <1>1, <1>3, <2>2, <3>2, Looked
    <3> QED
      BY <3>2, <3>3 DEF f, b
  <2>4. ASSUME NEW p \in 0 .. 255
        PROVE  [e EXCEPT !.position = p] \in Paddle /\ CaughtUp([e EXCEPT !.position = p], l, now)
    <3> DEFINE f == [e EXCEPT !.position = p]
    <3>2. f \in Paddle /\ f.level = e.level /\ f.last = e.last
      BY <2>2 DEF Paddle
    <3> HIDE DEF f
    <3>3. CaughtUp(f, l, now)
      BY <1>1, <1>3, <2>2, <3>2, Looked
    <3> QED
      BY <3>2, <3>3 DEF f
  <2>5. CaughtUp(e, l, now)
    BY <1>1, <1>3, <2>2, Looked
  <2> QED
    BY <2>2, <2>3, <2>4, <2>5, Zenon DEF Vblank, SetPosition, e
<1>4. \A i \in 0 .. 3 : paddles[i] \in Paddle /\ level[i] \in Nat /\ CaughtUp(paddles[i], level[i], now)
  BY <1>2 DEF Charges
<1>5. paddles' \in [0 .. 3 -> Paddle] /\ \A i \in 0 .. 3 : CaughtUp(paddles'[i], level[i], now)
  <2>1. CASE WriteVblank
    <3>1. PICK v : paddles' = [i \in 0 .. 3 |-> Vblank(paddles[i], v, now)]
      BY <1>2, <2>1, Zenon DEF WriteVblank
    <3>2. \A i \in 0 .. 3 : Vblank(paddles[i], v, now) \in Paddle /\ CaughtUp(Vblank(paddles[i], v, now), level[i], now)
      BY <1>3, <1>4, Zenon
    <3> QED
      BY <3>1, <3>2, Zenon
  <2>2. CASE ReadInpt
    <3>1. PICK a \in Offered("INPT") : paddles' = [paddles EXCEPT ![a[2]] = UpdateCharge(@, now)]
      BY <2>2, Zenon DEF ReadInpt
    <3>2. a[2] \in 0 .. 3
      BY <1>1, OfferedFit DEF Where
    <3> DEFINE i == a[2]
               new == UpdateCharge(paddles[i], now)
    <3>3. i \in 0 .. 3 /\ paddles' = [paddles EXCEPT ![i] = new]
      BY <3>1, <3>2
    <3>4. new \in Paddle /\ CaughtUp(new, level[i], now)
      BY <1>3, <1>4, <3>2, Zenon
    <3> HIDE DEF i, new
    <3> QED
      BY <1>2, <1>4, <3>3, <3>4
  <2>3. CASE SetPaddlePosition
    <3>1. PICK a \in Offered("paddle") : paddles' = [paddles EXCEPT ![a[2]] = SetPosition(@, a[3], now)]
      BY <2>3, Zenon DEF SetPaddlePosition
    <3>2. a[2] \in 0 .. 3 /\ a[3] \in 0 .. 255
      BY <1>1, OfferedFit DEF Where
    <3> DEFINE i == a[2]
               new == SetPosition(paddles[i], a[3], now)
    <3>3. i \in 0 .. 3 /\ paddles' = [paddles EXCEPT ![i] = new]
      BY <3>1, <3>2
    <3>4. new \in Paddle /\ CaughtUp(new, level[i], now)
      BY <1>3, <1>4, <3>2, Zenon
    <3> HIDE DEF i, new
    <3> QED
      BY <1>2, <1>4, <3>3, <3>4
  <2> QED
    BY <2>1, <2>2, <2>3
<1> QED
  BY <1>1, <1>2, <1>5 DEF Inputs, Charges

------------------------------------------------------------------------------
(* The invariant of the whole.                                             *)

LEMMA BeginIs ==
  ASSUME NEW s, BeginFits(s)
  PROVE  /\ s.obj \in Objects
         /\ s.clock \in Nat /\ s.clock < LineClocks /\ s.line \in Nat /\ s.line < 65536
         /\ s.channel \in [0 .. 1 -> Channel]
         /\ \A i \in 0 .. 1 : s.channel[i].divider = 0 /\ s.channel[i].prescale = 0
BY DEF BeginFits

LEMMA InitTiaInv == TiaAssumption /\ TiaInit => TiaInv
<1> SUFFICES ASSUME TiaAssumption, TiaInit
             PROVE  TiaInv
  OBVIOUS
<1> DEFINE begun == Begin(program)
<1>1. /\ program \in Programs /\ obj = begun.obj /\ asked = obj.pf /\ clock = begun.clock /\ line = begun.line
      /\ channels = begun.channel /\ now = 0 /\ busy = -1
      /\ cx = {} /\ color = Black /\ tag = "BK" /\ sound = 0
      /\ paddles = [i \in 0 .. 3 |-> [level |-> 0, position |-> Unplugged, last |-> 0, dumped |-> FALSE]]
      /\ seen = [t \in Things |-> {}]
      /\ quiet = FALSE
      /\ level = [i \in 0 .. 3 |-> 0]
      /\ tone = [i \in 0 .. 1 |-> [clocks |-> 0, freq |-> 0, mode |-> channels[i].control % 16]]
  BY DEF TiaInit
<1>2. BeginFits(begun)
  BY <1>1 DEF TiaAssumption, ProgramFits
<1> HIDE DEF begun
<1>3. Counts
  <2>1. begun.clock \in Nat /\ begun.clock < LineClocks /\ begun.line \in Nat /\ begun.line < 65536
    BY <1>2, BeginIs
  <2> QED
    BY <1>1, <2>1 DEF Counts
<1>4. Picture
  <2>1. obj \in Objects
    BY <1>1, <1>2, BeginIs
  <2>2. asked \in [0 .. 2 -> SUBSET (0 .. 7)]
    BY <1>1, <2>1 DEF Objects
  <2>3. color \in Black .. 3
    BY <1>1 DEF Black
  <2>4. seen \in [Things -> SUBSET Visible]
    BY <1>1
  <2> QED
    BY <1>1, <2>1, <2>2, <2>3, <2>4 DEF Picture
<1>5. channels \in [0 .. 1 -> Channel]
  BY <1>1, <1>2, BeginIs
<1>6. ASSUME NEW i \in 0 .. 1
      PROVE  tone[i] \in ToneSince /\ InPeriod(channels[i], tone[i])
  <2>1. channels[i] \in Channel /\ channels[i].divider = 0 /\ channels[i].prescale = 0
    <3>1. \A j \in 0 .. 1 : begun.channel[j].divider = 0 /\ begun.channel[j].prescale = 0
      BY <1>2, BeginIs
    <3> QED
      BY <1>1, <1>5, <3>1
  <2> DEFINE c == channels[i]
  <2>2. c.control % 16 \in 0 .. 15
    BY <2>1 DEF Channel
  <2>3. tone[i] = [clocks |-> 0, freq |-> 0, mode |-> c.control % 16]
    BY <1>1
  <2> HIDE DEF c
  <2>4. tone[i] \in ToneSince
    BY <2>2, <2>3 DEF ToneSince
  <2>5. InPeriod(c, tone[i])
    <3>1. Prescale(c) \in {114, 342}
      BY DEF Prescale
    <3>2. (0 - 0) * Prescale(c) + 0 = 0 /\ 0 < Prescale(c)
      BY <3>1
    <3> QED
      BY <2>1, <2>3, <3>2 DEF InPeriod, c
  <2> QED
    BY <2>4, <2>5 DEF c
<1>7. Sounds /\ Tones
  <2>1. tone \in [0 .. 1 -> ToneSince]
    BY <1>1, <1>6
  <2> QED
    BY <1>1, <1>5, <1>6, <2>1 DEF Sounds, Tones
<1>8. Inputs /\ Charges
  <2> DEFINE q == [level |-> 0, position |-> Unplugged, last |-> 0, dumped |-> FALSE]
  <2>1. q \in Paddle
    BY DEF Paddle
  <2>2. q.level = 0 /\ q.last = 0
    OBVIOUS
  <2>3. \A i \in 0 .. 3 : paddles[i] = q /\ level[i] = 0
    BY <1>1
  <2>4. paddles = [i \in 0 .. 3 |-> q]
    BY <1>1
  <2> HIDE DEF q
  <2>5. Charged(q, 0) = 0
    BY <2>1, <2>2, ChargedOn
  <2>6. CaughtUp(q, 0, now)
    BY <1>1, <2>2, <2>5 DEF CaughtUp
  <2> QED
    BY <1>1, <2>1, <2>3, <2>4, <2>6 DEF Inputs, Charges
<1>9. Drawn
  BY <1>1 DEF Drawn
<1> QED
  BY <1>3, <1>4, <1>7, <1>8, <1>9 DEF TiaInv, TiaTypeOK

LEMMA NextTiaInv == TiaAssumption /\ TiaInv /\ [TiaNext]_tiaVars => TiaInv'
<1> SUFFICES ASSUME TiaAssumption, TiaInv, [TiaNext]_tiaVars
             PROVE  TiaInv'
  OBVIOUS
<1>1. Counts /\ Picture /\ Sounds /\ Inputs /\ Drawn /\ Tones /\ Charges
  BY DEF TiaInv, TiaTypeOK
<1> SUFFICES Counts' /\ Picture' /\ Sounds' /\ Inputs' /\ Drawn' /\ Tones' /\ Charges'
  BY DEF TiaInv, TiaTypeOK
<1>2. CASE TickColorClock
  <2>1. TickLeaves
    BY <1>1, <1>2, TickPicture, Zenon
  <2>2. Sounds' /\ Tones'
    BY <1>1, <1>2, TickSound, Zenon
  <2>3. Inputs' /\ Charges'
    <3>1. now \in Nat
      BY <1>1 DEF Counts
    <3> QED
      BY <1>1, <1>2, <3>1, TickPaddles, Zenon
  <2>4. program' = program /\ now' = now + 1 /\ busy' = busy /\ obj' = obj /\ asked' = asked
    BY <1>2, Zenon DEF TickColorClock
  <2>5. Counts'
    BY <1>1, <2>1, <2>4 DEF Counts, TickLeaves
  <2>6. Picture'
    <3>1. obj' \in Objects /\ asked' \in [0 .. 2 -> SUBSET (0 .. 7)]
      BY <1>1, <2>4, Zenon DEF Picture
    <3> QED
      BY <2>1, <3>1 DEF Picture, TickLeaves
  <2> QED
    BY <2>1, <2>2, <2>3, <2>5, <2>6 DEF TickLeaves
<1>3. CASE WriteObject
  <2>1. Counts' /\ Picture' /\ Drawn'
    BY <1>1, <1>3, WritePicture, Zenon
  <2>2. /\ channels' = channels /\ sound' = sound /\ tone' = tone
        /\ paddles' = paddles /\ level' = level /\ now' = now
    BY <1>3 DEF WriteObject, Access, audio, inputs
  <2> QED
    BY <1>1, <2>1, <2>2 DEF Sounds, Tones, Inputs, Charges
<1>4. CASE ClearCollisions \/ Rsync
  <2>1. /\ channels' = channels /\ sound' = sound /\ tone' = tone
        /\ paddles' = paddles /\ level' = level /\ now' = now
        /\ program' = program /\ busy' = now /\ line' = line /\ obj' = obj /\ asked' = asked
        /\ color' = color /\ tag' = tag /\ seen' = seen /\ quiet' = FALSE
    BY <1>4 DEF ClearCollisions, Rsync, Access, audio, inputs, objVars
  <2>2. clock' \in {clock, 0} /\ cx' \in {cx, {}}
    BY <1>4 DEF ClearCollisions, Rsync, objVars
  <2>3. Counts'
    BY <1>1, <2>1, <2>2 DEF Counts, LineClocks
  <2>4. Picture'
    <3>1. cx' \subseteq DOMAIN LatchOf
      BY <1>1, <2>2 DEF Picture
    <3> QED
      BY <1>1, <2>1, <3>1, Zenon DEF Picture
  <2> QED
    BY <1>1, <2>1, <2>3, <2>4 DEF Sounds, Tones, Inputs, Charges, Drawn
<1>5. CASE WriteAudio
  <2>1. Sounds' /\ Tones'
    BY <1>1, <1>5, WriteSound, Zenon
  <2>2. /\ program' = program /\ now' = now /\ busy' = now /\ objVars' = objVars /\ picture' = picture
        /\ paddles' = paddles /\ level' = level
    BY <1>5 DEF WriteAudio, Access, inputs, objVars, picture
  <2>3. Counts' /\ Picture' /\ Drawn'
    BY <1>1, <2>2 DEF Counts, Picture, Drawn, objVars, picture
  <2> QED
    BY <1>1, <2>1, <2>2, <2>3 DEF Inputs, Charges
<1>6. CASE WriteVblank \/ ReadInpt \/ SetPaddlePosition
  <2>1. Inputs' /\ Charges'
    BY <1>1, <1>6, AccessPaddles, Zenon
  <2>2. /\ program' = program /\ now' = now /\ busy' = now /\ objVars' = objVars /\ picture' = picture
        /\ channels' = channels /\ sound' = sound /\ tone' = tone
    BY <1>6 DEF WriteVblank, ReadInpt, SetPaddlePosition, Access, audio, objVars, picture
  <2>3. Counts' /\ Picture' /\ Drawn'
    BY <1>1, <2>2 DEF Counts, Picture, Drawn, objVars, picture
  <2> QED
    BY <1>1, <2>1, <2>2, <2>3 DEF Sounds, Tones
<1>7. CASE UNCHANGED tiaVars
  BY <1>1, <1>7
     DEF tiaVars, objVars, picture, audio, inputs, Counts, Picture, Sounds, Inputs, Drawn, Tones, Charges
<1> QED
  BY <1>2, <1>3, <1>4, <1>5, <1>6, <1>7 DEF TiaNext

------------------------------------------------------------------------------
(* The theorems.                                                           *)

\* Every register, latch, counter and charge stays what its type in the code
\* holds, whatever is written when (lib.rs 166-260; audio.rs 22-51).
THEOREM TiaTypes == ASSUME TiaAssumption PROVE TiaSpec => []TiaTypeOK
<1>1. TiaInit => TiaInv
  BY InitTiaInv
<1>2. TiaInv /\ [TiaNext]_tiaVars => TiaInv'
  BY NextTiaInv
<1>3. TiaInv => TiaTypeOK
  BY DEF TiaInv
<1> QED
  BY <1>1, <1>2, <1>3, PTL DEF TiaSpec

\* A line on which no register was written has shown every object at the columns
\* it covers and no others, and has latched every pair that meets on it
\* (lib.rs 523-700, 803-859).
THEOREM TiaLineWhole == ASSUME TiaAssumption PROVE TiaSpec => []LineWhole
<1>1. TiaInit => TiaInv
  BY InitTiaInv
<1>2. TiaInv /\ [TiaNext]_tiaVars => TiaInv'
  BY NextTiaInv
<1>3. TiaInv => LineWhole
  <2> SUFFICES ASSUME TiaInv, quiet, clock = LineClocks - 1, line < DrawnLines
               PROVE  /\ \A t \in Things : seen[t] = Covers(obj, t)
                      /\ \A l \in DOMAIN LatchOf :
                           (\A s, t \in LatchOf[l] : s # t => Covers(obj, s) \cap Covers(obj, t) # {}) => l \in cx
    BY DEF LineWhole
  <2>1. obj \in Objects
    BY DEF TiaInv, TiaTypeOK, Picture
  <2>2. clock - Hblank = 159
    BY DEF LineClocks, Hblank
  <2>3. /\ \A t \in Things : seen[t] = {x \in 0 .. 159 : t \in Lit(obj, x)}
        /\ \A x \in 0 .. 159 : Collide(Lit(obj, x)) \subseteq cx
    <3>1. Drawn /\ quiet /\ line < DrawnLines
      BY DEF TiaInv
    <3> DEFINE n == clock - Hblank
               all == 0 .. 159
    <3>2. /\ \A t \in Things : seen[t] = {x \in 0 .. n : t \in Lit(obj, x)}
          /\ \A x \in 0 .. n : Collide(Lit(obj, x)) \subseteq cx
      BY <3>1, Zenon DEF Drawn
    <3>3. 0 .. n = all
      BY <2>2, Zenon
    <3> HIDE DEF n, all
    <3>4. /\ \A t \in Things : seen[t] = {x \in all : t \in Lit(obj, x)}
          /\ \A x \in all : Collide(Lit(obj, x)) \subseteq cx
      BY <3>2, <3>3
    <3> QED
      BY <3>4, Zenon DEF all
  <2>4. ASSUME NEW t \in Things
        PROVE  {x \in 0 .. 159 : t \in Lit(obj, x)} = Covers(obj, t)
    <3>1. \A x \in 0 .. 159 : t \in Lit(obj, x) <=> x \in Covers(obj, t)
      BY <2>1, LitCovers, Zenon
    <3>2. Covers(obj, t) \subseteq 0 .. 159
      BY <2>1, CoversInside, Zenon
    <3> QED
      BY <3>1, <3>2, Zenon
  <2>5. ASSUME NEW l \in DOMAIN LatchOf,
               \A s, t \in LatchOf[l] : s # t => Covers(obj, s) \cap Covers(obj, t) # {}
        PROVE  l \in cx
    <3>1. PICK s, t \in Things : s # t /\ LatchOf[l] = {s, t}
      BY LatchPairs, Zenon
    <3>2. PICK x \in Covers(obj, s) : x \in Covers(obj, t)
      <4>1. Covers(obj, s) \cap Covers(obj, t) # {}
        BY <2>5, <3>1, Zenon
      <4> QED
        BY <4>1, Zenon
    <3>3. x \in 0 .. 159
      BY <2>1, <3>2, CoversInside, Zenon
    <3>4. s \in Lit(obj, x) /\ t \in Lit(obj, x)
      BY <2>1, <3>2, <3>3, LitCovers, Zenon
    <3>5. LatchOf[l] \subseteq Lit(obj, x)
      BY <3>1, <3>4, Zenon
    <3>6. l \in Collide(Lit(obj, x))
      BY <3>5, Zenon DEF Collide
    <3> QED
      BY <2>3, <3>3, <3>6, Zenon
  <2> QED
    BY <2>3, <2>4, <2>5, Zenon
<1> QED
  BY <1>1, <1>2, <1>3, PTL DEF TiaSpec

\* The sprite packs are told of an object whose color is drawn, in either
\* priority and in score mode (lib.rs 700-783).
THEOREM TiaTagIsDrawn == ASSUME TiaAssumption PROVE TiaSpec => TagIsDrawn
<1> DEFINE Told ==
      now' # now /\ color' # Black =>
       color' \in CASE tag' = "BK" -> {3} [] tag' \in {"P0", "M0"} -> {0} [] tag' \in {"P1", "M1"} -> {1}
                    [] tag' = "BL" -> {2}
                    [] tag' = "PF" -> IF BitOf(obj.ctrlpf, 1) THEN {IF clock' - Hblank < 80 THEN 0 ELSE 1}
                                      ELSE {2}
<1>1. TiaInit => TiaInv
  BY InitTiaInv
<1>2. TiaInv /\ [TiaNext]_tiaVars => TiaInv'
  BY NextTiaInv
<1>3. TiaInv /\ [TiaNext]_tiaVars => [Told]_tiaVars
  <2> SUFFICES ASSUME TiaInv, [TiaNext]_tiaVars, now' # now, color' # Black
               PROVE  color' \in TagColor(obj, clock' - Hblank, tag')
    BY DEF TagColor
  <2>1. TickColorClock
    BY DEF TiaNext, tiaVars, WriteObject, ClearCollisions, Rsync, WriteAudio, WriteVblank, ReadInpt,
           SetPaddlePosition, Access
  <2>2. Counts /\ Picture /\ Drawn
    BY DEF TiaInv, TiaTypeOK
  <2>3. TickLeaves
    BY <2>1, <2>2, TickPicture, Zenon
  <2> QED
    BY <2>3 DEF TickLeaves
<1> QED
  BY <1>1, <1>2, <1>3, PTL DEF TiaSpec, TagIsDrawn

\* A pure tone's output changes after as many clocks as its frequency said when
\* it last changed, whenever AUDF and AUDV are written (audio.rs 53-136).
THEOREM TiaTonePeriod == ASSUME TiaAssumption PROVE TiaSpec => TonePeriod
<1> DEFINE Whole ==
      \A i \in 0 .. 1 :
       channels'[i].output # channels[i].output /\ tone[i].mode \in Pure
         => tone[i].clocks + 1 = Prescale(channels[i]) * (tone[i].freq + 1)
<1>1. TiaInit => TiaInv
  BY InitTiaInv
<1>2. TiaInv /\ [TiaNext]_tiaVars => TiaInv'
  BY NextTiaInv
<1>3. TiaInv /\ [TiaNext]_tiaVars => [Whole]_tiaVars
  <2> SUFFICES ASSUME TiaInv, [TiaNext]_tiaVars
               PROVE  Whole
    OBVIOUS
  <2>1. Counts /\ Sounds /\ Tones
    BY DEF TiaInv, TiaTypeOK
  <2>2. CASE TickColorClock
    BY <2>1, <2>2, TickSound, Zenon
  <2>3. CASE WriteAudio
    BY <2>1, <2>3, WriteSound, Zenon
  <2>4. CASE channels' = channels
    BY <2>4
  <2> QED
    BY <2>2, <2>3, <2>4 DEF TiaNext, tiaVars, audio, WriteObject, ClearCollisions, Rsync, WriteVblank, ReadInpt,
                            SetPaddlePosition
<1> QED
  BY <1>1, <1>2, <1>3, PTL DEF TiaSpec, TonePeriod

\* INPT0 to INPT3 show what a capacitor charged at every clock would, for any
\* curve that rises by so much a clock (paddle.rs 88-157).
THEOREM TiaPaddleExact == ASSUME TiaAssumption PROVE TiaSpec => []PaddleExact
<1>1. TiaInit => TiaInv
  BY InitTiaInv
<1>2. TiaInv /\ [TiaNext]_tiaVars => TiaInv'
  BY NextTiaInv
<1>3. TiaInv => PaddleExact
  <2> SUFFICES ASSUME TiaInv, NEW i \in 0 .. 3
               PROVE  Inpt(paddles[i], now) <=> (~ paddles[i].dumped /\ level[i] > Threshold)
    BY DEF PaddleExact
  <2>1. paddles[i] \in Paddle /\ level[i] = Charged(paddles[i], now - paddles[i].last)
    BY DEF TiaInv, TiaTypeOK, Inputs, Charges, CaughtUp
  <2>2. UpdateCharge(paddles[i], now).level = level[i]
    BY <2>1 DEF UpdateCharge, Paddle
  <2> QED
    BY <2>2, Zenon DEF Inpt
<1> QED
  BY <1>1, <1>2, <1>3, PTL DEF TiaSpec
==============================================================================
