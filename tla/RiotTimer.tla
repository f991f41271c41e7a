------------------------------ MODULE RiotTimer ------------------------------
(***************************************************************************)
(* The interval timer of the MOS 6532 (crates/rusty2600-riot/src/lib.rs).  *)
(*                                                                         *)
(* Riot::tick runs once per CPU cycle; the CPU's own access of that cycle, *)
(* if it has one, comes after it (rusty2600-cpu's read1 and write1 tick    *)
(* first).  `fresh' is TRUE between a tick and the access of that cycle,   *)
(* so at most one access follows a tick, and none runs without one.        *)
(*                                                                         *)
(* `anchor' is a history variable: what the program last fixed the timer   *)
(* to, and how many cycles ago.  `poll' is the environment: a program that *)
(* waits for INTIM to read 0, one read every PollPeriod cycles.            *)
(***************************************************************************)
EXTENDS Integers

CONSTANTS
  TimerMax,    \* the largest INTIM value                    (0xFF)
  Prescales,   \* cycles per decrement a TIMxT write selects ({1,8,64,1024})
  DefaultPrescale,  \* the one at power-on                   (1024)
  PollPeriod   \* cycles from one read of a polling loop to the next

ASSUME TimerMaxAssumption == TimerMax \in Nat \ {0}
ASSUME PrescalesAssumption == Prescales \subseteq Nat \ {0} /\ DefaultPrescale \in Prescales
\* A loop whose period is a multiple of the fast mode's whole sawtooth reads
\* the same value for ever; 6507 polling loops are a handful of cycles long.
ASSUME PollPeriodAssumption == PollPeriod \in 1 .. TimerMax

VARIABLES
  timer,   \* Riot::timer
  fresh,   \* a tick has happened and its cycle's access has not
  anchor,  \* history: [value, first, age]
  poll     \* environment: 0, or 1 + the cycles since a polling read

vars == <<timer, fresh, anchor, poll>>

Init ==
  /\ timer = [value |-> 0, prescale |-> DefaultPrescale, elapsed |-> 0,
              underflow |-> FALSE, postUnderflow |-> FALSE,
              wrappedThisCycle |-> FALSE]
  /\ fresh = FALSE
  /\ anchor = [value |-> 0, first |-> DefaultPrescale, age |-> 0]
  /\ poll = 0

------------------------------------------------------------------------------
(* The timer's operations, as functions of its state. *)

\* Cycles per decrement: 1 once the timer has wrapped, else the prescale.
Target(t) == IF t.postUnderflow THEN 1 ELSE t.prescale

\* The decrement at the end of an interval, with the 0 -> 0xFF wrap.
Decrement(t) ==
  IF t.value = 0
  THEN [t EXCEPT !.value = TimerMax, !.elapsed = 0, !.underflow = TRUE,
                 !.postUnderflow = TRUE, !.wrappedThisCycle = TRUE]
  ELSE [t EXCEPT !.value = @ - 1, !.elapsed = 0, !.wrappedThisCycle = FALSE]

TickTimer(t) ==
  IF t.elapsed + 1 >= Target(t)
  THEN Decrement(t)
  ELSE [t EXCEPT !.elapsed = @ + 1, !.wrappedThisCycle = FALSE]

\* Bug: a read of INTIM leaves the fast rate (the one docs/riot.md records).
BugReadKeepsFastRate(t) == [t EXCEPT !.underflow = FALSE]

\* Bug: a read of INTIM takes back even a wrap of its own cycle.
BugReadRevertsWrap(t) == [t EXCEPT !.underflow = FALSE, !.postUnderflow = FALSE]

\* A read of INTIM drops the interrupt latch, and the fast rate with it
\* unless the wrap happened on this very cycle.
ReadIntimTimer(t) ==
  [t EXCEPT !.underflow = FALSE, !.postUnderflow = @ /\ t.wrappedThisCycle]

\* Bug: a TIMxT write starts a whole first interval.
BugSetTimerWhole(t, v, p) ==
  [t EXCEPT !.value = v, !.prescale = p, !.elapsed = 0,
            !.underflow = FALSE, !.postUnderflow = FALSE]

\* A TIMxT write: its own cycle counts as the last of a first interval.
SetTimer(t, v, p) ==
  [t EXCEPT !.value = v, !.prescale = p, !.elapsed = p - 1,
            !.underflow = FALSE, !.postUnderflow = FALSE]

------------------------------------------------------------------------------
(* The history: the cycle, counted from the anchor, on which the timer must *)
(* wrap.  The age is folded back each time the fast sawtooth comes round.  *)

WrapAge == anchor.first + anchor.value * timer.prescale

NextAge ==
  IF anchor.age = WrapAge + TimerMax THEN WrapAge ELSE anchor.age + 1

------------------------------------------------------------------------------
Tick ==
  /\ poll <= PollPeriod
  /\ timer' = TickTimer(timer)
  /\ fresh' = TRUE
  /\ anchor' = [anchor EXCEPT !.age = NextAge]
  /\ poll' = IF poll = 0 THEN 0 ELSE poll + 1

\* The rate a read restores starts a whole interval at the value it read.
ReadIntim ==
  /\ fresh
  /\ poll \in {0, PollPeriod + 1}
  /\ timer' = ReadIntimTimer(timer)
  /\ fresh' = FALSE
  /\ anchor' = IF timer.postUnderflow /\ ~timer.wrappedThisCycle
               THEN [value |-> timer.value, first |-> timer.prescale, age |-> 0]
               ELSE anchor
  /\ poll' = IF poll = 0 \/ timer.value = 0 THEN 0 ELSE 1

WriteTimer ==
  /\ fresh
  /\ poll = 0
  /\ \E v \in 0 .. TimerMax, p \in Prescales :
        /\ timer' = SetTimer(timer, v, p)
        /\ anchor' = [value |-> v, first |-> 1, age |-> 0]
  /\ fresh' = FALSE
  /\ UNCHANGED poll

\* A program enters a loop that waits for INTIM = 0.  The prescale outlasts
\* the loop's period, or the loop could step over the zero.
StartPoll ==
  /\ poll = 0
  /\ timer.prescale >= PollPeriod
  /\ poll' = 1
  /\ UNCHANGED <<timer, fresh, anchor>>

Next == Tick \/ ReadIntim \/ WriteTimer \/ StartPoll

\* The scheduler never stops ticking, and a polling program never stops
\* polling; nothing makes it write the timer or start to poll.
Fairness == WF_vars(Tick) /\ WF_vars(poll > PollPeriod /\ ReadIntim)

Spec == Init /\ [][Next]_vars /\ Fairness

------------------------------------------------------------------------------
TypeOK ==
  /\ timer \in [value : 0 .. TimerMax, prescale : Prescales, elapsed : Nat,
                underflow : BOOLEAN, postUnderflow : BOOLEAN,
                wrappedThisCycle : BOOLEAN]
  /\ timer.elapsed < timer.prescale
  /\ fresh \in BOOLEAN
  /\ anchor \in [value : 0 .. TimerMax, first : Nat \ {0}, age : Nat]
  /\ poll \in 0 .. PollPeriod + 1

(***************************************************************************)
(* docs/riot.md, "Interval timer": how many decrements n cycles see, when  *)
(* the first falls after `first' cycles and the others every `p'.          *)
(***************************************************************************)
Decrements(n, first, p) == IF n < first THEN 0 ELSE 1 + (n - first) \div p

\* INTIM reads what the written value and the cycles since then determine: it
\* loses one per prescale interval, the first one cycle after a TIMxT write,
\* holds 0 for a whole interval, wraps to 0xFF and then loses one per cycle
\* until a read of INTIM restores the prescale (riot lib.rs 80-142, 176-195).
IntimSchedule ==
  timer.value =
    IF anchor.age < WrapAge
    THEN anchor.value - Decrements(anchor.age, anchor.first, timer.prescale)
    ELSE TimerMax - (anchor.age - WrapAge)

\* The timer runs at one decrement per cycle exactly from the wrap on, and
\* the cycle of the wrap is the one a read of INTIM cannot take back
\* (riot lib.rs 91-99 and 134-136).
FastFromTheWrap ==
  /\ timer.postUnderflow <=> anchor.age >= WrapAge
  /\ fresh => (timer.wrappedThisCycle <=> anchor.age = WrapAge)

\* A program that polls INTIM for 0, with a period the prescale outlasts,
\* leaves its loop from whatever state it finds the timer in: the boot loop of
\* the game docs/riot.md ("T-0601-008") names never ended before a read of
\* INTIM restored the prescale.
PollTerminates == (poll > 0) ~> (poll = 0)

==============================================================================
