------------------------------ MODULE AudioRing ------------------------------
(***************************************************************************)
(* The lock-free ring between the thread that emulates and the audio       *)
(* callback (crates/rusty2600-frontend/src/audio_ring.rs), and the two     *)
(* loops at its ends: the emulation thread, which starts a frame only      *)
(* while the ring is less than 60% full (app.rs), and the callback, which  *)
(* the audio device calls for a block at a time (audio.rs).                *)
(*                                                                         *)
(* One step is one access to a shared atomic, with the local work around   *)
(* it.  A thread's accesses happen in program order: a slot is stored      *)
(* before the Release store of `tail' that hands it over, and loaded       *)
(* before the Release store of `head' that gives it back, and the other    *)
(* side loads the index with Acquire before it touches the slot.           *)
(*                                                                         *)
(* The producer is whichever thread holds the core's mutex, so it is one   *)
(* process; a frame is a run of pushes.                                    *)
(***************************************************************************)
EXTENDS Integers, Sequences

CONSTANTS
  Sample,         \* the samples
  Capacity,       \* slots of the ring, a power of two          (16384)
  IndexMod,       \* values of head and tail, usize             (2^64)
  BlockSizes,     \* samples the resampler makes of one of the core's
  CallbackSizes,  \* samples the device asks for at a time
  FramePushes,    \* pushes of a frame
  Thresholds      \* the levels asked of set_start_threshold

ASSUME CapacityAssumption == Capacity \in Nat /\ Capacity >= 2
\* usize::MAX + 1 and the capacity are powers of two.
ASSUME IndexAssumption ==
  IndexMod \in Nat /\ IndexMod > Capacity /\ IndexMod % Capacity = 0
ASSUME BlockAssumption == BlockSizes \subseteq Nat \ {0} /\ BlockSizes # {}
ASSUME CallbackAssumption == CallbackSizes \subseteq Nat \ {0} /\ CallbackSizes # {}
ASSUME FrameAssumption == FramePushes \in Nat \ {0}
ASSUME ThresholdAssumption == Thresholds \subseteq Nat
ASSUME SampleAssumption == Sample # {}

VARIABLES
  slots,      \* Ring::slots
  head, tail, \* QueueInner::head, tail
  playing,    \* QueueInner::playing
  threshold,  \* QueueInner::start_threshold
  producer,   \* push in flight: [busy, next, left]
  consumer,   \* pop_or_silence in flight: [busy, next, left, short, copied]
  frame,      \* pushes the frame in flight has left
  out         \* what the last callback was handed

queueVars == <<slots, head, tail, playing, threshold>>
vars == <<queueVars, producer, consumer, frame, out>>

\* usize::wrapping_add and wrapping_sub, for steps shorter than a turn.
Add(i, n) == IF i + n >= IndexMod THEN i + n - IndexMod ELSE i + n
Sub(i, j) == IF i >= j THEN i - j ELSE i + IndexMod - j

Slot(i) == i % Capacity   \* i & mask

Used == Sub(tail, head)   \* SampleQueue::len

AtMost(n, m) == IF n < m THEN n ELSE m

Idle == [busy |-> FALSE, next |-> 0, left |-> 0]
NoPop == [busy |-> FALSE, next |-> 0, left |-> 0, short |-> FALSE, copied |-> <<>>]

Init ==
  /\ slots \in [0 .. Capacity - 1 -> {CHOOSE s \in Sample : TRUE}]
  /\ head = 0 /\ tail = 0
  /\ playing = FALSE
  /\ threshold = 0
  /\ producer = Idle
  /\ consumer = NoPop
  /\ frame = 0
  /\ out = <<>>

------------------------------------------------------------------------------
(* The producing side. *)

\* The emulation thread starts a frame only while the ring is under 60% full.
Throttled == 5 * Used >= 3 * Capacity

FrameBegin ==
  /\ frame = 0
  /\ ~Throttled
  /\ frame' = FramePushes
  /\ UNCHANGED <<queueVars, producer, consumer, out>>

\* A netplay frame runs on the window's thread, at that thread's pace.
WindowFrame ==
  /\ frame = 0
  /\ frame' = FramePushes
  /\ UNCHANGED <<queueVars, producer, consumer, out>>

\* Bug: a push takes no notice of the room there is.
BugRoom(n) == n

\* How much of a block of n samples a push takes.
Room(n) == AtMost(n, Capacity - Used)

PushBegin ==
  /\ frame > 0
  /\ ~producer.busy
  /\ \E n \in BlockSizes : producer' = [busy |-> TRUE, next |-> tail, left |-> Room(n)]
  /\ UNCHANGED <<queueVars, consumer, frame, out>>

PushSlot ==
  /\ producer.busy
  /\ producer.left > 0
  /\ \E s \in Sample : slots' = [slots EXCEPT ![Slot(producer.next)] = s]
  /\ producer' = [producer EXCEPT !.next = Add(@, 1), !.left = @ - 1]
  /\ UNCHANGED <<head, tail, playing, threshold, consumer, frame, out>>

PushEnd ==
  /\ producer.busy
  /\ producer.left = 0
  /\ tail' = producer.next
  /\ producer' = Idle
  /\ frame' = frame - 1
  /\ UNCHANGED <<slots, head, playing, threshold, consumer, out>>

\* Bug: the threshold is not held to half the ring.
BugThreshold(n) == n

\* SampleQueue::set_start_threshold, from any thread.
Threshold(n) == AtMost(n, Capacity \div 2)

SetStartThreshold ==
  /\ \E n \in Thresholds : threshold' = Threshold(n)
  /\ UNCHANGED <<slots, head, tail, playing, producer, consumer, frame, out>>

------------------------------------------------------------------------------
(* The audio callback. *)

\* Does a callback that starts now play?  One that does not gets silence.
Plays == playing \/ (Used >= threshold /\ (Used > 0 \/ threshold = 0))

\* Bug: a callback takes samples that are not there yet.
BugTake(n) == n

\* How many samples a callback that asks for n takes.
Take(n) == AtMost(n, Used)

PopSilence ==
  /\ ~consumer.busy
  /\ ~Plays
  /\ out' = <<>>
  /\ UNCHANGED <<queueVars, producer, consumer, frame>>

PopBegin ==
  /\ ~consumer.busy
  /\ Plays
  /\ playing' = TRUE
  /\ \E n \in CallbackSizes :
        consumer' = [busy |-> TRUE, next |-> head, left |-> Take(n),
                     short |-> Used < n, copied |-> <<>>]
  /\ UNCHANGED <<slots, head, tail, threshold, producer, frame, out>>

PopSlot ==
  /\ consumer.busy
  /\ consumer.left > 0
  /\ consumer' = [consumer EXCEPT !.next = Add(@, 1), !.left = @ - 1,
                                  !.copied = Append(@, slots[Slot(consumer.next)])]
  /\ UNCHANGED <<queueVars, producer, frame, out>>

PopEnd ==
  /\ consumer.busy
  /\ consumer.left = 0
  /\ head' = consumer.next
  /\ playing' = (playing /\ ~consumer.short)
  /\ out' = consumer.copied
  /\ consumer' = NoPop
  /\ UNCHANGED <<slots, tail, threshold, producer, frame>>

------------------------------------------------------------------------------
Produce == FrameBegin \/ PushBegin \/ PushSlot \/ PushEnd
Consume == PopSilence \/ PopBegin \/ PopSlot \/ PopEnd

Next == Produce \/ WindowFrame \/ SetStartThreshold \/ Consume

\* A ROM runs, unpaused: the emulation thread loops for ever.  The device
\* keeps calling.  Nothing need ever run a netplay frame or set a threshold.
Fairness == WF_vars(Produce) /\ WF_vars(Consume)

Spec == Init /\ [][Next]_vars /\ Fairness

------------------------------------------------------------------------------
Indices == 0 .. IndexMod - 1

TypeOK ==
  /\ slots \in [0 .. Capacity - 1 -> Sample]
  /\ head \in Indices /\ tail \in Indices
  /\ playing \in BOOLEAN
  /\ threshold \in 0 .. Capacity \div 2
  /\ producer \in [busy : BOOLEAN, next : Indices, left : Nat]
  /\ consumer \in [busy : BOOLEAN, next : Indices, left : Nat, short : BOOLEAN,
                   copied : Seq(Sample)]
  /\ frame \in 0 .. FramePushes
  /\ out \in Seq(Sample)

\* The slots a push in flight has stored to or will, counted from `head', lie
\* past every slot a pop in flight may still load, and within one turn of the
\* ring: no slot is ever stored to and loaded at once (audio_ring.rs 82-134).
SlotsDisjoint ==
  /\ Used <= Capacity
  /\ producer.busy => Used <= Sub(producer.next, head)
                      /\ Sub(producer.next, head) + producer.left <= Capacity
  /\ consumer.busy => Sub(consumer.next, head) + consumer.left <= Used

\* The ring is the queue: samples reach the device in the order they were
\* pushed, none twice, none torn, none from a slot not yet filled.
Fifo == INSTANCE SampleFifo
          WITH queue <- [i \in 1 .. Used |-> slots[Slot(Add(head, i - 1))]]
FifoSpec == Fifo!Spec

\* A ring that ran dry plays again: the callback never waits for a level the
\* emulation thread, held back at 60%, would not fill it to (audio_ring.rs
\* 75-80 and 104-112; app.rs 354-372).
PlaybackResumes == ~playing ~> playing
==============================================================================
