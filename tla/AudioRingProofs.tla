--------------------------- MODULE AudioRingProofs ---------------------------
(***************************************************************************)
(* The safety of AudioRing for every capacity, index width and block size, *)
(* and that it implements the queue of SampleFifo.                         *)
(*                                                                         *)
(* SlotsDisjoint is inductive given the types.  Its three distances are    *)
(* taken from `head', so a step that moves one index changes one of them,  *)
(* and PopEnd, which moves `head' itself, takes the same amount off each.  *)
(*                                                                         *)
(* The queue is the slots from `head' up to `tail'.  A push in flight      *)
(* stores past it (SlotsApart, PushSlotKeeps), so a pop's copy of its      *)
(* front stays a copy (Copying) until `head' moves past it.                *)
(***************************************************************************)
EXTENDS AudioRing, SequenceTheorems, TLAPS

\* The distance from an index to one n further on, when n stays in a turn.
LEMMA SubAdd ==
  ASSUME NEW i \in Indices, NEW j \in Indices, NEW n \in Nat,
         Sub(i, j) + n < IndexMod
  PROVE  Add(i, n) \in Indices /\ Sub(Add(i, n), j) = Sub(i, j) + n
BY IndexAssumption DEF Indices, Add, Sub

\* Distances are natural numbers shorter than a turn.
LEMMA SubRange ==
  ASSUME NEW i \in Indices, NEW j \in Indices
  PROVE  Sub(i, j) \in Nat /\ Sub(i, j) < IndexMod /\ Sub(i, i) = 0
BY IndexAssumption DEF Indices, Sub

\* Moving the origin on by the distance of k takes that distance off all
\* that lies beyond k.
LEMMA SubShift ==
  ASSUME NEW i \in Indices, NEW j \in Indices, NEW k \in Indices,
         Sub(k, j) <= Sub(i, j)
  PROVE  Sub(i, k) = Sub(i, j) - Sub(k, j)
BY IndexAssumption DEF Indices, Sub

\* i & mask is a slot.
LEMMA SlotRange == \A i \in Indices : Slot(i) \in 0 .. Capacity - 1
BY CapacityAssumption, IndexAssumption DEF Indices, Slot

\* The sides' resting states are states of theirs.
LEMMA IdleRange ==
  /\ Idle \in [busy : BOOLEAN, next : Indices, left : Nat] /\ ~Idle.busy
  /\ NoPop \in [busy : BOOLEAN, next : Indices, left : Nat, short : BOOLEAN,
                 copied : Seq(Sample)] /\ ~NoPop.busy
<1>1. 0 \in Indices /\ <<>> \in Seq(Sample)
  BY CapacityAssumption, IndexAssumption DEF Indices
<1> QED
  BY <1>1 DEF Idle, NoPop

PushInFrame == producer.busy => frame > 0

IInv == TypeOK /\ SlotsDisjoint /\ PushInFrame

LEMMA InitIInv == Init => IInv
<1> SUFFICES ASSUME Init PROVE IInv
  OBVIOUS
<1>1. 0 \in Indices /\ 0 \in 0 .. Capacity \div 2 /\ 0 \in 0 .. FramePushes
  BY CapacityAssumption, IndexAssumption, FrameAssumption DEF Indices
<1>2. slots \in [0 .. Capacity - 1 -> Sample]
  BY SampleAssumption DEF Init
<1>3. producer \in [busy : BOOLEAN, next : Indices, left : Nat]
  BY IdleRange DEF Init
<1>4. consumer \in [busy : BOOLEAN, next : Indices, left : Nat, short : BOOLEAN,
                    copied : Seq(Sample)]
  BY IdleRange DEF Init
<1>5. TypeOK
  <2>1. <<>> \in Seq(Sample)
    OBVIOUS
  <2>2. head = 0 /\ tail = 0 /\ playing = FALSE /\ threshold = 0 /\ frame = 0 /\ out = <<>>
    BY DEF Init
  <2> QED
    BY <2>1, <2>2, <1>1, <1>2, <1>3, <1>4 DEF TypeOK
<1>6. Used = 0
  BY <1>1, SubRange DEF Init, Used
<1>7. ~producer.busy /\ ~consumer.busy
  BY IdleRange DEF Init
<1> QED
  BY <1>5, <1>6, <1>7, CapacityAssumption DEF IInv, SlotsDisjoint, PushInFrame

LEMMA NextIInv == IInv /\ [Next]_vars => IInv'
<1> SUFFICES ASSUME IInv, [Next]_vars PROVE IInv'
  OBVIOUS
<1> USE DEF IInv
<1>0. /\ head \in Indices /\ tail \in Indices
      /\ Used \in Nat /\ Used <= Capacity /\ Capacity < IndexMod
      /\ producer.next \in Indices /\ producer.left \in Nat
      /\ consumer.next \in Indices /\ consumer.left \in Nat
      /\ Sub(producer.next, head) \in Nat /\ Sub(consumer.next, head) \in Nat
  BY CapacityAssumption, IndexAssumption, SubRange DEF TypeOK, SlotsDisjoint, Used
<1>1. CASE FrameBegin \/ WindowFrame
  <2>1. TypeOK'
    BY <1>1, FrameAssumption DEF FrameBegin, WindowFrame, TypeOK, queueVars
  <2>2. SlotsDisjoint' /\ PushInFrame'
    BY <1>1, FrameAssumption
       DEF FrameBegin, WindowFrame, SlotsDisjoint, PushInFrame, Used, queueVars
  <2> QED
    BY <2>1, <2>2
<1>2. CASE PushBegin
  <2> PICK n \in BlockSizes : producer' = [busy |-> TRUE, next |-> tail, left |-> Room(n)]
    BY <1>2 DEF PushBegin
  <2>1. Room(n) \in Nat /\ Used + Room(n) <= Capacity
    BY <1>0, BlockAssumption, CapacityAssumption DEF Room, AtMost
  <2>2. TypeOK'
    BY <2>1, <1>0, <1>2 DEF PushBegin, TypeOK, queueVars
  <2>3. /\ producer'.next = tail /\ producer'.left = Room(n)
        /\ UNCHANGED <<head, tail, consumer>>
    BY <1>2 DEF PushBegin, queueVars
  <2>4. Used' = Used /\ Sub(producer'.next, head') = Used
    BY <2>3 DEF Used
  <2>5. SlotsDisjoint' /\ PushInFrame'
    BY <2>1, <2>3, <2>4, <1>0, <1>2 DEF PushBegin, SlotsDisjoint, PushInFrame
  <2> QED
    BY <2>2, <2>5
<1>3. CASE PushSlot
  <2>1. /\ producer' = [producer EXCEPT !.next = Add(@, 1), !.left = @ - 1]
        /\ UNCHANGED <<head, tail, playing, threshold, consumer, frame, out>>
        /\ producer.busy /\ producer.left > 0
    BY <1>3 DEF PushSlot
  <2>2. Sub(producer.next, head) + producer.left <= Capacity
    BY <2>1 DEF SlotsDisjoint
  <2>3. /\ Add(producer.next, 1) \in Indices
        /\ Sub(Add(producer.next, 1), head) = Sub(producer.next, head) + 1
    <3>1. Sub(producer.next, head) + 1 < IndexMod
      BY <2>1, <2>2, <1>0, CapacityAssumption, IndexAssumption
    <3> QED
      BY <3>1, <1>0, SubAdd
  <2>4. slots' \in [0 .. Capacity - 1 -> Sample]
    BY <1>3 DEF PushSlot, TypeOK
  <2>5. producer' \in [busy : BOOLEAN, next : Indices, left : Nat]
    <3>1. producer' = [busy |-> producer.busy, next |-> Add(producer.next, 1),
                       left |-> producer.left - 1]
      BY <2>1 DEF TypeOK
    <3>2. producer.left - 1 \in Nat /\ producer.busy \in BOOLEAN
      BY <2>1, <1>0 DEF TypeOK
    <3> QED
      BY <3>1, <3>2, <2>3
  <2>6. TypeOK'
    BY <2>1, <2>4, <2>5 DEF TypeOK
  <2>7. producer'.next = Add(producer.next, 1) /\ producer'.left = producer.left - 1
    BY <2>1 DEF TypeOK
  <2>8. Used' = Used
    BY <2>1 DEF Used
  <2>9. SlotsDisjoint' /\ PushInFrame'
    BY <2>1, <2>2, <2>3, <2>7, <2>8, <1>0 DEF SlotsDisjoint, PushInFrame
  <2> QED
    BY <2>6, <2>9
<1>4. CASE PushEnd
  <2>1. /\ tail' = producer.next /\ producer' = Idle /\ frame' = frame - 1
        /\ UNCHANGED <<slots, head, playing, threshold, consumer, out>>
        /\ producer.busy /\ producer.left = 0
    BY <1>4 DEF PushEnd
  <2>2. frame' \in 0 .. FramePushes
    BY <2>1, FrameAssumption DEF TypeOK, PushInFrame
  <2>3. producer' \in [busy : BOOLEAN, next : Indices, left : Nat] /\ ~producer'.busy
    BY <2>1, IdleRange
  <2>4. TypeOK'
    BY <2>1, <2>2, <2>3, <1>0 DEF TypeOK
  <2>5. Used' = Sub(producer.next, head)
    BY <2>1 DEF Used
  <2>6. Used <= Used' /\ Used' <= Capacity
    BY <2>1, <2>5, <1>0 DEF SlotsDisjoint
  <2>7. SlotsDisjoint' /\ PushInFrame'
    BY <2>1, <2>3, <2>5, <2>6, <1>0 DEF SlotsDisjoint, PushInFrame
  <2> QED
    BY <2>4, <2>7
<1>5. CASE SetStartThreshold
  <2>1. threshold' \in 0 .. Capacity \div 2
    BY <1>5, CapacityAssumption, ThresholdAssumption
       DEF SetStartThreshold, Threshold, AtMost
  <2>2. UNCHANGED <<slots, head, tail, playing, producer, consumer, frame, out>>
    BY <1>5 DEF SetStartThreshold
  <2>3. TypeOK'
    BY <2>1, <2>2 DEF TypeOK
  <2>4. SlotsDisjoint' /\ PushInFrame'
    BY <2>2 DEF SlotsDisjoint, PushInFrame, Used
  <2> QED
    BY <2>3, <2>4
<1>6. CASE PopSilence
  <2>1. /\ out' = <<>>
        /\ UNCHANGED <<slots, head, tail, playing, threshold, producer, consumer, frame>>
    BY <1>6 DEF PopSilence, queueVars
  <2>2. TypeOK'
    BY <2>1 DEF TypeOK
  <2>3. SlotsDisjoint' /\ PushInFrame'
    BY <2>1 DEF SlotsDisjoint, PushInFrame, Used
  <2> QED
    BY <2>2, <2>3
<1>7. CASE PopBegin
  <2> PICK n \in CallbackSizes :
        consumer' = [busy |-> TRUE, next |-> head, left |-> Take(n),
                     short |-> Used < n, copied |-> <<>>]
    BY <1>7 DEF PopBegin
  <2>1. Take(n) \in Nat /\ Take(n) <= Used
    BY <1>0, CallbackAssumption DEF Take, AtMost
  <2>2. playing' = TRUE /\ UNCHANGED <<slots, head, tail, threshold, producer, frame, out>>
    BY <1>7 DEF PopBegin
  <2>3. consumer' \in [busy : BOOLEAN, next : Indices, left : Nat, short : BOOLEAN,
                        copied : Seq(Sample)]
    BY <2>1, <1>0
  <2>4. TypeOK'
    BY <2>2, <2>3 DEF TypeOK
  <2>5. Used' = Used /\ Sub(consumer'.next, head') = 0 /\ consumer'.left = Take(n)
    BY <2>2, <1>0, SubRange DEF Used
  <2>6. SlotsDisjoint' /\ PushInFrame'
    BY <2>1, <2>2, <2>5, <1>0 DEF SlotsDisjoint, PushInFrame
  <2> QED
    BY <2>4, <2>6
<1>8. CASE PopSlot
  <2>1. /\ consumer' = [consumer EXCEPT !.next = Add(@, 1), !.left = @ - 1,
                            !.copied = Append(@, slots[Slot(consumer.next)])]
        /\ UNCHANGED <<slots, head, tail, playing, threshold, producer, frame, out>>
        /\ consumer.busy /\ consumer.left > 0
    BY <1>8 DEF PopSlot, queueVars
  <2>2. Sub(consumer.next, head) + consumer.left <= Used
    BY <2>1 DEF SlotsDisjoint
  <2>3. /\ Add(consumer.next, 1) \in Indices
        /\ Sub(Add(consumer.next, 1), head) = Sub(consumer.next, head) + 1
    <3>1. Sub(consumer.next, head) + 1 < IndexMod
      BY <2>1, <2>2, <1>0, CapacityAssumption, IndexAssumption
    <3> QED
      BY <3>1, <1>0, SubAdd
  <2>4. slots[Slot(consumer.next)] \in Sample
    BY <1>0, SlotRange DEF TypeOK
  <2>5. consumer' \in [busy : BOOLEAN, next : Indices, left : Nat, short : BOOLEAN,
                        copied : Seq(Sample)]
    <3>1. consumer' = [busy |-> consumer.busy, next |-> Add(consumer.next, 1),
                       left |-> consumer.left - 1, short |-> consumer.short,
                       copied |-> Append(consumer.copied, slots[Slot(consumer.next)])]
      BY <2>1 DEF TypeOK
    <3>2. /\ consumer.left - 1 \in Nat
          /\ consumer.busy \in BOOLEAN /\ consumer.short \in BOOLEAN
      BY <2>1, <1>0 DEF TypeOK
    <3>3. Append(consumer.copied, slots[Slot(consumer.next)]) \in Seq(Sample)
      BY <2>4 DEF TypeOK
    <3> QED
      BY <3>1, <3>2, <3>3, <2>3
  <2>6. TypeOK'
    BY <2>1, <2>5 DEF TypeOK
  <2>7. consumer'.next = Add(consumer.next, 1) /\ consumer'.left = consumer.left - 1
    BY <2>1 DEF TypeOK
  <2>8. Used' = Used
    BY <2>1 DEF Used
  <2>9. SlotsDisjoint' /\ PushInFrame'
    BY <2>1, <2>2, <2>3, <2>7, <2>8, <1>0 DEF SlotsDisjoint, PushInFrame
  <2> QED
    BY <2>6, <2>9
<1>9. CASE PopEnd
  <2>1. /\ head' = consumer.next /\ playing' = (playing /\ ~consumer.short)
        /\ out' = consumer.copied /\ consumer' = NoPop
        /\ UNCHANGED <<slots, tail, threshold, producer, frame>>
        /\ consumer.busy
    BY <1>9 DEF PopEnd
  <2> DEFINE d == Sub(consumer.next, head)
  <2>2. d \in Nat /\ d <= Used
    BY <2>1, <1>0 DEF SlotsDisjoint
  <2>3. Used' = Used - d
    BY <2>1, <2>2, <1>0, SubShift DEF Used
  <2>4. producer.busy => Sub(producer.next, head') = Sub(producer.next, head) - d
    BY <2>1, <2>2, <1>0, SubShift DEF SlotsDisjoint
  <2>5. consumer' \in [busy : BOOLEAN, next : Indices, left : Nat, short : BOOLEAN,
                        copied : Seq(Sample)] /\ ~consumer'.busy
    BY <2>1, IdleRange
  <2>6. TypeOK'
    BY <2>1, <2>5, <1>0 DEF TypeOK
  <2> HIDE DEF d
  <2>7. SlotsDisjoint'
    <3>1. Used' <= Capacity
      BY <2>2, <2>3, <1>0, CapacityAssumption
    <3>2. producer'.busy => Used' <= Sub(producer'.next, head')
                            /\ Sub(producer'.next, head') + producer'.left <= Capacity
      BY <2>1, <2>2, <2>3, <2>4, <1>0, CapacityAssumption DEF SlotsDisjoint
    <3> QED
      BY <3>1, <3>2, <2>5 DEF SlotsDisjoint
  <2>8. PushInFrame'
    BY <2>1 DEF PushInFrame
  <2> QED
    BY <2>6, <2>7, <2>8
<1>10. CASE UNCHANGED vars
  BY <1>10 DEF vars, queueVars, TypeOK, SlotsDisjoint, PushInFrame, Used
<1> QED
  BY <1>1, <1>2, <1>3, <1>4, <1>5, <1>6, <1>7, <1>8, <1>9, <1>10
     DEF Next, Produce, Consume

\* The indices stay in range, and a threshold is never above half the ring,
\* whatever is asked for.
THEOREM RingTypes == Spec => []TypeOK
<1>1. IInv => TypeOK
  BY DEF IInv
<1> QED
  BY <1>1, InitIInv, NextIInv, PTL DEF Spec

\* The two threads never touch the same slot at once, through the wrap-around
\* of both the slots and the indices.
THEOREM RingSlotsDisjoint == Spec => []SlotsDisjoint
<1>1. IInv => SlotsDisjoint
  BY DEF IInv
<1> QED
  BY <1>1, InitIInv, NextIInv, PTL DEF Spec

------------------------------------------------------------------------------
(* Slots. *)

\* An index is as far from another as it takes steps to get there.
LEMMA AddSub ==
  ASSUME NEW i \in Indices, NEW j \in Indices
  PROVE  Add(j, Sub(i, j)) = i
BY IndexAssumption DEF Indices, Add, Sub

\* Less than a turn of steps, at once or in two parts.
LEMMA AddAdd ==
  ASSUME NEW i \in Indices, NEW m \in Nat, NEW n \in Nat, m + n < IndexMod
  PROVE  Add(i, m) \in Indices /\ Add(Add(i, m), n) = Add(i, m + n)
BY IndexAssumption DEF Indices, Add

\* Indices with the same slot are a number of turns of the ring apart.
LEMMA SameSlot ==
  ASSUME NEW x \in Nat, NEW y \in Nat, Slot(x) = Slot(y)
  PROVE  \E d \in Int : y - x = Capacity * d
<1> DEFINE w == Capacity
           d == (y \div w) - (x \div w)
<1>1. w \in Nat /\ w > 0
  BY CapacityAssumption
<1>2. x % w = y % w
  BY DEF Slot
<1> HIDE DEF w
<1>3. x = w * (x \div w) + (x % w) /\ y = w * (y \div w) + (y % w)
  BY <1>1
<1>4. x \div w \in Int /\ y \div w \in Int
  BY <1>1
<1>5. y - x = w * d /\ d \in Int
  BY <1>1, <1>2, <1>3, <1>4
<1> HIDE DEF d
<1> QED
  BY <1>5 DEF w

\* Indices less than a turn of the ring apart have slots of their own, also when
\* one has wrapped: the range of an index is a number of turns.
LEMMA SlotsApart ==
  ASSUME NEW i \in Indices, NEW m \in Nat, NEW n \in Nat,
         m < n, n - m < Capacity, n < IndexMod
  PROVE  Slot(Add(i, m)) # Slot(Add(i, n))
<1> SUFFICES ASSUME Slot(Add(i, m)) = Slot(Add(i, n))
             PROVE  FALSE
  OBVIOUS
<1> DEFINE w == Capacity
           M == IndexMod
<1>1. w \in Nat /\ w > 0 /\ M \in Nat /\ i \in Nat
  BY CapacityAssumption, IndexAssumption DEF Indices
<1>2. PICK t \in Int : M = w * t
  <2>1. M % w = 0
    BY IndexAssumption
  <2> HIDE DEF w, M
  <2>2. M = w * (M \div w) + (M % w) /\ M \div w \in Int
    BY <1>1
  <2>3. M = w * (M \div w)
    BY <1>1, <2>1, <2>2
  <2> QED
    BY <2>2, <2>3
<1>3. Add(i, m) \in Nat /\ Add(i, n) \in Nat
  BY IndexAssumption DEF Add, Indices
<1>4. PICK d \in Int : Add(i, n) - Add(i, m) = w * d
  BY <1>3, SameSlot
<1>5. n - m = w * d \/ n - m = w * d + w * t
  BY <1>1, <1>2, <1>4, IndexAssumption DEF Add, Indices
<1>6. n - m > 0 /\ n - m < w /\ n - m \in Int
  OBVIOUS
<1> HIDE DEF w, M
<1>7. PICK k \in Int : n - m = w * k
  <2>1. w * d + w * t = w * (d + t) /\ d + t \in Int
    BY <1>1
  <2> QED
    BY <1>5, <2>1
<1>8. k > 0
  BY <1>1, <1>6, <1>7
<1>9. w * k >= w
  BY <1>1, <1>8
<1> QED
  BY <1>6, <1>7, <1>9, <1>1

------------------------------------------------------------------------------
(* The ring as a queue. *)

\* The queue's i-th sample, and the queue that FifoSpec reads off the ring.
At(i) == slots[Slot(Add(head, i - 1))]
Queue == [i \in 1 .. Used |-> At(i)]

\* A pop in flight has copied the front of the queue.
Copying ==
  consumer.busy =>
    /\ Len(consumer.copied) = Sub(consumer.next, head)
    /\ \A i \in 1 .. Len(consumer.copied) : consumer.copied[i] = At(i)

\* Every place within a turn of the head is an index with a slot.
LEMMA AtType == IInv => \A i \in 1 .. Capacity : At(i) \in Sample
<1> SUFFICES ASSUME IInv, NEW i \in 1 .. Capacity PROVE At(i) \in Sample
  OBVIOUS
<1>1. i - 1 \in Nat /\ (i - 1) + 0 < IndexMod
  BY CapacityAssumption, IndexAssumption
<1>2. Add(head, i - 1) \in Indices
  BY <1>1, AddAdd DEF IInv, TypeOK
<1> QED
  BY <1>2, SlotRange DEF At, IInv, TypeOK

LEMMA QueueType == IInv => Queue \in Seq(Sample) /\ Len(Queue) = Used /\ Used \in 0 .. Capacity
<1> SUFFICES ASSUME IInv
             PROVE  Queue \in Seq(Sample) /\ Len(Queue) = Used /\ Used \in 0 .. Capacity
  OBVIOUS
<1>1. Used \in 0 .. Capacity
  BY SubRange, CapacityAssumption DEF IInv, TypeOK, SlotsDisjoint, Used
<1>2. \A i \in 1 .. Used : At(i) \in Sample
  BY <1>1, AtType, CapacityAssumption
<1>3. Queue \in [1 .. Used -> Sample]
  BY <1>2 DEF Queue
<1>4. Queue \in Seq(Sample)
  BY <1>1, <1>3
<1>5. Len(Queue) = Used
  BY <1>1, <1>3, <1>4, LenProperties
<1> QED
  BY <1>1, <1>4, <1>5

\* A push stores to no slot of the queue.
LEMMA PushSlotKeeps ==
  ASSUME IInv, PushSlot, NEW i \in 1 .. Used
  PROVE  At(i)' = At(i)
<1> DEFINE n == Sub(producer.next, head)
<1>1. /\ head \in Indices /\ producer.next \in Indices /\ n \in Nat
      /\ Used \in Nat /\ producer.left \in Nat
  BY SubRange DEF IInv, TypeOK, Used
<1>2. Used <= n /\ n < Capacity
  BY <1>1, CapacityAssumption DEF IInv, SlotsDisjoint, PushSlot
<1>3. producer.next = Add(head, n)
  BY <1>1, AddSub
<1> HIDE DEF n
<1>4. Slot(Add(head, i - 1)) # Slot(Add(head, n))
  <2>1. i - 1 \in Nat /\ i - 1 < n /\ n - (i - 1) < Capacity /\ n < IndexMod
    BY <1>1, <1>2, CapacityAssumption, IndexAssumption
  <2> QED
    BY <1>1, <2>1, SlotsApart
<1>5. PICK s \in Sample : slots' = [slots EXCEPT ![Slot(producer.next)] = s]
  BY DEF PushSlot
<1>6. head' = head
  BY DEF PushSlot
<1> QED
  BY <1>3, <1>4, <1>5, <1>6 DEF At, IInv, TypeOK

\* A sample added to a copy.
LEMMA Appended ==
  ASSUME NEW copy \in Seq(Sample), NEW sample \in Sample
  PROVE  /\ Len(Append(copy, sample)) = Len(copy) + 1
         /\ \A i \in 1 .. Len(copy) : Append(copy, sample)[i] = copy[i]
         /\ Append(copy, sample)[Len(copy) + 1] = sample
BY AppendProperties

\* The copy is kept a copy: a pop extends it by the sample next in the queue, and
\* nothing the producer does in the meantime touches the samples it was made of.
LEMMA NextCopying == IInv /\ Copying /\ [Next]_vars => Copying'
<1> SUFFICES ASSUME IInv, Copying, [Next]_vars PROVE Copying'
  OBVIOUS
<1>1. CASE PopBegin
  <2>1. head' = head /\ consumer'.next = head /\ consumer'.copied = <<>> /\ head \in Indices
    BY <1>1 DEF PopBegin, IInv, TypeOK
  <2> QED
    BY <2>1, SubRange DEF Copying
<1>2. CASE PopSlot
  <2> DEFINE n == Len(consumer.copied)
             s == slots[Slot(consumer.next)]
  <2>1. /\ consumer'.next = Add(consumer.next, 1)
        /\ consumer'.copied = Append(consumer.copied, s)
        /\ head' = head /\ slots' = slots
    BY <1>2 DEF PopSlot, IInv, TypeOK, queueVars
  <2>2. /\ head \in Indices /\ consumer.next \in Indices /\ consumer.left \in Nat
        /\ Used \in Nat /\ Used <= Capacity
        /\ n = Sub(consumer.next, head) /\ n + consumer.left <= Used
        /\ \A i \in 1 .. n : consumer.copied[i] = At(i)
    BY <1>2, SubRange DEF PopSlot, Copying, IInv, TypeOK, SlotsDisjoint, Used
  <2>3. consumer.copied \in Seq(Sample) /\ s \in Sample /\ n \in Nat
    BY <2>2, SlotRange DEF IInv, TypeOK
  <2>4. Sub(consumer.next, head) + 1 < IndexMod
    BY <1>2, <2>2, <2>3, CapacityAssumption, IndexAssumption DEF PopSlot
  <2>5. Sub(consumer'.next, head') = n + 1
    BY <2>1, <2>2, <2>4, SubAdd
  <2>6. s = At(n + 1)
    <3>1. consumer.next = Add(head, n)
      BY <2>2, AddSub
    <3>2. (n + 1) - 1 = n
      BY <2>3
    <3> QED
      BY <3>1, <3>2 DEF At
  <2>7. \A i \in 1 .. n + 1 : At(i)' = At(i)
    BY <2>1 DEF At
  <2>8. /\ Len(consumer'.copied) = n + 1
        /\ \A i \in 1 .. n : consumer'.copied[i] = consumer.copied[i]
        /\ consumer'.copied[n + 1] = s
    BY <2>1, <2>3, Appended
  <2> HIDE DEF n, s
  <2>9. \A i \in 1 .. n + 1 : consumer'.copied[i] = At(i)
    <3>1. \A i \in 1 .. n : consumer'.copied[i] = At(i)
      BY <2>2, <2>8
    <3>2. consumer'.copied[n + 1] = At(n + 1)
      BY <2>6, <2>8
    <3> QED
      BY <3>1, <3>2, <2>3
  <2> QED
    BY <2>5, <2>7, <2>8, <2>9 DEF Copying
<1>3. CASE PopEnd
  <2>1. ~ consumer'.busy
    BY <1>3, IdleRange DEF PopEnd
  <2> QED
    BY <2>1 DEF Copying
<1>4. CASE PushSlot
  <2>1. consumer' = consumer /\ head' = head
    BY <1>4 DEF PushSlot
  <2>2. consumer.busy => Len(consumer.copied) <= Used /\ Len(consumer.copied) \in Nat /\ Used \in Nat
    <3>1. /\ head \in Indices /\ tail \in Indices /\ consumer.next \in Indices
          /\ consumer.left \in Nat
      BY DEF IInv, TypeOK
    <3>2. Used \in Nat /\ Sub(consumer.next, head) \in Nat
      BY <3>1, SubRange DEF Used
    <3>3. consumer.busy => Len(consumer.copied) = Sub(consumer.next, head)
      BY DEF Copying
    <3>4. consumer.busy => Sub(consumer.next, head) + consumer.left <= Used
      BY DEF IInv, SlotsDisjoint
    <3> QED
      BY <3>1, <3>2, <3>3, <3>4
  <2>3. ASSUME consumer.busy, NEW i \in 1 .. Len(consumer.copied)
        PROVE  At(i)' = At(i)
    <3>1. i \in 1 .. Used
      BY <2>2, <2>3
    <3> QED
      BY <1>4, <3>1, PushSlotKeeps
  <2> QED
    BY <2>1, <2>3 DEF Copying
<1>5. CASE \/ FrameBegin \/ WindowFrame \/ PushBegin \/ PushEnd
           \/ SetStartThreshold \/ PopSilence \/ UNCHANGED vars
  <2>1. consumer' = consumer /\ head' = head /\ slots' = slots
    BY <1>5 DEF FrameBegin, WindowFrame, PushBegin, PushEnd, SetStartThreshold, PopSilence,
                vars, queueVars
  <2> QED
    BY <2>1 DEF Copying, At
<1> QED
  BY <1>1, <1>2, <1>3, <1>4, <1>5 DEF Next, Produce, Consume

------------------------------------------------------------------------------
(* Every step is a step of the queue, or leaves it alone. *)

\* The store of tail hands over what was stored since: the queue's push.
LEMMA PushEndPushes == IInv /\ PushEnd => Fifo!Push
<1> SUFFICES ASSUME IInv, PushEnd PROVE Fifo!Push
  OBVIOUS
<1>1. head' = head /\ slots' = slots /\ out' = out
  BY DEF PushEnd
<1>2. IInv'
  BY NextIInv DEF Next, Produce
<1>3. (Queue \in Seq(Sample) /\ Len(Queue) = Used /\ Used \in 0 .. Capacity)'
  BY <1>2, QueueType, PTL
<1> DEFINE u == Used
           v == Used'
           n == v - u
           block == [i \in 1 .. n |-> At(u + i)]
<1>4. Queue \in Seq(Sample) /\ Len(Queue) = u /\ u \in 0 .. Capacity
  BY QueueType
<1>5. Queue' \in Seq(Sample) /\ Len(Queue') = v /\ v \in 0 .. Capacity
  BY <1>3
<1>6. u <= v
  BY DEF IInv, SlotsDisjoint, PushEnd, Used
<1>7. \A i \in 1 .. v : At(i) \in Sample /\ Queue'[i] = At(i)
  <2>1. \A i \in 1 .. v : Queue'[i] = At(i)
    BY <1>1 DEF Queue, At
  <2> QED
    BY <2>1, <1>5, ElementOfSeq
<1>8. \A i \in 1 .. u : Queue[i] = At(i)
  BY DEF Queue
<1> HIDE DEF u, v
<1>9. n \in 0 .. Capacity - u /\ u \in Nat /\ v \in Nat
  BY <1>4, <1>5, <1>6, CapacityAssumption
<1>10. \A i \in 1 .. n : u + i \in 1 .. v
  BY <1>9
<1>11. block \in [1 .. n -> Sample]
  BY <1>7, <1>10
<1> HIDE DEF n
<1>12. block \in Seq(Sample) /\ Len(block) = n
  <2>1. block \in Seq(Sample)
    BY <1>9, <1>11
  <2> QED
    BY <2>1, <1>9, <1>11, LenProperties
<1>13. block \in Fifo!BoundedSeq(Sample, Capacity - Len(Queue))
  BY <1>4, <1>9, <1>11 DEF Fifo!BoundedSeq, Fifo!SeqOf
<1>14. \A i \in 1 .. n : block[i] = At(u + i)
  OBVIOUS
<1> HIDE DEF block
<1>15. Queue' = Queue \o block
  <2> DEFINE q == Queue \o block
  <2>1. /\ q \in Seq(Sample) /\ Len(q) = u + n
        /\ \A i \in 1 .. u + n : q[i] = IF i <= u THEN Queue[i] ELSE block[i - u]
    BY <1>4, <1>12, ConcatProperties
  <2> HIDE DEF q
  <2>2. u + n = v
    BY <1>9 DEF n
  <2>3. ASSUME NEW i \in 1 .. v
        PROVE  q[i] = At(i)
    <3>1. CASE i <= u
      BY <3>1, <2>1, <2>2, <1>8, <1>9
    <3>2. CASE i > u
      <4>1. i - u \in 1 .. n /\ u + (i - u) = i
        BY <3>2, <2>2, <1>9
      <4>2. block[i - u] = At(i)
        BY <4>1, <1>14
      <4> QED
        BY <3>2, <4>2, <2>1, <2>2, <1>9
    <3>3. i <= u \/ i > u
      BY <1>9
    <3> QED
      BY <3>1, <3>2, <3>3
  <2> QED
    BY <1>5, <1>7, <2>1, <2>2, <2>3, SeqEqual DEF q
<1> QED
  BY <1>1, <1>13, <1>15 DEF Fifo!Push, Queue, At

\* The store of head gives back what was copied, and the callback has it: the
\* queue's pop.
LEMMA PopEndPops == IInv /\ Copying /\ PopEnd => Fifo!Pop
<1> SUFFICES ASSUME IInv, Copying, PopEnd PROVE Fifo!Pop
  OBVIOUS
<1>1. slots' = slots /\ tail' = tail /\ head' = consumer.next /\ out' = consumer.copied
  BY DEF PopEnd
<1>2. IInv'
  BY NextIInv DEF Next, Consume
<1>3. (Queue \in Seq(Sample) /\ Len(Queue) = Used /\ Used \in 0 .. Capacity)'
  BY <1>2, QueueType, PTL
<1> DEFINE u == Used
           v == Used'
           n == Sub(consumer.next, head)
<1>4. Queue \in Seq(Sample) /\ Len(Queue) = u /\ u \in 0 .. Capacity
  BY QueueType
<1>5. Queue' \in Seq(Sample) /\ Len(Queue') = v /\ v \in 0 .. Capacity
  BY <1>3
<1>6. /\ head \in Indices /\ tail \in Indices /\ consumer.next \in Indices
      /\ consumer.copied \in Seq(Sample) /\ n \in Nat /\ consumer.left = 0
  BY SubRange DEF IInv, TypeOK, PopEnd
<1>7. /\ Len(consumer.copied) = n /\ n <= u
      /\ \A i \in 1 .. n : consumer.copied[i] = At(i)
  BY <1>6 DEF Copying, IInv, SlotsDisjoint, PopEnd
<1>8. v = u - n
  BY <1>1, <1>6, <1>7, SubShift DEF Used
<1>9. \A i \in 1 .. u : Queue[i] = At(i) /\ Queue[i] \in Sample
  <2>1. \A i \in 1 .. u : Queue[i] = At(i)
    BY DEF Queue
  <2> QED
    BY <2>1, <1>4, ElementOfSeq
<1>10. \A i \in 1 .. v : Queue'[i] = At(n + i)
  <2> SUFFICES ASSUME NEW i \in 1 .. v PROVE Queue'[i] = At(n + i)
    OBVIOUS
  <2>1. Queue'[i] = slots[Slot(Add(consumer.next, i - 1))]
    BY <1>1 DEF Queue, At
  <2>2. consumer.next = Add(head, n)
    BY <1>6, AddSub
  <2> HIDE DEF n, u, v
  <2>3. i - 1 \in Nat /\ n + (i - 1) < IndexMod /\ (n + i) - 1 = n + (i - 1)
    BY <1>4, <1>6, <1>7, <1>8, CapacityAssumption, IndexAssumption
  <2>4. Add(consumer.next, i - 1) = Add(head, n + (i - 1))
    BY <2>2, <2>3, <1>6, AddAdd
  <2> QED
    BY <2>1, <2>3, <2>4 DEF At
<1> HIDE DEF u, v, n
<1>11. out' = SubSeq(Queue, 1, n)
  <2>1. \A i \in 1 .. n : Queue[i] \in Sample
    BY <1>4, <1>6, <1>7, <1>9
  <2>2. /\ SubSeq(Queue, 1, n) \in Seq(Sample) /\ Len(SubSeq(Queue, 1, n)) = n
        /\ \A i \in 1 .. n : SubSeq(Queue, 1, n)[i] = Queue[i]
    BY <2>1, <1>6, SubSeqProperties
  <2>3. \A i \in 1 .. n : consumer.copied[i] = SubSeq(Queue, 1, n)[i]
    BY <2>2, <1>4, <1>6, <1>7, <1>9
  <2> QED
    BY <2>2, <2>3, <1>1, <1>6, <1>7, SeqEqual
<1>12. Queue' = SubSeq(Queue, n + 1, u)
  <2> DEFINE s == SubSeq(Queue, n + 1, u)
  <2>1. \A i \in n + 1 .. u : Queue[i] \in Sample
    BY <1>4, <1>6, <1>7, <1>9
  <2>2. /\ s \in Seq(Sample) /\ Len(s) = v
        /\ \A i \in 1 .. v : s[i] = Queue[n + i]
    BY <2>1, <1>4, <1>6, <1>7, <1>8, SubSeqProperties
  <2> HIDE DEF s
  <2>3. \A i \in 1 .. v : n + i \in 1 .. u
    BY <1>4, <1>6, <1>7, <1>8
  <2>4. \A i \in 1 .. v : Queue'[i] = s[i]
    BY <2>2, <2>3, <1>9, <1>10
  <2> QED
    BY <2>2, <2>4, <1>5, SeqEqual DEF s
<1>13. n \in 0 .. Len(Queue)
  BY <1>4, <1>6, <1>7
<1> QED
  BY <1>4, <1>11, <1>12, <1>13 DEF Fifo!Pop, Queue, At

\* A callback handed silence pops nothing.
LEMMA PopSilencePops == IInv /\ PopSilence => Fifo!Pop
<1> SUFFICES ASSUME IInv, PopSilence PROVE Fifo!Pop
  OBVIOUS
<1>1. Queue' = Queue /\ out' = <<>>
  BY DEF PopSilence, Queue, At, Used, queueVars
<1>2. Queue \in Seq(Sample)
  BY QueueType
<1>3. Len(Queue) \in Nat /\ \A i \in 1 .. Len(Queue) : Queue[i] \in Sample
  BY <1>2, LenProperties, ElementOfSeq
<1>4. SubSeq(Queue, 1, 0) = <<>>
  BY SubSeqEmpty
<1>5. SubSeq(Queue, 0 + 1, Len(Queue)) = Queue
  <2> DEFINE s == SubSeq(Queue, 1, Len(Queue))
  <2>1. /\ s \in Seq(Sample) /\ Len(s) = Len(Queue)
        /\ \A i \in 1 .. Len(Queue) : s[i] = Queue[i]
    BY <1>3, SubSeqProperties
  <2> QED
    BY <2>1, <1>2, SeqEqual
<1>6. 0 \in 0 .. Len(Queue)
  BY <1>3
<1> QED
  BY <1>1, <1>4, <1>5, <1>6 DEF Fifo!Pop, Queue, At

LEMMA NextFifo == IInv /\ Copying /\ [Next]_vars => [Fifo!Push \/ Fifo!Pop]_<<Queue, out>>
<1> SUFFICES ASSUME IInv, Copying, [Next]_vars
             PROVE  Fifo!Push \/ Fifo!Pop \/ (Queue' = Queue /\ out' = out)
  OBVIOUS
<1>1. CASE PushEnd
  BY <1>1, PushEndPushes
<1>2. CASE PopEnd
  BY <1>2, PopEndPops
<1>3. CASE PopSilence
  BY <1>3, PopSilencePops
<1>4. CASE PushSlot
  <2>1. head' = head /\ tail' = tail /\ out' = out
    BY <1>4 DEF PushSlot
  <2>2. Used' = Used
    BY <2>1 DEF Used
  <2>3. \A i \in 1 .. Used : At(i)' = At(i)
    BY <1>4, PushSlotKeeps
  <2>4. Queue' = Queue
    BY <2>2, <2>3 DEF Queue
  <2> QED
    BY <2>1, <2>4
<1>5. CASE \/ FrameBegin \/ WindowFrame \/ PushBegin
           \/ SetStartThreshold \/ PopBegin \/ PopSlot \/ UNCHANGED vars
  BY <1>5 DEF FrameBegin, WindowFrame, PushBegin, SetStartThreshold, PopBegin, PopSlot,
              vars, queueVars, Queue, At, Used
<1> QED
  BY <1>1, <1>2, <1>3, <1>4, <1>5 DEF Next, Produce, Consume

\* The ring is the queue, for every capacity, index width and size of block:
\* samples reach the device in the order they were pushed, none twice, none
\* torn, none from a slot not yet filled (audio_ring.rs 82-134).
THEOREM RingIsFifo == Spec => FifoSpec
<1>1. Init => Fifo!Init /\ Copying
  <2> SUFFICES ASSUME Init PROVE Fifo!Init /\ Copying
    OBVIOUS
  <2>1. Used = 0
    BY CapacityAssumption, IndexAssumption DEF Init, Used, Sub
  <2>2. Queue = <<>>
    BY <2>1 DEF Queue
  <2>3. ~ consumer.busy
    BY IdleRange DEF Init
  <2> QED
    BY <2>2, <2>3 DEF Init, Copying, Fifo!Init, Queue, At
<1>2. IInv /\ Copying /\ [Next]_vars
        => [Fifo!Push \/ Fifo!Pop]_<<[i \in 1 .. Used |-> slots[Slot(Add(head, i - 1))]], out>>
  BY NextFifo DEF Queue, At
<1> QED
  BY <1>1, <1>2, InitIInv, NextIInv, NextCopying, PTL DEF Spec, FifoSpec, Fifo!Spec
===============================================================================
