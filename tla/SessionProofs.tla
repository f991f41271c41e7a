---------------------------- MODULE SessionProofs ----------------------------
(***************************************************************************)
(* The safety of Session for any ROMs, any ring and any run-ahead.         *)
(*                                                                         *)
(* RewindGoesBack is inductive given the types.  TagMatches is not: that a *)
(* rewind keeps the ROM is what RewindGoesBack says of the ring, so the    *)
(* two are proved together.  The games of Netgame keep both: what a redraw *)
(* of a game needs beyond them is about the machine it is about to copy,   *)
(* which is of the ROM that is open and ahead of all of the rewind ring.   *)
(***************************************************************************)
EXTENDS Netgame, SequenceTheorems, TLAPS

\* What the ring and the files are made of.
Shape ==
  /\ tag \in Roms \cup {NoRom}
  /\ machine \in Machines
  /\ ring \in Seq(Machines) /\ Len(ring) <= MaxRing
  /\ saves \in [Roms -> Machines]

\* What is shown, and the count the debugger shows and jumps by.
Shown ==
  /\ paused \in BOOLEAN
  /\ count \in 0 .. CountMod - 1
  /\ slot \in Roms \cup {NoRom}
  /\ screen \in Roms \cup {NoRom}

IInv == Shape /\ TagMatches /\ RewindGoesBack

\* A frame ends after it starts, and within the bound if it starts within it.
LEMMA FrameEndLater ==
  ASSUME NEW t \in Nat
  PROVE  /\ FrameEnd(t) \in Nat /\ t < FrameEnd(t)
         /\ t <= MaxTime => FrameEnd(t) <= FrameEnd(MaxTime)
<1>1. FrameEnd(t) \in Nat /\ t < FrameEnd(t)
  BY DEF FrameEnd
<1>2. t <= MaxTime => FrameEnd(t) <= FrameEnd(MaxTime)
  BY TimeAssumption DEF FrameEnd
<1> QED
  BY <1>1, <1>2

\* A machine is a ROM at a time within the bound.
LEMMA MachineFacts ==
  /\ FrameEnd(MaxTime) \in Nat /\ MaxTime < FrameEnd(MaxTime)
  /\ \A m \in Machines : m.time \in Nat /\ m.rom \in Roms \cup {NoRom}
BY FrameEndLater, TimeAssumption DEF Machines

\* No frame has ended at power-on.
LEMMA PowerOnFacts == \A r \in Roms \cup {NoRom} : PowerOn(r) \in Machines
BY MachineFacts DEF Machines, PowerOn

\* Capturing the machine the ring leads up to, and then running it on, keeps
\* the ring in order and within its size (emu_thread.rs 584-592).
LEMMA CaptureFacts ==
  ASSUME NEW past \in Seq(Machines), NEW m \in Machines, Len(past) <= MaxRing,
         \A i, j \in 1 .. Len(past) : i < j => past[i].time < past[j].time,
         \A i \in 1 .. Len(past) : past[i].rom = m.rom /\ past[i].time < m.time
  PROVE  /\ Capture(past, m) \in Seq(Machines)
         /\ Len(Capture(past, m)) <= MaxRing
         /\ \A i, j \in 1 .. Len(Capture(past, m)) :
              i < j => Capture(past, m)[i].time < Capture(past, m)[j].time
         /\ \A i \in 1 .. Len(Capture(past, m)) :
              Capture(past, m)[i].rom = m.rom /\ Capture(past, m)[i].time <= m.time
<1> DEFINE new == Capture(past, m)
<1>1. Len(past) \in Nat /\ MaxRing \in Nat \ {0} /\ m.time \in Nat
  BY RingAssumption DEF Machines
<1>2. CASE Len(past) < MaxRing
  <2>1. new = Append(past, m)
    BY <1>2 DEF Capture
  <2>2. new \in Seq(Machines) /\ Len(new) = Len(past) + 1
    BY <2>1
  <2>3. \A i \in 1 .. Len(past) : new[i] = past[i]
    BY <2>1
  <2>4. new[Len(past) + 1] = m
    BY <2>1
  <2> HIDE DEF new
  <2>5. \A i, j \in 1 .. Len(new) : i < j => new[i].time < new[j].time
    <3> SUFFICES ASSUME NEW i \in 1 .. Len(new), NEW j \in 1 .. Len(new), i < j
                 PROVE  new[i].time < new[j].time
      OBVIOUS
    <3>1. i \in 1 .. Len(past)
      BY <1>1, <2>2
    <3>2. CASE j \in 1 .. Len(past)
      BY <3>1, <3>2, <2>3
    <3>3. CASE j = Len(past) + 1
      BY <3>1, <3>3, <2>3, <2>4
    <3> QED
      BY <3>2, <3>3, <1>1, <2>2
  <2>6. \A i \in 1 .. Len(new) : new[i].rom = m.rom /\ new[i].time <= m.time
    <3> SUFFICES ASSUME NEW i \in 1 .. Len(new)
                 PROVE  new[i].rom = m.rom /\ new[i].time <= m.time
      OBVIOUS
    <3>1. CASE i \in 1 .. Len(past)
      <4>1. past[i] \in Machines
        BY <3>1
      <4>2. past[i].time \in Nat
        BY <4>1 DEF Machines
      <4> QED
        BY <3>1, <4>2, <2>3, <1>1
    <3>2. CASE i = Len(past) + 1
      BY <3>2, <2>4, <1>1
    <3> QED
      BY <3>1, <3>2, <1>1, <2>2
  <2>7. Len(new) <= MaxRing
    BY <1>1, <1>2, <2>2
  <2> QED
    BY <2>2, <2>5, <2>6, <2>7 DEF new
<1>3. CASE ~(Len(past) < MaxRing)
  <2> DEFINE old == Tail(past)
  <2>1. Len(past) = MaxRing /\ past # <<>>
    BY <1>1, <1>3
  <2>2. old \in Seq(Machines) /\ Len(old) = Len(past) - 1
    BY <2>1
  <2>3. \A i \in 1 .. Len(old) : old[i] = past[i + 1]
    BY <2>1
  <2>4. new = Append(old, m)
    BY <1>3 DEF Capture
  <2> HIDE DEF old, new
  <2>5. new \in Seq(Machines) /\ Len(new) = Len(past)
    BY <1>1, <2>2, <2>4
  <2>6. \A i \in 1 .. Len(old) : new[i] = old[i]
    BY <2>2, <2>4
  <2>7. new[Len(old) + 1] = m
    BY <2>2, <2>4
  <2>8. \A i \in 1 .. Len(past) - 1 : new[i] = past[i + 1]
    BY <2>2, <2>3, <2>6
  <2>9. new[Len(past)] = m
    BY <1>1, <2>2, <2>7
  <2>10. \A i, j \in 1 .. Len(new) : i < j => new[i].time < new[j].time
    <3> SUFFICES ASSUME NEW i \in 1 .. Len(new), NEW j \in 1 .. Len(new), i < j
                 PROVE  new[i].time < new[j].time
      OBVIOUS
    <3>1. i \in 1 .. Len(past) - 1 /\ i + 1 \in 1 .. Len(past)
      BY <1>1, <2>5
    <3>2. CASE j \in 1 .. Len(past) - 1
      <4>1. j + 1 \in 1 .. Len(past) /\ i + 1 < j + 1
        BY <1>1, <3>2
      <4> QED
        BY <3>1, <3>2, <4>1, <2>8
    <3>3. CASE j = Len(past)
      BY <3>1, <3>3, <2>8, <2>9
    <3> QED
      BY <3>2, <3>3, <1>1, <2>5
  <2>11. \A i \in 1 .. Len(new) : new[i].rom = m.rom /\ new[i].time <= m.time
    <3> SUFFICES ASSUME NEW i \in 1 .. Len(new)
                 PROVE  new[i].rom = m.rom /\ new[i].time <= m.time
      OBVIOUS
    <3>1. CASE i \in 1 .. Len(past) - 1
      <4>1. i + 1 \in 1 .. Len(past) /\ past[i + 1] \in Machines
        BY <1>1, <3>1
      <4>2. past[i + 1].time \in Nat
        BY <4>1 DEF Machines
      <4> QED
        BY <3>1, <4>1, <4>2, <2>8, <1>1
    <3>2. CASE i = Len(past)
      BY <3>2, <2>9, <1>1
    <3> QED
      BY <3>1, <3>2, <1>1, <2>5
  <2>12. Len(new) <= MaxRing
    BY <2>1, <2>5, <1>1
  <2> QED
    BY <2>5, <2>10, <2>11, <2>12 DEF new
<1> QED
  BY <1>2, <1>3

\* The frame count is a u64.
LEMMA CountFacts == \A c, n \in Nat : Count(c, n) \in 0 .. CountMod - 1 /\ Count(c, n) \in Nat
BY CountAssumption DEF Count

\* Whatever the look-ahead, a tick runs the machine on by the one frame that
\* counts and captures the state before it (runahead.rs 57-86).
LEMMA RunAheadFacts ==
  ASSUME NEW core, NEW n \in Nat,
         core = [machine |-> machine, ring |-> ring, count |-> count, slot |-> slot],
         machine \in Machines, count \in Nat
  PROVE  /\ RunAhead(core, n).machine = [machine EXCEPT !.time = FrameEnd(@)]
         /\ RunAhead(core, n).ring = Capture(ring, machine)
         /\ RunAhead(core, n).slot = machine.rom
         /\ RunAhead(core, n).count \in 0 .. CountMod - 1
<1>1. CASE n = 0
  BY <1>1, CountFacts DEF RunAhead, StepFrame, Publish
<1>2. CASE n # 0
  <2> DEFINE persistent == StepFrame(core, TRUE, FALSE)
             hidden == Hidden(persistent, n - 1)
             displayed == StepFrame(hidden, FALSE, TRUE)
  <2>1. persistent = [machine |-> [machine EXCEPT !.time = FrameEnd(@)],
                      ring |-> Capture(ring, machine), count |-> Count(count, 1),
                      slot |-> slot]
    BY DEF StepFrame, Publish
  <2>2. hidden.ring = persistent.ring /\ hidden.machine.rom = machine.rom
        /\ hidden.count \in Nat
    <3> DEFINE m == [machine EXCEPT !.time = FrameEnd(@)]
    <3>1. DOMAIN m = {"rom", "time"} /\ m.rom = machine.rom
      BY DEF Machines
    <3> HIDE DEF m, persistent
    <3>2. persistent = [machine |-> m, ring |-> Capture(ring, machine),
                        count |-> Count(count, 1), slot |-> slot]
      BY <2>1 DEF m
    <3> DEFINE c == Count(count, 1)
    <3>3. c \in Nat /\ n - 1 \in Nat /\ Count(c, n - 1) \in Nat
      <4>1. n - 1 \in Nat /\ 1 \in Nat
        BY <1>2
      <4>2. c \in Nat
        BY <4>1, CountFacts, Zenon
      <4> QED
        BY <4>1, <4>2, CountFacts, Zenon
    <3> HIDE DEF c
    <3>4. persistent = [machine |-> m, ring |-> Capture(ring, machine),
                        count |-> c, slot |-> slot]
      BY <3>2 DEF c
    <3>5. CASE n - 1 = 0
      BY <3>1, <3>3, <3>4, <3>5 DEF Hidden
    <3>6. CASE n - 1 # 0
      BY <3>1, <3>3, <3>4, <3>6 DEF Hidden
    <3> QED
      BY <3>5, <3>6
  <2>3. displayed.ring = hidden.ring /\ displayed.slot = hidden.machine.rom
        /\ displayed.count = Count(hidden.count, 1)
        /\ displayed = [machine |-> displayed.machine, ring |-> displayed.ring,
                        count |-> displayed.count, slot |-> displayed.slot]
    BY DEF StepFrame, Publish
  <2>4. RunAhead(core, n) = [displayed EXCEPT !.machine = persistent.machine]
    BY <1>2 DEF RunAhead
  <2>5. displayed.count \in 0 .. CountMod - 1
    BY <2>2, <2>3, CountFacts
  <2> HIDE DEF persistent, hidden, displayed
  <2> QED
    BY <2>1, <2>2, <2>3, <2>4, <2>5
<1> QED
  BY <1>1, <1>2

LEMMA InitIInv == Init => IInv
<1> SUFFICES ASSUME Init PROVE IInv
  OBVIOUS
<1>1. /\ tag \in Roms \cup {NoRom} /\ machine = PowerOn(tag) /\ ring = <<>>
      /\ saves = [r \in Roms |-> None]
  BY DEF Init
<1>2. Shape
  <2>1. machine \in Machines /\ None \in Machines
    BY <1>1, PowerOnFacts DEF None
  <2>2. saves \in [Roms -> Machines]
    BY <1>1, <2>1
  <2>3. ring \in Seq(Machines) /\ Len(ring) <= MaxRing
    BY <1>1, RingAssumption
  <2> QED
    BY <1>1, <2>1, <2>2, <2>3 DEF Shape
<1>3. TagMatches
  BY <1>1 DEF TagMatches, PowerOn
<1>4. RewindGoesBack
  BY <1>1, <1>2 DEF RewindGoesBack, Shape
<1> QED
  BY <1>2, <1>3, <1>4 DEF IInv

\* Nothing is in order when there is nothing in the ring.
LEMMA EmptyRing ==
  ASSUME ring' = <<>>
  PROVE  ring' \in Seq(Machines) /\ Len(ring') <= MaxRing /\ RewindGoesBack'
BY RingAssumption DEF RewindGoesBack

LEMMA NextIInv == IInv /\ Shown /\ [Next]_vars => IInv'
<1> SUFFICES ASSUME IInv, Shown, [Next]_vars PROVE IInv'
  OBVIOUS
<1> USE DEF IInv
<1>1. CASE Tick
  <2> PICK n \in 0 .. MaxRunAhead :
        LET after == RunAhead([machine |-> machine, ring |-> ring, count |-> count,
                               slot |-> slot], n) IN
        /\ machine' = after.machine
        /\ ring' = after.ring
        /\ count' = after.count
        /\ slot' = after.slot
    BY <1>1 DEF Tick
  <2>1. machine \in Machines /\ n \in Nat /\ count \in Nat
    BY RunAheadAssumption, CountAssumption DEF Shape, Shown
  <2>2. machine' = [machine EXCEPT !.time = FrameEnd(@)] /\ ring' = Capture(ring, machine)
    BY <2>1, RunAheadFacts
  <2>3. machine' \in Machines /\ machine'.rom = machine.rom /\ machine.time < machine'.time
    <3> DEFINE t == FrameEnd(machine.time)
    <3>1. machine.time \in Nat /\ machine.time <= MaxTime
      BY <1>1, <2>1, MachineFacts, TimeAssumption DEF Tick
    <3>2. t \in 0 .. FrameEnd(MaxTime) /\ machine.time < t
      BY <3>1, FrameEndLater, MachineFacts
    <3> HIDE DEF t
    <3>3. machine' = [machine EXCEPT !.time = t]
      BY <2>2 DEF t
    <3> QED
      BY <2>1, <3>2, <3>3 DEF Machines
  <2>4. /\ ring' \in Seq(Machines) /\ Len(ring') <= MaxRing
        /\ \A i, j \in 1 .. Len(ring') : i < j => ring'[i].time < ring'[j].time
        /\ \A i \in 1 .. Len(ring') : ring'[i].rom = machine.rom
                                      /\ ring'[i].time <= machine.time
    BY <2>1, <2>2, CaptureFacts DEF Shape, RewindGoesBack
  <2>5. UNCHANGED <<tag, saves>>
    BY <1>1 DEF Tick
  <2>6. \A i \in 1 .. Len(ring') : ring'[i] \in Machines
    BY <2>4
  <2>7. RewindGoesBack'
    <3>1. machine.time \in Nat /\ machine'.time \in Nat
      BY <2>1, <2>3, MachineFacts
    <3>2. \A i \in 1 .. Len(ring') : ring'[i].time \in Nat
      BY <2>6, MachineFacts
    <3>3. \A a, b, c \in Nat : a <= b /\ b < c => a < c
      OBVIOUS
    <3>4. \A i \in 1 .. Len(ring') : ring'[i].rom = machine'.rom /\ ring'[i].time < machine'.time
      BY <2>3, <2>4, <3>1, <3>2, <3>3, Zenon
    <3> QED
      BY <2>4, <3>4, Zenon DEF RewindGoesBack
  <2> QED
    BY <2>3, <2>4, <2>5, <2>7 DEF Shape, TagMatches
<1>2. CASE Render \/ TogglePause
  <2>1. UNCHANGED <<tag, machine, ring, saves>>
    BY <1>2 DEF Render, Take, TogglePause
  <2> QED
    BY <2>1 DEF Shape, TagMatches, RewindGoesBack
<1>3. CASE OpenRom \/ CloseRom
  <2>1. tag' \in Roms \cup {NoRom} /\ machine' = PowerOn(tag') /\ UNCHANGED saves
    BY <1>3 DEF OpenRom, CloseRom, EjectRom
  <2>2. ring' = <<>>
    BY <1>3 DEF OpenRom, CloseRom, EjectRom, FreshRing
  <2>3. Shape'
    <3>1. machine' \in Machines
      BY <2>1, PowerOnFacts
    <3> QED
      BY <2>1, <2>2, <3>1, EmptyRing DEF Shape
  <2>4. TagMatches'
    BY <2>1 DEF TagMatches, PowerOn
  <2> QED
    BY <2>2, <2>3, <2>4, EmptyRing
<1>4. CASE SaveStateSlot
  <2>1. /\ tag \in Roms
        /\ saves' = [saves EXCEPT ![tag] = machine]
        /\ UNCHANGED <<tag, machine, ring>>
    BY <1>4 DEF SaveStateSlot, RomOpen, Shape
  <2>2. Shape'
    BY <2>1 DEF Shape
  <2>3. TagMatches'
    BY <2>1 DEF TagMatches, Shape
  <2>4. RewindGoesBack'
    BY <2>1 DEF RewindGoesBack
  <2> QED
    BY <2>2, <2>3, <2>4
<1>5. CASE LoadStateSlot
  <2>1. /\ tag \in Roms /\ saves[tag] # None
        /\ machine' = saves[tag]
        /\ UNCHANGED <<tag, saves>>
    BY <1>5 DEF LoadStateSlot, RomOpen, Shape
  <2>2. ring' = <<>>
    BY <1>5 DEF LoadStateSlot, RomOpen, FreshRing
  <2>3. Shape'
    BY <2>1, <2>2, EmptyRing DEF Shape
  <2>4. TagMatches'
    BY <2>1 DEF TagMatches
  <2> QED
    BY <2>2, <2>3, <2>4, EmptyRing
<1>6. CASE Debug
  <2> PICK t \in machine.time + 1 .. MaxTime : machine' = [machine EXCEPT !.time = t]
    BY <1>6 DEF Debug
  <2>1. t \in Nat /\ machine.time \in Nat /\ machine.time < t
    BY TimeAssumption DEF Shape, Machines
  <2>2. machine' \in Machines /\ machine'.rom = machine.rom /\ machine'.time = t
    <3>1. t \in 0 .. FrameEnd(MaxTime)
      BY <2>1, MachineFacts, TimeAssumption
    <3> HIDE DEF FrameEnd
    <3> QED
      BY <3>1 DEF Shape, Machines
  <2>3. UNCHANGED <<tag, ring, saves>>
    BY <1>6 DEF Debug
  <2>4. \A i \in 1 .. Len(ring) : ring[i] \in Machines
    BY DEF Shape
  <2>5. RewindGoesBack'
    BY <2>1, <2>2, <2>3, <2>4 DEF RewindGoesBack, Machines
  <2> QED
    BY <2>2, <2>3, <2>5 DEF Shape, TagMatches
<1>7. CASE JumpToFrame
  <2> DEFINE most == Len(ring)
  <2>1. ring \in Seq(Machines) /\ most \in Nat /\ most <= MaxRing
    BY DEF Shape
  <2>2. PICK back \in Int : /\ 0 < back /\ back <= most
                            /\ machine' = ring[most - back + 1]
                            /\ ring' = SubSeq(ring, 1, most - back)
                            /\ UNCHANGED <<tag, saves>>
    <3> PICK target \in 0 .. count - 1 :
          LET back == IF count - target < most THEN count - target ELSE most IN
          /\ back > 0
          /\ machine' = ring[most - back + 1]
          /\ ring' = SubSeq(ring, 1, most - back)
          /\ count' = count - back
      BY <1>7 DEF JumpToFrame, Rewind
    <3> DEFINE back == IF count - target < most THEN count - target ELSE most
    <3>1. count \in Nat
      BY CountAssumption DEF Shown
    <3>2. back \in Int /\ 0 < back /\ back <= most
      BY <2>1, <3>1
    <3>3. UNCHANGED <<tag, saves>>
      BY <1>7 DEF JumpToFrame, Rewind
    <3> QED
      BY <3>2, <3>3
  <2> DEFINE left == most - back
  <2>3. left \in Nat /\ left < most /\ left + 1 \in 1 .. most
    BY <2>1, <2>2
  <2> HIDE DEF most, left
  <2>4. machine' = ring[left + 1] /\ ring' = SubSeq(ring, 1, left)
    BY <2>2 DEF left
  <2>5. ring' \in Seq(Machines) /\ Len(ring') = left /\ \A i \in 1 .. left : ring'[i] = ring[i]
    <3>1. \A i \in 1 .. left : ring[i] \in Machines
      BY <2>1, <2>3 DEF most
    <3>2. /\ SubSeq(ring, 1, left) \in Seq(Machines)
          /\ Len(SubSeq(ring, 1, left)) = IF 1 <= left THEN left - 1 + 1 ELSE 0
          /\ \A i \in 1 .. left - 1 + 1 : SubSeq(ring, 1, left)[i] = ring[1 + i - 1]
      BY <2>3, <3>1, SubSeqProperties
    <3>3. \A n \in Nat : (IF 1 <= n THEN n - 1 + 1 ELSE 0) = n
      OBVIOUS
    <3>4. Len(SubSeq(ring, 1, left)) = left
      BY <2>3, <3>2, <3>3, Zenon
    <3>5. 1 .. left - 1 + 1 = 1 .. left /\ \A i \in 1 .. left : 1 + i - 1 = i
      BY <2>3
    <3> QED
      BY <2>4, <3>2, <3>4, <3>5, Zenon
  <2>6. \A i \in 1 .. left : i \in 1 .. most /\ i < left + 1
    BY <2>1, <2>3
  <2>7. machine' \in Machines /\ machine'.rom = machine.rom
    BY <2>1, <2>3, <2>4 DEF RewindGoesBack, most
  <2>8. \A i \in 1 .. Len(ring') : ring'[i].rom = machine'.rom /\ ring'[i].time < machine'.time
    BY <2>3, <2>4, <2>5, <2>6, <2>7 DEF RewindGoesBack, most
  <2>9. \A i, j \in 1 .. Len(ring') : i < j => ring'[i].time < ring'[j].time
    BY <2>5, <2>6 DEF RewindGoesBack, most
  <2>10. Len(ring') <= MaxRing
    BY <2>1, <2>3, <2>5, RingAssumption
  <2>11. RewindGoesBack'
    BY <2>8, <2>9, <2>10 DEF RewindGoesBack
  <2>12. Shape'
    BY <2>2, <2>5, <2>7, <2>10 DEF Shape
  <2>13. TagMatches'
    BY <2>2, <2>7 DEF TagMatches
  <2> QED
    BY <2>11, <2>12, <2>13
<1>8. CASE UNCHANGED vars
  BY <1>8 DEF vars, Shape, TagMatches, RewindGoesBack
<1> QED
  BY <1>1, <1>2, <1>3, <1>4, <1>5, <1>6, <1>7, <1>8 DEF Next

LEMMA InitShown == Init => Shown
<1>1. 0 \in 0 .. CountMod - 1
  BY CountAssumption
<1> QED
  BY <1>1, Zenon DEF Init, Shown

\* A frame that is shown is the machine's, and the window shows what is shown.
LEMMA NextShown == IInv /\ Shown /\ [Next]_vars => Shown'
<1> SUFFICES ASSUME IInv, Shown, [Next]_vars PROVE Shown'
  OBVIOUS
<1>1. machine.rom \in Roms \cup {NoRom}
  BY MachineFacts DEF IInv, Shape
<1>2. paused' \in BOOLEAN
  BY Zenon DEF Shown, Next, vars, Tick, Render, OpenRom, CloseRom, EjectRom, TogglePause, SaveStateSlot,
        LoadStateSlot, Debug, JumpToFrame, Rewind, Take, Publish
<1>3. screen' \in Roms \cup {NoRom}
  BY DEF Shown, Next, vars, Tick, Render, OpenRom, CloseRom, EjectRom, TogglePause, SaveStateSlot,
        LoadStateSlot, Debug, JumpToFrame, Rewind, Take, Publish
<1>4. slot' \in Roms \cup {NoRom} /\ count' \in 0 .. CountMod - 1
  <2>1. CASE Tick
    <3> PICK n \in 0 .. MaxRunAhead :
          LET after == RunAhead([machine |-> machine, ring |-> ring, count |-> count,
                                 slot |-> slot], n) IN
          /\ count' = after.count
          /\ slot' = after.slot
      BY <2>1 DEF Tick
    <3>1. n \in Nat /\ count \in Nat
      BY RunAheadAssumption, CountAssumption DEF Shown
    <3> QED
      BY <1>1, <3>1, RunAheadFacts DEF IInv, Shape
  <2>2. CASE JumpToFrame
    <3>1. slot' = slot
      BY <2>2 DEF JumpToFrame, Rewind
    <3>2. count' \in 0 .. CountMod - 1
      <4> DEFINE most == Len(ring)
      <4>1. most \in Nat
        BY DEF IInv, Shape
      <4> HIDE DEF most
      <4>2. PICK target \in 0 .. count - 1 :
              count' = count - (IF count - target < most THEN count - target ELSE most)
        BY <2>2 DEF JumpToFrame, Rewind, most
      <4> QED
        BY <4>1, <4>2, CountAssumption DEF Shown
    <3> QED
      BY <3>1, <3>2 DEF Shown
  <2>3. CASE ~(Tick \/ JumpToFrame)
    <3>1. 0 \in 0 .. CountMod - 1
      BY CountAssumption
    <3> QED
      BY <2>3, <3>1, Zenon DEF Shown, Next, vars, Render, OpenRom, CloseRom, EjectRom, TogglePause,
            SaveStateSlot, LoadStateSlot, Debug
  <2> QED
    BY <2>1, <2>2, <2>3
<1> QED
  BY <1>2, <1>3, <1>4, Zenon DEF Shown

\* Every part of the session keeps its type: the ring its size, the machine its
\* bound, the screen and the present slot a ROM that was opened.
THEOREM SessionTypes == Spec => []TypeOK
<1>1. Shape /\ Shown => TypeOK
  BY Zenon DEF Shape, Shown, TypeOK
<1> QED
  BY <1>1, InitIInv, NextIInv, InitShown, NextShown, PTL DEF Spec, IInv

\* The machine under a tag, and the file in a slot, are that ROM's: the rewind
\* and the slots put a state back without checking whose it is
\* (save_state.rs 134-140; emu_thread.rs 108-115).
THEOREM SessionTags == Spec => []TagMatches
BY InitIInv, NextIInv, InitShown, NextShown, PTL DEF Spec, IInv

\* The ring holds this run's past, in order, with any look-ahead
\* (emu_thread.rs 584-592; runahead.rs 57-86).
THEOREM SessionRewind == Spec => []RewindGoesBack
BY InitIInv, NextIInv, InitShown, NextShown, PTL DEF Spec, IInv
------------------------------------------------------------------------------
(* Netplay games.                                                          *)

\* A game's machine could take the place of the core's at any time.
GameBehind ==
  Playing => /\ paused
             /\ game \in Machines
             /\ game.rom = tag
             /\ \A i \in 1 .. Len(ring) : ring[i].time < game.time

NetIInv ==
  /\ meddled \in BOOLEAN
  /\ ~meddled => IInv /\ Shown /\ GameBehind

\* It holds before there is a game.
LEMMA NetInitIInv == NetInit => NetIInv
BY InitIInv, InitShown DEF NetInit, NetIInv, GameBehind, Playing

\* The steps in a game leave the tag and the pause, and at most shorten the ring.
LEMMA AroundKeepsGame ==
  ASSUME IInv, Shown, GameBehind, Around
  PROVE  GameBehind'
<1> SUFFICES ASSUME Playing
             PROVE  GameBehind'
  BY DEF GameBehind, Playing, Around
<1>1. /\ paused /\ game \in Machines /\ game.rom = tag /\ game' = game
      /\ \A i \in 1 .. Len(ring) : ring[i].time < game.time
      /\ ring \in Seq(Machines) /\ count \in 0 .. CountMod - 1
  BY DEF GameBehind, Around, IInv, Shape, Shown
<1>2. CASE SaveStateSlot
  BY <1>1, <1>2 DEF SaveStateSlot, GameBehind, Playing
<1>3. CASE LoadStateSlot
  BY <1>1, <1>3 DEF LoadStateSlot, FreshRing, GameBehind, Playing
<1>4. CASE Debug
  BY <1>1, <1>4 DEF Debug, GameBehind, Playing
<1>5. CASE JumpToFrame
  <2>1. PICK target \in 0 .. count - 1 :
          LET back == IF count - target < Len(ring) THEN count - target ELSE Len(ring) IN
          back > 0 /\ Rewind(back)
    BY <1>5 DEF JumpToFrame
  <2> DEFINE back == IF count - target < Len(ring) THEN count - target ELSE Len(ring)
             n    == Len(ring) - back
  <2>2. ring' = SubSeq(ring, 1, n) /\ n \in 0 .. Len(ring)
    <3>1. count \in Int /\ Len(ring) \in Nat
      BY <1>1, CountAssumption
    <3> QED
      BY <2>1, <3>1 DEF Rewind
  <2> HIDE DEF n
  <2>3. Len(ring') = n /\ \A i \in 1 .. n : ring'[i] = ring[i]
    <3>1. \A i \in 1 .. n : ring[i] \in Machines
      BY <1>1, <2>2
    <3> QED
      BY <2>2, <3>1, SubSeqProperties
  <2> QED
    BY <1>1, <1>5, <2>2, <2>3 DEF JumpToFrame, GameBehind, Playing
<1>6. CASE Tick
  BY <1>1, <1>6 DEF Tick
<1> QED
  BY <1>2, <1>3, <1>4, <1>5, <1>6 DEF Around

\* A frame of the game takes the core's machine to where the game is.
LEMMA GameFrameKeeps ==
  ASSUME IInv, Shown, GameBehind, GameFrame
  PROVE  IInv' /\ GameBehind'
<1>1. /\ paused /\ game \in Machines /\ game.rom = tag
      /\ \A i \in 1 .. Len(ring) : ring[i].time < game.time
      /\ UNCHANGED <<tag, ring, paused, saves>>
      /\ machine' = game'
  BY DEF GameBehind, GameFrame
<1>2. PICK t \in {game.time, FrameEnd(game.time)} :
        t <= FrameEnd(MaxTime) /\ game' = [game EXCEPT !.time = t]
  BY DEF GameFrame
<1>3. game.time \in Nat /\ FrameEnd(game.time) \in Nat /\ game.time < FrameEnd(game.time)
      /\ FrameEnd(MaxTime) \in Nat
  BY <1>1, TimeAssumption, FrameEndLater DEF Machines
<1>4. game' \in Machines /\ game'.rom = tag /\ game'.time = t /\ game.time <= t
  BY <1>1, <1>2, <1>3 DEF Machines
<1>5. \A i \in 1 .. Len(ring) : ring[i].time < game'.time /\ ring[i].rom = tag
  <2> SUFFICES ASSUME NEW i \in 1 .. Len(ring)
               PROVE  ring[i].time < game'.time /\ ring[i].rom = tag
    OBVIOUS
  <2>1. ring[i] \in Machines
    BY DEF IInv, Shape
  <2>2. ring[i].time \in Nat /\ ring[i].time < game.time /\ ring[i].rom = tag
    BY <1>1, <2>1, <1>3, TimeAssumption DEF Machines, IInv, RewindGoesBack, TagMatches
  <2> QED
    BY <2>2, <1>3, <1>4
<1>6. IInv'
  BY <1>1, <1>4, <1>5 DEF IInv, Shape, TagMatches, RewindGoesBack
<1>7. GameBehind'
  BY <1>1, <1>4, <1>5 DEF GameBehind
<1> QED
  BY <1>6, <1>7

\* And every step keeps it, once meddled or not.
LEMMA NetNextIInv == NetIInv /\ [NetNext]_netVars => NetIInv'
<1> SUFFICES ASSUME NetIInv, [NetNext]_netVars
             PROVE  NetIInv'
  OBVIOUS
<1>1. CASE UNCHANGED netVars
  <2>1. IInv /\ Shown => IInv' /\ Shown'
    BY <1>1, NextIInv, NextShown DEF netVars
  <2> QED
    BY <1>1, <2>1 DEF NetIInv, GameBehind, Playing, netVars, vars
<1>2. CASE meddled
  <2>1. meddled'
    BY <1>2 DEF NetNext, netVars, Connect, Disconnect, EndGame, GameFrame, GameFails, GameStalls,
                Around, Meddle, RenderAlone
  <2> QED
    BY <2>1 DEF NetIInv
<1>3. ASSUME ~meddled, NetNext
      PROVE  NetIInv'
  <2>1. IInv /\ Shown /\ GameBehind
    BY <1>3 DEF NetIInv
  <2>2. CASE Connect
    <3>1. IInv' /\ Shown' /\ meddled' = FALSE
      BY <1>3, <2>1, <2>2, Zenon DEF Connect, IInv, Shape, Shown, TagMatches, RewindGoesBack, NetIInv
    <3>2. GameBehind'
      <4>1. /\ paused' /\ game' = machine /\ machine \in Machines /\ machine.rom = tag
            /\ UNCHANGED <<tag, ring>>
        BY <2>1, <2>2 DEF Connect, IInv, Shape, TagMatches
      <4>2. \A i \in 1 .. Len(ring) : ring[i].time < machine.time
        BY <2>1 DEF IInv, RewindGoesBack
      <4> QED
        BY <4>1, <4>2 DEF GameBehind
    <3> QED
      BY <3>1, <3>2 DEF NetIInv
  <2>3. CASE Disconnect \/ GameFails
    <3>1. IInv' /\ Shown' /\ meddled' = FALSE /\ game' = None
      BY <1>3, <2>1, <2>3, Zenon DEF Disconnect, GameFails, EndGame, IInv, Shape, Shown, TagMatches,
                                     RewindGoesBack, NetIInv
    <3> QED
      BY <3>1 DEF NetIInv, GameBehind, Playing
  <2>4. CASE GameFrame
    <3>1. IInv' /\ GameBehind'
      BY <2>1, <2>4, GameFrameKeeps
    <3>2. count' \in 0 .. CountMod - 1
      BY <2>1, <2>4, CountFacts DEF GameFrame, Shown
    <3>3. Shown' /\ meddled' = FALSE
      BY <1>3, <2>1, <2>4, <3>2 DEF GameFrame, Shown, NetIInv
    <3> QED
      BY <3>1, <3>3 DEF NetIInv
  <2>5. CASE GameStalls
    BY <1>1, <2>5 DEF GameStalls
  <2>6. CASE Around
    <3>1. Next /\ meddled' = meddled
      BY <2>6 DEF Around, Next
    <3>2. IInv' /\ Shown'
      BY <2>1, <3>1, NextIInv, NextShown
    <3>3. GameBehind'
      BY <2>1, <2>6, AroundKeepsGame
    <3> QED
      BY <1>3, <3>1, <3>2, <3>3 DEF NetIInv
  <2>7. CASE Meddle
    <3>1. Next /\ meddled' = Playing /\ game' = game
      BY <1>3, <2>7 DEF Meddle, Next, Playing, NetIInv
    <3>2. IInv' /\ Shown'
      BY <2>1, <3>1, NextIInv, NextShown
    <3>3. ~meddled' => GameBehind'
      BY <3>1 DEF GameBehind, Playing
    <3>4. meddled' \in BOOLEAN
      BY <3>1 DEF Playing
    <3> QED
      BY <3>2, <3>3, <3>4 DEF NetIInv
  <2>8. CASE RenderAlone
    <3>1. Next /\ meddled' = meddled /\ game' = game /\ ~Playing
      BY <2>8 DEF RenderAlone, Next
    <3>2. IInv' /\ Shown'
      BY <2>1, <3>1, NextIInv, NextShown
    <3>3. GameBehind'
      BY <3>1 DEF GameBehind, Playing
    <3> QED
      BY <1>3, <3>1, <3>2, <3>3 DEF NetIInv
  <2> QED
    BY <1>3, <2>2, <2>3, <2>4, <2>5, <2>6, <2>7, <2>8 DEF NetNext
<1> QED
  BY <1>1, <1>2, <1>3 DEF NetIInv

\* Games come and go, states are loaded, stepped and jumped to in the middle of
\* one, and the tag is still the machine's and the rewind ring its past, as long
\* as the player leaves the ROM and the pause alone in a game: a game's redraws
\* put only a later machine of the open ROM in the core's place (app.rs 808-826,
\* 1525-1599; emu_thread.rs 108-115).
THEOREM NetgameKeepsSession == NetSpec => [](~meddled => TagMatches /\ RewindGoesBack)
<1>1. NetIInv => (~meddled => TagMatches /\ RewindGoesBack)
  BY DEF NetIInv, IInv
<1> QED
  BY NetInitIInv, NetNextIInv, <1>1, PTL DEF NetSpec
==============================================================================
