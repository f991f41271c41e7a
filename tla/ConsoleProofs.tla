---------------------------- MODULE ConsoleProofs ----------------------------
(***************************************************************************)
(* The safety properties of the console's loop and of the cartridges, for  *)
(* all constants.                                                          *)
(*                                                                         *)
(* Lockstep: ClocksAgree is inductive given the types.  WsyncStall needs   *)
(* that a machine which has not been reset has never run a cycle, and the  *)
(* bound on the instruction count that the frame loop leaves as soon as    *)
(* the count is over its limit.                                            *)
(*                                                                         *)
(* Cartridge: no order of accesses takes a plain board out of its memory,  *)
(* for any set of images, any addresses and bytes a program uses, and      *)
(* every address of the window, where the runs try the ends of the regions *)
(* alone.  The invariant says of each scheme what its hotspots can select  *)
(* (Selects), of each size what detect() has let in (Sized), and of an FE  *)
(* program where it runs and where its call came from (Called).            *)
(***************************************************************************)
EXTENDS Lockstep, Cartridge, WellFoundedInduction, TLAPS

------------------------------------------------------------------------------
(* The loop.                                                               *)


NotResetYet == mode = "off" => wait = NoWait

CountInFrame == mode \in {"loop", "insn"} => instructions <= MaxInstructions

LoopInv == TypeOK /\ ClocksAgree /\ WsyncStall /\ NotResetYet /\ CountInFrame

LEMMA LineFacts == LineClocks \in Nat /\ LineClocks >= 6
BY LineAssumption DEF LineClocks

\* One color clock keeps the beam a beam, moves it by one, and releases RDY
\* exactly when it wraps (tia lib.rs 401-416).
LEMMA TickColorClockFacts ==
  ASSUME NEW b \in Beams
  PROVE  /\ TickColorClock(b) \in Beams
         /\ TickColorClock(b).clock =
              IF b.clock + 1 >= LineClocks THEN 0 ELSE b.clock + 1
         /\ TickColorClock(b).rdy <=> b.rdy /\ b.clock + 1 < LineClocks
         /\ TickColorClock(b).paddle = AddClocks(b.paddle, 1)
<1>1. AddClocks(b.paddle, 1) \in 0 .. ClockMod - 1
  BY ClockAssumption DEF AddClocks, Beams
<1>2. NextScanline(b.line) \in 0 .. ScanlineMod - 1
  BY ScanlineAssumption DEF NextScanline, Beams
<1>3. CASE b.clock + 1 >= LineClocks
  <2>1. TickColorClock(b) = [clock |-> 0, line |-> NextScanline(b.line), rdy |-> FALSE,
                             vsync |-> b.vsync, paddle |-> AddClocks(b.paddle, 1)]
    BY <1>3 DEF TickColorClock, Beams
  <2> QED
    BY <1>1, <1>2, <1>3, <2>1, LineFacts DEF Beams
<1>4. CASE ~(b.clock + 1 >= LineClocks)
  <2>1. TickColorClock(b) = [clock |-> b.clock + 1, line |-> b.line, rdy |-> b.rdy,
                             vsync |-> b.vsync, paddle |-> AddClocks(b.paddle, 1)]
    BY <1>4 DEF TickColorClock, Beams
  <2> QED
    BY <1>1, <1>4, <2>1, LineFacts DEF Beams
<1> QED
  BY <1>3, <1>4

\* One CPU cycle is three color clocks, of the beam and of its own counter
\* (scheduler.rs 61-70).
LEMMA TickCycleFacts ==
  ASSUME NEW b \in Beams
  PROVE  /\ TickCycle(b) \in Beams
         /\ TickCycle(b).clock = IF b.clock + 3 >= LineClocks
                                 THEN b.clock + 3 - LineClocks ELSE b.clock + 3
         /\ TickCycle(b).rdy <=> b.rdy /\ b.clock + 3 < LineClocks
         /\ TickCycle(b).paddle = AddClocks(b.paddle, 3)
<1> DEFINE c == TickColorClock(b)
           d == TickColorClock(c)
           e == TickColorClock(d)
<1>1. b.clock \in 0 .. LineClocks - 1 /\ b.paddle \in 0 .. ClockMod - 1
  BY DEF Beams
<1>2. /\ c \in Beams
      /\ c.clock = IF b.clock + 1 >= LineClocks THEN 0 ELSE b.clock + 1
      /\ c.rdy <=> b.rdy /\ b.clock + 1 < LineClocks
      /\ c.paddle = AddClocks(b.paddle, 1)
  BY TickColorClockFacts
<1>3. /\ d \in Beams
      /\ d.clock = IF c.clock + 1 >= LineClocks THEN 0 ELSE c.clock + 1
      /\ d.rdy <=> c.rdy /\ c.clock + 1 < LineClocks
      /\ d.paddle = AddClocks(c.paddle, 1)
  BY <1>2, TickColorClockFacts
<1>4. /\ e \in Beams
      /\ e.clock = IF d.clock + 1 >= LineClocks THEN 0 ELSE d.clock + 1
      /\ e.rdy <=> d.rdy /\ d.clock + 1 < LineClocks
      /\ e.paddle = AddClocks(d.paddle, 1)
  BY <1>3, TickColorClockFacts
<1> HIDE DEF c, d, e
<1>5. e.clock = IF b.clock + 3 >= LineClocks
                THEN b.clock + 3 - LineClocks ELSE b.clock + 3
  BY <1>1, <1>2, <1>3, <1>4, LineFacts
<1>6. e.rdy <=> b.rdy /\ b.clock + 3 < LineClocks
  BY <1>1, <1>2, <1>3, <1>4, LineFacts
<1>7. e.paddle = AddClocks(b.paddle, 3)
  BY <1>1, <1>2, <1>3, <1>4, ClockAssumption DEF AddClocks
<1> QED
  BY <1>4, <1>5, <1>6, <1>7 DEF TickCycle, c, d, e

\* A register write keeps the beam a beam and leaves its clock counter alone
\* (tia lib.rs 240-278).
LEMMA WriteRegisterFacts ==
  ASSUME NEW b \in Beams, NEW a \in Accesses
  PROVE  /\ WriteRegister(b, a) \in Beams
         /\ WriteRegister(b, a).paddle = b.paddle
         /\ a = "WSYNC" => /\ WriteRegister(b, a).clock = b.clock
                           /\ WriteRegister(b, a).rdy <=> b.rdy \/ b.clock # 0
         /\ a # "WSYNC" => (WriteRegister(b, a).rdy <=> b.rdy)
<1>1. CASE a = "WSYNC"
  BY <1>1, LineFacts DEF WriteRegister, Beams
<1>2. CASE a = "RSYNC"
  BY <1>2, LineFacts DEF WriteRegister, Beams
<1>3. CASE a = "VSYNC on"
  BY <1>3 DEF WriteRegister, Beams
<1>4. CASE a = "VSYNC off"
  <2> DEFINE l == IF b.vsync THEN 0 ELSE b.line
  <2>1. l \in 0 .. ScanlineMod - 1
    BY ScanlineAssumption DEF Beams
  <2>2. WriteRegister(b, a) = [clock |-> b.clock, line |-> l, rdy |-> b.rdy,
                               vsync |-> FALSE, paddle |-> b.paddle]
    BY <1>4 DEF WriteRegister, Beams
  <2>3. WriteRegister(b, a) \in Beams
    BY <2>1, <2>2 DEF Beams
  <2>4. WriteRegister(b, a).rdy = b.rdy /\ WriteRegister(b, a).paddle = b.paddle
    BY <2>2
  <2> QED
    BY <1>4, <2>3, <2>4
<1>5. CASE a = "other"
  BY <1>5 DEF WriteRegister, Beams
<1> QED
  BY <1>1, <1>2, <1>3, <1>4, <1>5 DEF Accesses

LEMMA InitLoopInv == Init => LoopInv
<1> SUFFICES ASSUME Init PROVE LoopInv
  OBVIOUS
<1>1. beam \in Beams
  BY LineFacts, ScanlineAssumption, ClockAssumption DEF Init, Beams
<1>2. wait \in [clock : -1 .. LineClocks - 1, ticks : Nat]
  BY LineFacts DEF Init, NoWait
<1>3. 0 \in 0 .. ClockMod - 1 /\ 0 \in 0 .. MaxInstructions + 1
  BY ClockAssumption, InstructionAssumption
<1>4. TypeOK
  BY <1>1, <1>2, <1>3 DEF Init, TypeOK, Modes
<1>5. ClocksAgree /\ WsyncStall /\ NotResetYet /\ CountInFrame
  BY DEF Init, ClocksAgree, WsyncStall, NotResetYet, CountInFrame
<1> QED
  BY <1>4, <1>5 DEF LoopInv

LEMMA NextLoopInv == LoopInv /\ [Next]_vars => LoopInv'
<1> SUFFICES ASSUME LoopInv, [Next]_vars PROVE LoopInv'
  OBVIOUS
<1> USE DEF LoopInv
<1>0. /\ beam \in Beams /\ colorClocks \in 0 .. ClockMod - 1
      /\ beam.clock \in 0 .. LineClocks - 1 /\ beam.paddle = colorClocks
      /\ NoWait \in [clock : -1 .. LineClocks - 1, ticks : Nat]
  BY LineFacts DEF TypeOK, Beams, ClocksAgree, NoWait
<1>1. CASE Reset
  <2>1. beam' \in Beams /\ beam'.paddle = AddClocks(beam.paddle, phase) /\ ~beam'.rdy
    <3>1. ~beam.rdy
      BY <1>1 DEF Reset, WsyncStall, NotResetYet
    <3>2. CASE phase = 0
      BY <3>1, <3>2, <1>0, <1>1, ClockAssumption DEF Reset, AddClocks
    <3>3. CASE phase = 1
      BY <3>1, <3>3, <1>0, <1>1, TickColorClockFacts DEF Reset
    <3>4. CASE phase = 2
      <4> DEFINE c == TickColorClock(beam)
                 d == TickColorClock(c)
      <4>1. c \in Beams /\ ~c.rdy /\ c.paddle = AddClocks(beam.paddle, 1)
        BY <3>1, <1>0, TickColorClockFacts
      <4>2. d \in Beams /\ ~d.rdy /\ d.paddle = AddClocks(c.paddle, 1)
        BY <4>1, TickColorClockFacts
      <4>3. beam' = d
        BY <3>4, <1>1 DEF Reset
      <4> HIDE DEF c, d
      <4>4. d.paddle = AddClocks(beam.paddle, 2)
        BY <4>1, <4>2, <1>0, ClockAssumption DEF AddClocks
      <4> QED
        BY <3>4, <4>2, <4>3, <4>4
    <3> QED
      BY <3>2, <3>3, <3>4 DEF TypeOK, Phases
  <2>2. TypeOK'
    <3>1. AddClocks(colorClocks, phase) \in 0 .. ClockMod - 1
      BY <1>0, ClockAssumption DEF AddClocks, TypeOK, Phases
    <3> QED
      BY <2>1, <3>1, <1>1 DEF Reset, TypeOK, Modes, loopVars
  <2>3. ClocksAgree'
    BY <2>1, <1>0, <1>1 DEF Reset, ClocksAgree
  <2>4. WsyncStall' /\ NotResetYet' /\ CountInFrame'
    BY <2>1, <1>1 DEF Reset, WsyncStall, Run, NotResetYet, CountInFrame
  <2> QED
    BY <2>2, <2>3, <2>4
<1>2. CASE StallCycle
  <2>1. wait # NoWait
    BY <1>2 DEF StallCycle, WsyncStall
  <2>2. /\ TickCycle(beam) \in Beams
        /\ TickCycle(beam).clock = IF beam.clock + 3 >= LineClocks
                                   THEN beam.clock + 3 - LineClocks ELSE beam.clock + 3
        /\ TickCycle(beam).rdy <=> beam.rdy /\ beam.clock + 3 < LineClocks
        /\ TickCycle(beam).paddle = AddClocks(beam.paddle, 3)
    BY <1>0, TickCycleFacts
  <2>3. TypeOK'
    <3>1. AddClocks(colorClocks, 3) \in 0 .. ClockMod - 1
      BY <1>0, ClockAssumption DEF AddClocks
    <3>2. wait' \in [clock : -1 .. LineClocks - 1, ticks : Nat]
      BY <1>2 DEF StallCycle, TypeOK
    <3> QED
      BY <2>2, <3>1, <3>2, <1>2 DEF StallCycle, TypeOK, loopVars
  <2>4. ClocksAgree'
    BY <2>2, <1>0, <1>2 DEF StallCycle, ClocksAgree
  <2>5. WsyncStall'
    <3>1. wait'.clock = wait.clock /\ wait'.ticks = wait.ticks + 1
      BY <1>2 DEF StallCycle, TypeOK
    <3>2. wait' # NoWait
      BY <3>1, <1>2 DEF NoWait, TypeOK
    <3>3. /\ beam.clock = wait.clock + 3 * wait.ticks
          /\ wait.clock # 0 /\ beam.rdy
          /\ wait.clock \in Int /\ wait.ticks \in Nat
      BY <2>1, <1>2, LineFacts DEF StallCycle, WsyncStall, Run, TypeOK
    <3>4. beam' = TickCycle(beam)
      BY <1>2 DEF StallCycle
    <3>5. Run' = beam.clock + 3
      BY <3>1, <3>3 DEF Run
    <3>6. wait'.clock # 0 /\ Run' < LineClocks + 3
      BY <3>1, <3>3, <3>5, <1>0, LineFacts
    <3>7. beam'.rdy <=> Run' < LineClocks
      BY <2>2, <3>3, <3>4, <3>5
    <3>8. beam'.clock = IF Run' < LineClocks THEN Run' ELSE Run' - LineClocks
      BY <2>2, <3>4, <3>5, <1>0, LineFacts
    <3> QED
      BY <3>2, <3>6, <3>7, <3>8, Zenon DEF WsyncStall
  <2>6. NotResetYet' /\ CountInFrame'
    BY <1>2 DEF StallCycle, Executing, NotResetYet, CountInFrame, loopVars
  <2> QED
    BY <2>3, <2>4, <2>5, <2>6
<1>3. CASE Cycle
  <2> PICK a \in Accesses :
        /\ beam' = WriteRegister(TickCycle(beam), a)
        /\ wait' = IF a = "WSYNC"
                   THEN [clock |-> TickCycle(beam).clock, ticks |-> 0]
                   ELSE NoWait
    BY <1>3 DEF Cycle, Accesses
  <2> DEFINE t == TickCycle(beam)
  <2>1. /\ t \in Beams /\ t.clock \in 0 .. LineClocks - 1
        /\ ~t.rdy
        /\ t.paddle = AddClocks(beam.paddle, 3)
    BY <1>0, <1>3, TickCycleFacts DEF Cycle, Beams
  <2>2. beam' = WriteRegister(t, a)
    OBVIOUS
  <2> HIDE DEF t
  <2>3. /\ beam' \in Beams
        /\ beam'.paddle = t.paddle
        /\ a = "WSYNC" => beam'.clock = t.clock /\ (beam'.rdy <=> t.clock # 0)
        /\ a # "WSYNC" => ~beam'.rdy
    BY <2>1, <2>2, WriteRegisterFacts
  <2>4. wait' = IF a = "WSYNC" THEN [clock |-> t.clock, ticks |-> 0] ELSE NoWait
    BY DEF t
  <2>5. TypeOK'
    <3>1. AddClocks(colorClocks, 3) \in 0 .. ClockMod - 1
      BY <1>0, ClockAssumption DEF AddClocks
    <3>2. wait' \in [clock : -1 .. LineClocks - 1, ticks : Nat]
      BY <2>1, <2>4, <1>0
    <3>3. emitted' \in Nat
      BY <1>3 DEF Cycle, TypeOK
    <3>4. /\ colorClocks' = AddClocks(colorClocks, 3) /\ spinning' = FALSE
          /\ UNCHANGED <<phase, mode, jammed, oldVsync, instructions>>
      BY <1>3 DEF Cycle, loopVars
    <3> QED
      BY <2>3, <3>1, <3>2, <3>3, <3>4 DEF TypeOK
  <2>6. ClocksAgree'
    BY <2>1, <2>3, <1>0, <1>3 DEF Cycle, ClocksAgree
  <2>7. WsyncStall'
    <3>1. CASE a = "WSYNC"
      <4>1. wait'.clock = t.clock /\ wait'.ticks = 0 /\ wait' # NoWait
        BY <3>1, <2>1, <2>4 DEF NoWait
      <4> QED
        BY <4>1, <3>1, <2>1, <2>3, LineFacts DEF WsyncStall, Run
    <3>2. CASE a # "WSYNC"
      BY <3>2, <2>3, <2>4 DEF WsyncStall
    <3> QED
      BY <3>1, <3>2
  <2>8. NotResetYet' /\ CountInFrame'
    BY <1>3 DEF Cycle, Executing, NotResetYet, CountInFrame, loopVars
  <2> QED
    BY <2>5, <2>6, <2>7, <2>8
<1>4. CASE EndReset
  BY <1>4 DEF EndReset, TypeOK, Modes, ClocksAgree, WsyncStall, Run, NotResetYet,
              CountInFrame, loopVars
<1>5. CASE BeginFrame
  <2>1. TypeOK'
    <3>1. beam.vsync \in BOOLEAN
      BY <1>0 DEF Beams
    <3> QED
      BY <3>1, <1>5, InstructionAssumption DEF BeginFrame, TypeOK, Modes
  <2>2. ClocksAgree' /\ WsyncStall' /\ NotResetYet' /\ CountInFrame'
    BY <1>5, InstructionAssumption
       DEF BeginFrame, ClocksAgree, WsyncStall, Run, NotResetYet, CountInFrame
  <2> QED
    BY <2>1, <2>2
<1>6. CASE BeginInstruction
  BY <1>6 DEF BeginInstruction, TypeOK, Modes, ClocksAgree, WsyncStall, Run, NotResetYet,
              CountInFrame, loopVars
<1>7. CASE EndInstruction \/ JammedStep
  <2>1. /\ mode \in {"loop", "insn"} /\ AfterInstruction
        /\ UNCHANGED <<beam, colorClocks, phase, emitted, spinning, jammed, wait>>
    BY <1>7 DEF EndInstruction, JammedStep
  <2>2. instructions \in Nat /\ instructions <= MaxInstructions
    BY <2>1 DEF CountInFrame, TypeOK
  <2>3. instructions' \in 0 .. MaxInstructions + 1 /\ CountInFrame'
    BY <2>1, <2>2, InstructionAssumption DEF AfterInstruction, FrameOver, CountInFrame
  <2>4. mode' \in Modes /\ mode' # "off" /\ oldVsync' \in BOOLEAN
    <3>1. beam.vsync \in BOOLEAN /\ oldVsync \in BOOLEAN
      BY <1>0 DEF Beams, TypeOK
    <3> QED
      BY <3>1, <2>1 DEF AfterInstruction, Modes
  <2>5. TypeOK'
    BY <2>1, <2>3, <2>4 DEF TypeOK
  <2>6. ClocksAgree' /\ WsyncStall' /\ NotResetYet'
    BY <2>1, <2>4 DEF ClocksAgree, WsyncStall, Run, NotResetYet
  <2> QED
    BY <2>3, <2>5, <2>6
<1>8. CASE UNCHANGED vars
  BY <1>8 DEF vars, cpuVars, loopVars, TypeOK, ClocksAgree, WsyncStall, Run, NotResetYet,
              CountInFrame
<1> QED
  BY <1>1, <1>2, <1>3, <1>4, <1>5, <1>6, <1>7, <1>8 DEF Next

\* The state keeps its shape: the beam never leaves its line, the frame loop
\* never runs more than one instruction past its limit.
THEOREM LockstepTypes == Spec => []TypeOK
<1>1. LoopInv => TypeOK
  BY DEF LoopInv
<1> QED
  BY <1>1, InitLoopInv, NextLoopInv, PTL DEF Spec

\* The two color-clock counters are equal after every cycle of any program,
\* through stalls, resets of the beam and the counters' own wrap-around.
THEOREM LockstepClocks == Spec => []ClocksAgree
<1>1. LoopInv => ClocksAgree
  BY DEF LoopInv
<1> QED
  BY <1>1, InitLoopInv, NextLoopInv, PTL DEF Spec

\* WSYNC costs a program the rest of its line, to the clock, and a phantom
\* line never: whatever the line length, the power-on phase and the program.
THEOREM LockstepWsync == Spec => []WsyncStall
<1>1. LoopInv => WsyncStall
  BY DEF LoopInv
<1> QED
  BY <1>1, InitLoopInv, NextLoopInv, PTL DEF Spec

------------------------------------------------------------------------------
(* The boards.                                                             *)


Offsets == 0 .. 4 * K - 1
ByteValues == 0 .. 255

Count(kind) == Runs[Scheme(kind)].count
LowSlices == {slice \in [rom : BOOLEAN, n : Nat] : slice.n < IF slice.rom THEN 32 ELSE 16}
HighSlices == {slice \in [rom : BOOLEAN, n : Nat] : slice.n < IF slice.rom THEN 256 ELSE 128}

\* How many banks the image has.
Sized(b) ==
  /\ HasRun(b.kind) => b.banks = Count(b.kind)
  /\ b.kind = "4K" => b.banks = 1
  /\ b.kind \in {"E0", "UA", "0840", "FE"} => b.banks = 2
  /\ b.kind = "E7" => b.banks = 4
  /\ b.kind \in {"F0", "X07"} => b.banks = 16
  /\ b.kind \in {"3F", "3E"} => b.banks \in 1 .. 128
  /\ b.kind = "SB" => b.banks \in {32, 64}

\* What the hotspots can select.
Selects(b, sel) ==
  /\ HasRun(b.kind) => sel \in [1 .. 1 -> 0 .. Count(b.kind) - 1]
  /\ b.kind \in {"2K", "4K", "CV"} => sel \in [1 .. 1 -> {0}]
  /\ b.kind \in {"UA", "0840"} => sel \in [1 .. 1 -> 0 .. 1]
  /\ b.kind \in {"F0", "X07"} => sel \in [1 .. 1 -> 0 .. 15]
  /\ b.kind \in {"3F", "SB"} => sel \in [1 .. 1 -> 0 .. b.banks - 1]
  /\ b.kind = "FE" => sel \in [1 .. 2 -> 0 .. 1]
  /\ b.kind = "E7" => sel \in [1 .. 2 -> 0 .. 7] /\ sel[2] \in 0 .. 3
  /\ b.kind = "E0" => sel \in [1 .. 3 -> 0 .. 7]
  /\ b.kind = "3E" => /\ sel \in [1 .. 2 -> Int]
                      /\ sel[1] \in 0 .. b.banks - 1 /\ sel[2] \in NoRamBank .. RamBanks - 1
  /\ b.kind = "4A50" => sel \in [low : LowSlices, middle : LowSlices, high : HighSlices,
                                 armed : BOOLEAN]

IsBoard(b) == b = [kind |-> b.kind, banks |-> b.banks, sel |-> b.sel, ram |-> b.ram]

\* Its memory keeps to its size and to bytes.
Stores(b) ==
  /\ DOMAIN b.ram \subseteq 0 .. RamSize(b) - 1
  /\ b.ram \in [DOMAIN b.ram -> ByteValues]

Sound(b) == IsBoard(b) /\ b.kind \in Plain /\ Sized(b) /\ Selects(b, b.sel) /\ Stores(b)

------------------------------------------------------------------------------
(* The schemes.                                                            *)

LEMMA Kilo == K = 1024
BY DEF K

LEMMA ByteFacts == \A v : v \in ByteValues <=> v \in Nat /\ v < 256
<1> DEFINE top == 255
<1>1. top \in Int /\ top + 1 = 256
  OBVIOUS
<1>2. ByteValues = 0 .. top
  BY DEF ByteValues
<1> HIDE DEF top
<1> QED
  BY <1>1, <1>2

LEMMA ValuesAreBytes == Values \subseteq ByteValues
BY CartridgeAssumption, Zenon DEF ByteValues

\* Which schemes have a run of hotspots, and Superchip RAM.
LEMMA Schemes ==
  ASSUME NEW kind
  PROVE  /\ HasSuperchip(kind) <=>
              kind \in {"F8SC", "F6SC", "F4SC", "EFSC", "DFSC", "BFSC"}
         /\ HasRun(kind) <=>
              kind \in {"F8", "F6", "F4", "FA", "EF", "DF", "BF",
                        "F8SC", "F6SC", "F4SC", "EFSC", "DFSC", "BFSC"}
         /\ kind \in {"F8", "F8SC"} => Runs[Scheme(kind)] = F8
         /\ kind \in {"F6", "F6SC"} => Runs[Scheme(kind)] = F6
         /\ kind \in {"F4", "F4SC"} => Runs[Scheme(kind)] = F4
         /\ kind = "FA" => Runs[Scheme(kind)] = FA
         /\ kind \in {"EF", "EFSC"} => Runs[Scheme(kind)] = EF
         /\ kind \in {"DF", "DFSC"} => Runs[Scheme(kind)] = DF
         /\ kind \in {"BF", "BFSC"} => Runs[Scheme(kind)] = BF
BY DEF HasSuperchip, HasRun, Scheme, Superchips, Runs

\* How long the runs are, and where they start.
LEMMA RunLengths ==
  ASSUME NEW kind, HasRun(kind)
  PROVE  /\ Count(kind) \in {2, 3, 4, 8, 16, 32, 64}
         /\ Runs[Scheme(kind)].start \in 0 .. Count(kind) - 1
         /\ Runs[Scheme(kind)].base \in Nat
BY Schemes DEF Count, F8, F6, F4, FA, EF, DF, BF

\* A plain board's scheme is one of these.
LEMMA PlainKinds ==
  ASSUME NEW kind \in Plain
  PROVE  \/ HasRun(kind)
         \/ kind \in {"2K", "4K", "CV"}
         \/ kind \in {"UA", "0840", "F0", "X07", "SB"}
         \/ kind \in {"FE", "E7", "E0", "3F", "3E", "4A50"}
BY Schemes DEF Plain, Superchips

------------------------------------------------------------------------------
(* The places of the window.                                               *)

\* A place in a board's memory, or none.
Inside(b, p) ==
  \/ \E i \in Nat : i < RomSize(b) /\ p = Rom(i)
  \/ \E i \in Nat : i < RamSize(b) /\ p = Ram(i)
  \/ p = Nothing

\* What is read at every address of the window is inside the board's memory.
LEMMA ReadInside ==
  ASSUME NEW b, Sound(b), NEW a \in Offsets
  PROVE  Inside(b, ReadPlace(b, a))
<1> DEFINE k == b.kind
           p == ReadPlace(b, a)
           sel == b.sel
<1>1. k \in Plain /\ Sized(b) /\ Selects(b, b.sel)
  BY DEF Sound
<1>2. a \in Int /\ 0 <= a /\ a < 4096
  BY Kilo DEF Offsets
<1>a. ASSUME NEW i \in Nat, p = Rom(i), i < RomSize(b)
      PROVE  Inside(b, p)
  BY <1>a DEF Inside
<1>b. ASSUME NEW i \in Nat, p = Ram(i), i < RamSize(b)
      PROVE  Inside(b, p)
  BY <1>b DEF Inside
<1> HIDE DEF k, sel
<1>3. CASE HasRun(k)
  <2>1. k \notin {"2K", "4K", "CV", "E7", "E0", "3F", "3E", "4A50"} /\ k \notin {"SB"}
    BY <1>3, Schemes
  <2>2. sel[1] \in 0 .. b.banks - 1 /\ b.banks \in Nat
    BY <1>1, <1>3, RunLengths DEF Sized, Selects, k, sel
  <2>3. CASE HasSuperchip(k) /\ a \in \h80 .. \hFF
    <3>1. p = Ram(a % 128) /\ RamSize(b) = 128
      BY <2>1, <2>3, Schemes DEF ReadPlace, RamSize, k
    <3> QED
      BY <1>2, <1>b, <3>1
  <2>4. CASE k = "FA" /\ a \in \h100 .. \h1FF
    <3>1. p = Ram(a % 256) /\ RamSize(b) = 256
      BY <2>1, <2>4, Schemes DEF ReadPlace, RamSize, k
    <3> QED
      BY <1>2, <1>b, <3>1
  <2>5. CASE ~ (HasSuperchip(k) /\ a \in \h80 .. \hFF) /\ ~ (k = "FA" /\ a \in \h100 .. \h1FF)
    <3>1. p = Rom(sel[1] * 4 * K + a) /\ RomSize(b) = b.banks * 4 * K
      BY <2>1, <2>5, Schemes DEF ReadPlace, RomSize, k, sel
    <3>2. sel[1] * 4 * K + a \in Nat /\ sel[1] * 4 * K + a < b.banks * 4 * K
      BY <1>2, <2>2, Kilo
    <3> QED
      BY <1>a, <3>1, <3>2
  <2> QED
    BY <2>3, <2>4, <2>5
<1>4. CASE k = "2K"
  <2>1. p = Rom(a % (2 * K)) /\ RomSize(b) = 2 * K
    BY <1>4, Schemes DEF ReadPlace, RomSize, k
  <2>2. a % (2 * K) \in Nat /\ a % (2 * K) < 2 * K
    BY <1>2, Kilo
  <2> QED
    BY <1>a, <2>1, <2>2
<1>5. CASE k = "4K"
  <2>1. p = Rom(a) /\ RomSize(b) = b.banks * 4 * K /\ b.banks = 1
    BY <1>1, <1>5, Schemes DEF ReadPlace, RomSize, Sized, k
  <2>2. a \in Nat /\ a < 1 * 4 * K
    BY <1>2, Kilo
  <2> QED
    BY <1>a, <2>1, <2>2
<1>6. CASE k = "CV"
  <2>1. p = ReadPlaceCV(a) /\ RomSize(b) = 2 * K /\ RamSize(b) = K
    BY <1>6, Schemes DEF ReadPlace, RomSize, RamSize, k
  <2>2. CASE a < K
    <3>1. p = Ram(a) /\ a \in Nat /\ a < K
      BY <1>2, <2>1, <2>2, Kilo DEF ReadPlaceCV
    <3> QED
      BY <1>b, <2>1, <3>1
  <2>3. CASE a \in K .. 2 * K - 1
    <3>1. p = Nothing
      BY <1>2, <2>1, <2>3, Kilo DEF ReadPlaceCV
    <3> QED
      BY <3>1 DEF Inside
  <2>4. CASE a >= 2 * K
    <3>1. p = Rom(a - 2 * K) /\ a - 2 * K \in Nat /\ a - 2 * K < 2 * K
      BY <1>2, <2>1, <2>4, Kilo DEF ReadPlaceCV
    <3> QED
      BY <1>a, <2>1, <3>1
  <2> QED
    BY <1>2, <2>2, <2>3, <2>4, Kilo
<1>7. CASE k \in {"UA", "0840", "F0", "X07", "SB", "FE"}
  <2>1. p = Rom(sel[1] * 4 * K + a) /\ RomSize(b) = b.banks * 4 * K
    BY <1>7, Schemes DEF ReadPlace, RomSize, k, sel
  <2>2. sel[1] \in 0 .. b.banks - 1 /\ b.banks \in Nat
    BY <1>1, <1>7 DEF Sized, Selects, k, sel
  <2>3. sel[1] * 4 * K + a \in Nat /\ sel[1] * 4 * K + a < b.banks * 4 * K
    BY <1>2, <2>2, Kilo
  <2> QED
    BY <1>a, <2>1, <2>3
<1>8. CASE k = "E7"
  <2>1. sel[1] \in 0 .. 7 /\ sel[2] \in 0 .. 3 /\ b.banks = 4
    BY <1>1, <1>8 DEF Sized, Selects, k, sel
  <2>2. p = ReadPlaceE7(sel, a) /\ RomSize(b) = 16 * K /\ RamSize(b) = 2 * K
    BY <1>8, <2>1, Schemes, Kilo DEF ReadPlace, RomSize, RamSize, k, sel
  <2>3. CASE a < 2 * K /\ sel[1] = 7
    <3>1. p = Ram(a % K) /\ a % K \in Nat /\ a % K < 2 * K
      BY <1>2, <2>2, <2>3, Kilo DEF ReadPlaceE7
    <3> QED
      BY <1>b, <2>2, <3>1
  <2>4. CASE a < 2 * K /\ sel[1] # 7
    <3>1. p = Rom(sel[1] * 2 * K + a) /\ sel[1] * 2 * K + a \in Nat /\ sel[1] * 2 * K + a < 16 * K
      BY <1>2, <2>1, <2>2, <2>4, Kilo DEF ReadPlaceE7
    <3> QED
      BY <1>a, <2>2, <3>1
  <2>5. CASE a \in 2 * K .. \h9FF
    <3>1. /\ p = Ram(K + sel[2] * 256 + (a % 256))
          /\ K + sel[2] * 256 + (a % 256) \in Nat
          /\ K + sel[2] * 256 + (a % 256) < 2 * K
      BY <1>2, <2>1, <2>2, <2>5, Kilo DEF ReadPlaceE7
    <3> QED
      BY <1>b, <2>2, <3>1
  <2>6. CASE a > \h9FF
    <3>1. /\ p = Rom(7 * 2 * K + (a % (2 * K)))
          /\ 7 * 2 * K + (a % (2 * K)) \in Nat
          /\ 7 * 2 * K + (a % (2 * K)) < 16 * K
      BY <1>2, <2>2, <2>6, Kilo DEF ReadPlaceE7
    <3> QED
      BY <1>a, <2>2, <3>1
  <2> QED
    BY <1>2, <2>1, <2>3, <2>4, <2>5, <2>6, Kilo
<1>9. CASE k = "E0"
  <2>1. sel \in [1 .. 3 -> 0 .. 7] /\ b.banks = 2
    BY <1>1, <1>9 DEF Sized, Selects, k, sel
  <2> DEFINE s == E0Slice(sel, a)
  <2>2. p = Rom(s * K + (a % K)) /\ RomSize(b) = 8 * K
    BY <1>9, <2>1, Schemes, Kilo DEF ReadPlace, RomSize, k, sel
  <2>3. s \in 0 .. 7
    BY <1>2, <2>1, Kilo DEF E0Slice
  <2> HIDE DEF s
  <2>4. s * K + (a % K) \in Nat /\ s * K + (a % K) < 8 * K
    BY <1>2, <2>3, Kilo
  <2> QED
    BY <1>a, <2>2, <2>4
<1>10. CASE k \in {"3F", "3E"}
  <2>1. /\ sel[1] \in 0 .. b.banks - 1 /\ b.banks \in 1 .. 128
        /\ k = "3E" => sel[2] \in -1 .. 31
    BY <1>1, <1>10 DEF Sized, Selects, NoRamBank, RamBanks, k, sel
  <2>2. /\ p = ReadPlaceTigervision(b, a) /\ RomSize(b) = b.banks * 2 * K
        /\ k = "3E" => RamSize(b) = 32 * K
    BY <1>10, Schemes DEF ReadPlace, RomSize, RamSize, RamBanks, k
  <2>3. CASE a >= 2 * K
    <3>1. /\ p = Rom((b.banks - 1) * 2 * K + (a % (2 * K)))
          /\ (b.banks - 1) * 2 * K + (a % (2 * K)) \in Nat
          /\ (b.banks - 1) * 2 * K + (a % (2 * K)) < b.banks * 2 * K
      BY <1>2, <2>1, <2>2, <2>3, Kilo DEF ReadPlaceTigervision
    <3> QED
      BY <1>a, <2>2, <3>1
  <2>4. CASE a < 2 * K /\ k = "3E" /\ sel[2] # NoRamBank
    <3>1. /\ p = Ram(sel[2] * K + (a % K))
          /\ sel[2] * K + (a % K) \in Nat
          /\ sel[2] * K + (a % K) < 32 * K
      BY <1>2, <2>1, <2>2, <2>4, Kilo DEF ReadPlaceTigervision, NoRamBank, k, sel
    <3> QED
      BY <1>b, <2>2, <2>4, <3>1
  <2>5. CASE a < 2 * K /\ ~ (k = "3E" /\ sel[2] # NoRamBank)
    <3>1. /\ p = Rom(sel[1] * 2 * K + a)
          /\ sel[1] * 2 * K + a \in Nat
          /\ sel[1] * 2 * K + a < b.banks * 2 * K
      BY <1>2, <2>1, <2>2, <2>5, Kilo DEF ReadPlaceTigervision, k, sel
    <3> QED
      BY <1>a, <2>2, <3>1
  <2> QED
    BY <1>2, <2>3, <2>4, <2>5, Kilo
<1>11. CASE k = "4A50"
  <2>1. sel.low \in LowSlices /\ sel.middle \in LowSlices /\ sel.high \in HighSlices
    BY <1>1, <1>11 DEF Selects, k, sel
  <2>2. p = Place4A50(sel, a) /\ RomSize(b) = 128 * K /\ RamSize(b) = 32 * K
    BY <1>11, Schemes DEF ReadPlace, RomSize, RamSize, k, sel
  <2>3. ASSUME NEW slice, NEW unit \in Nat, NEW upper \in Nat, NEW i \in Nat,
               p = At(Base(slice, unit, upper), i)
        PROVE  p = IF slice.rom THEN Rom(slice.n * unit + upper + i) ELSE Ram(slice.n * unit + i)
    BY <2>3 DEF At, Base, Rom, Ram
  <2>4. /\ \A slice \in LowSlices : slice.n \in Nat /\ slice.n < IF slice.rom THEN 32 ELSE 16
        /\ \A slice \in HighSlices : slice.n \in Nat /\ slice.n < IF slice.rom THEN 256 ELSE 128
    BY DEF LowSlices, HighSlices
  <2>5. CASE a < 2 * K
    <3>1. p = At(Base(sel.low, 2 * K, 0), a)
      BY <1>2, <2>2, <2>5, Kilo DEF Place4A50
    <3>2. p = IF sel.low.rom THEN Rom(sel.low.n * (2 * K) + 0 + a) ELSE Ram(sel.low.n * (2 * K) + a)
      BY <1>2, <2>3, <3>1, Kilo
    <3>3. IF sel.low.rom THEN /\ sel.low.n * (2 * K) + 0 + a \in Nat
                              /\ sel.low.n * (2 * K) + 0 + a < 128 * K
                         ELSE sel.low.n * (2 * K) + a \in Nat /\ sel.low.n * (2 * K) + a < 32 * K
      BY <1>2, <2>1, <2>4, <2>5, Kilo
    <3> QED
      BY <1>a, <1>b, <2>2, <3>2, <3>3
  <2>6. CASE 2 * K <= a /\ a < \hE00
    <3> DEFINE i == a % (2 * K)
    <3>1. p = At(Base(sel.middle, 2 * K, 64 * K), i)
      BY <1>2, <2>2, <2>6, Kilo DEF Place4A50
    <3>2. i \in Nat /\ i < 2 * K
      BY <1>2, Kilo
    <3> HIDE DEF i
    <3>3. p = IF sel.middle.rom THEN Rom(sel.middle.n * (2 * K) + 64 * K + i)
                                ELSE Ram(sel.middle.n * (2 * K) + i)
      BY <2>3, <3>1, <3>2, Kilo
    <3>4. IF sel.middle.rom
                  THEN sel.middle.n * (2 * K) + 64 * K + i \in Nat
                       /\ sel.middle.n * (2 * K) + 64 * K + i < 128 * K
                            ELSE /\ sel.middle.n * (2 * K) + i \in Nat
                                 /\ sel.middle.n * (2 * K) + i < 32 * K
      BY <2>1, <2>4, <3>2, Kilo
    <3> QED
      BY <1>a, <1>b, <2>2, <3>3, <3>4
  <2>7. CASE \hE00 <= a /\ a < \hF00
    <3> DEFINE i == a % 256
    <3>1. p = At(Base(sel.high, 256, 64 * K), i)
      BY <1>2, <2>2, <2>7, Kilo DEF Place4A50
    <3>2. i \in Nat /\ i < 256
      BY <1>2
    <3> HIDE DEF i
    <3>3. p = IF sel.high.rom THEN Rom(sel.high.n * 256 + 64 * K + i) ELSE Ram(sel.high.n * 256 + i)
      BY <2>3, <3>1, <3>2, Kilo
    <3>4. IF sel.high.rom THEN /\ sel.high.n * 256 + 64 * K + i \in Nat
                               /\ sel.high.n * 256 + 64 * K + i < 128 * K
                          ELSE sel.high.n * 256 + i \in Nat /\ sel.high.n * 256 + i < 32 * K
      BY <2>1, <2>4, <3>2, Kilo
    <3> QED
      BY <1>a, <1>b, <2>2, <3>3, <3>4
  <2>8. CASE a >= \hF00
    <3>1. p = Rom(\h1FF00 + (a % 256))
      BY <1>2, <2>2, <2>8, Kilo DEF Place4A50
    <3>2. \h1FF00 + (a % 256) \in Nat /\ \h1FF00 + (a % 256) < 128 * K
      BY <1>2, Kilo
    <3> QED
      BY <1>a, <2>2, <3>1, <3>2
  <2> QED
    BY <1>2, <2>5, <2>6, <2>7, <2>8, Kilo
<1> QED
  BY <1>1, <1>3, <1>4, <1>5, <1>6, <1>7, <1>8, <1>9, <1>10, <1>11, PlainKinds

\* A cell that can be written is read at the port above or below it.
LEMMA PortsAgree ==
  ASSUME NEW b, Sound(b), NEW a \in Offsets, WritePlace(b, a).mem = "ram"
  PROVE  /\ b.kind \in HasRam
         /\ a + ReadPort(b.kind, a) \in Offsets
         /\ ReadPlace(b, a + ReadPort(b.kind, a)) = WritePlace(b, a)
<1> DEFINE k == b.kind
           p == WritePlace(b, a)
           sel == b.sel
<1>1. k \in Plain /\ Selects(b, b.sel) /\ p.mem = "ram"
  BY DEF Sound
<1>2. a \in Int /\ 0 <= a /\ a < 4 * K /\ K = 1024
  BY Kilo DEF Offsets
<1>3. \A c \in Nat : c < 4 * K => c \in Offsets
  BY Kilo DEF Offsets
<1>4. DOMAIN Superchips = {"F8SC", "F6SC", "F4SC", "EFSC", "DFSC", "BFSC"}
  BY DEF Superchips
<1> HIDE DEF k, sel
<1>5. CASE HasSuperchip(k)
  <2>1. a < \h80 /\ p = Ram(a)
    BY <1>1, <1>5, Schemes DEF WritePlace, Nothing, k
  <2>2. k \in HasRam /\ ReadPort(k, a) = \h80
    BY <1>4, <1>5, Schemes DEF HasRam, ReadPort
  <2>3. a + \h80 \in Nat /\ a + \h80 < 4 * K /\ (a + \h80) % 128 = a
    BY <1>2, <2>1
  <2>4. ReadPlace(b, a + \h80) = Ram((a + \h80) % 128)
    BY <1>2, <1>5, <2>1, Schemes DEF ReadPlace, k
  <2> QED
    BY <1>3, <2>1, <2>2, <2>3, <2>4 DEF k
<1>6. CASE k = "FA"
  <2>1. a < \h100 /\ p = Ram(a)
    BY <1>1, <1>6, Schemes DEF WritePlace, Nothing, k
  <2>2. k \in HasRam /\ ReadPort(k, a) = \h100
    BY <1>4, <1>6 DEF HasRam, ReadPort
  <2>3. a + \h100 \in Nat /\ a + \h100 < 4 * K /\ (a + \h100) % 256 = a
    BY <1>2, <2>1
  <2>4. ReadPlace(b, a + \h100) = Ram((a + \h100) % 256)
    BY <1>2, <1>6, <2>1, Schemes DEF ReadPlace, k
  <2> QED
    BY <1>3, <2>1, <2>2, <2>3, <2>4 DEF k
<1>7. CASE k = "CV"
  <2>1. K <= a /\ a < 2 * K /\ p = Ram(a % K)
    BY <1>1, <1>2, <1>7, Schemes DEF WritePlace, Nothing, k
  <2>2. k \in HasRam /\ ReadPort(k, a) = -\h400
    BY <1>4, <1>7 DEF HasRam, ReadPort
  <2>3. a + (-\h400) \in Nat /\ a + (-\h400) < K /\ a + (-\h400) = a % K
    BY <1>2, <2>1
  <2>4. ReadPlace(b, a + (-\h400)) = Ram(a + (-\h400))
    BY <1>2, <1>7, <2>3, Schemes DEF ReadPlace, ReadPlaceCV, k
  <2> QED
    BY <1>2, <1>3, <2>1, <2>2, <2>3, <2>4 DEF k
<1>8. CASE k = "E7" /\ a < K
  <2>1. sel[1] = 7 /\ p = Ram(a)
    BY <1>1, <1>2, <1>8, Schemes DEF WritePlace, Nothing, k, sel
  <2>2. k \in HasRam /\ ReadPort(k, a) = \h400
    BY <1>2, <1>4, <1>8 DEF HasRam, ReadPort
  <2>3. a + \h400 \in Nat /\ a + \h400 < 2 * K /\ (a + \h400) % K = a
    BY <1>2, <1>8
  <2>4. ReadPlace(b, a + \h400) = Ram((a + \h400) % K)
    BY <1>2, <1>8, <2>1, <2>3, Schemes DEF ReadPlace, ReadPlaceE7, k, sel
  <2> QED
    BY <1>2, <1>3, <2>1, <2>2, <2>3, <2>4 DEF k
<1>9. CASE k = "E7" /\ ~ (a < K)
  <2>1. \h800 <= a /\ a <= \h8FF /\ p = Ram(K + sel[2] * 256 + (a % 256))
    BY <1>1, <1>2, <1>9, Schemes DEF WritePlace, Nothing, k, sel
  <2>2. k \in HasRam /\ ReadPort(k, a) = \h100
    BY <1>2, <1>4, <1>9, <2>1 DEF HasRam, ReadPort
  <2>3. a + \h100 \in 2 * K .. \h9FF /\ a + \h100 \in Nat /\ a + \h100 < 4 * K
        /\ (a + \h100) % 256 = a % 256
    BY <1>2, <2>1
  <2>4. ReadPlace(b, a + \h100) = Ram(K + sel[2] * 256 + ((a + \h100) % 256))
    BY <1>2, <1>9, <2>3, Schemes DEF ReadPlace, ReadPlaceE7, k, sel
  <2> QED
    BY <1>3, <2>1, <2>2, <2>3, <2>4 DEF k
<1>10. CASE k = "3E"
  <2>1. a < K /\ sel[2] # NoRamBank /\ p = Ram(sel[2] * K + a)
    BY <1>1, <1>2, <1>10, Schemes DEF WritePlace, Nothing, k, sel
  <2>2. k \in HasRam /\ ReadPort(k, a) = \h400
    BY <1>4, <1>10 DEF HasRam, ReadPort
  <2>3. a + \h400 \in Nat /\ a + \h400 < 2 * K /\ (a + \h400) % K = a
    BY <1>2, <2>1
  <2>4. ReadPlace(b, a + \h400) = Ram(sel[2] * K + ((a + \h400) % K))
    BY <1>2, <1>10, <2>1, <2>3, Schemes DEF ReadPlace, ReadPlaceTigervision, k, sel
  <2> QED
    BY <1>2, <1>3, <2>1, <2>2, <2>3, <2>4 DEF k
<1>11. CASE k = "4A50"
  <2>1. p = Place4A50(sel, a)
    BY <1>1, <1>11, Schemes DEF WritePlace, Nothing, k, sel
  <2>2. k \in HasRam /\ ReadPort(k, a) = 0
    BY <1>4, <1>11 DEF HasRam, ReadPort
  <2>3. ReadPlace(b, a) = Place4A50(sel, a)
    BY <1>11, Schemes DEF ReadPlace, k, sel
  <2> QED
    BY <1>2, <2>1, <2>2, <2>3 DEF k
<1>12. CASE ~ HasSuperchip(k) /\ k \notin {"FA", "CV", "E7", "3E", "4A50"}
  <2>1. p = Nothing
    BY <1>12 DEF WritePlace, k
  <2> QED
    BY <1>1, <2>1 DEF Nothing
<1> QED
  BY <1>5, <1>6, <1>7, <1>8, <1>9, <1>10, <1>11, <1>12

\* What is written at any address of the window is inside the board's RAM, or
\* goes nowhere.
LEMMA WriteInside ==
  ASSUME NEW b, Sound(b), NEW a \in Offsets
  PROVE  /\ Inside(b, WritePlace(b, a))
         /\ WritePlace(b, a).mem = "ram" =>
              WritePlace(b, a).at \in Nat /\ WritePlace(b, a).at < RamSize(b)
<1> DEFINE p == WritePlace(b, a)
<1>1. CASE p.mem = "ram"
  <2>1. Inside(b, p)
    BY <1>1, PortsAgree, ReadInside
  <2>2. \A i : Rom(i).mem = "rom" /\ Nothing.mem = "none" /\ Ram(i).at = i
    BY DEF Rom, Ram, Nothing
  <2> HIDE DEF p
  <2>3. PICK i \in Nat : i < RamSize(b) /\ p = Ram(i)
    BY <1>1, <2>1, <2>2 DEF Inside
  <2> QED
    BY <2>1, <2>2, <2>3 DEF p
<1>2. CASE p.mem # "ram"
  <2>1. \A i : Ram(i).mem = "ram"
    BY DEF Ram
  <2>2. p = Nothing
    BY <1>2, <2>1 DEF WritePlace
  <2> QED
    BY <1>2, <2>2 DEF Inside
<1> QED
  BY <1>1, <1>2
------------------------------------------------------------------------------
(* What the accesses select.                                               *)

\* A board is sound with whatever it may select.
LEMMA Reselected ==
  ASSUME NEW b, Sound(b), NEW s, Selects(b, s)
  PROVE  LET c == [b EXCEPT !.sel = s]
         IN  /\ Sound(c)
             /\ c.kind = b.kind /\ c.banks = b.banks /\ c.sel = s /\ c.ram = b.ram
<1> DEFINE c == [b EXCEPT !.sel = s]
<1>1. c = [kind |-> b.kind, banks |-> b.banks, sel |-> s, ram |-> b.ram]
  BY DEF Sound, IsBoard
<1> HIDE DEF c
<1>2. c.kind = b.kind /\ c.banks = b.banks /\ c.sel = s /\ c.ram = b.ram
  BY <1>1
<1>3. RamSize(c) = RamSize(b)
  BY <1>2 DEF RamSize
<1>4. Sized(c)
  BY <1>2 DEF Sound, Sized
<1>5. Selects(c, c.sel)
  BY <1>2 DEF Selects
<1>6. Stores(c)
  BY <1>2, <1>3 DEF Sound, Stores
<1>7. IsBoard(c) /\ c.kind \in Plain
  BY <1>1, <1>2 DEF Sound, IsBoard
<1>8. Sound(c)
  BY <1>4, <1>5, <1>6, <1>7 DEF Sound
<1> QED
  BY <1>2, <1>8 DEF c

\* So it is after an access in its window,
LEMMA HotspotSound ==
  ASSUME NEW b, Sound(b), NEW addr \in Nat
  PROVE  /\ Sound(Hotspot(b, addr))
         /\ Hotspot(b, addr).kind = b.kind
         /\ Hotspot(b, addr).banks = b.banks
         /\ b.kind \in {"FE", "3F", "3E", "2K", "4K", "CV", "4A50"} =>
              Hotspot(b, addr).sel = b.sel
<1> DEFINE k == b.kind
           s == CASE HasRun(k)  -> RunHotspot(b, addr)
                  [] k = "E7"   -> E7Hotspot(b.sel, addr)
                  [] k = "F0"   -> F0Hotspot(b.sel, addr)
                  [] k = "E0"   -> E0Hotspot(b.sel, addr)
                  [] OTHER      -> b.sel
<1>1. Hotspot(b, addr) = [b EXCEPT !.sel = s]
  BY DEF Hotspot, Sound, IsBoard
<1>2. Selects(b, b.sel)
  BY DEF Sound
<1>3. Selects(b, s)
  <2>1. CASE HasRun(k)
    <3>1. s = RunHotspot(b, addr)
      BY <2>1, Schemes
    <3>2. Count(k) \in Nat /\ Runs[Scheme(k)].base \in Nat
      BY <2>1, RunLengths
    <3> DEFINE n == Count(k)
               base == Runs[Scheme(k)].base
    <3>3. RunHotspot(b, addr) = IF addr - base \in 0 .. n - 1 THEN <<addr - base>> ELSE b.sel
      BY DEF RunHotspot, Count
    <3> HIDE DEF n, base
    <3>4. b.sel \in [1 .. 1 -> 0 .. n - 1]
      BY <1>2, <2>1 DEF Selects, n
    <3> HIDE DEF s
    <3>5. s \in [1 .. 1 -> 0 .. n - 1]
      <4>1. CASE addr - base \in 0 .. n - 1
        BY <3>1, <3>3, <4>1
      <4>2. CASE addr - base \notin 0 .. n - 1
        BY <3>1, <3>3, <3>4, <4>2
      <4> QED
        BY <4>1, <4>2
    <3> QED
      BY <2>1, <3>5, Schemes DEF Selects, n
  <2>2. CASE k = "E7"
    <3>1. s = E7Hotspot(b.sel, addr)
      BY <2>2, Schemes
    <3>2. b.sel \in [1 .. 2 -> 0 .. 7] /\ b.sel[2] \in 0 .. 3
      BY <1>2, <2>2 DEF Selects
    <3> HIDE DEF s
    <3>3. s \in [1 .. 2 -> 0 .. 7] /\ s[2] \in 0 .. 3
      BY <3>1, <3>2 DEF E7Hotspot
    <3> QED
      BY <2>2, <3>3, Schemes DEF Selects
  <2>3. CASE k = "F0"
    <3>1. s = F0Hotspot(b.sel, addr)
      BY <2>3, Schemes
    <3>2. b.sel \in [1 .. 1 -> 0 .. 15]
      BY <1>2, <2>3 DEF Selects
    <3> HIDE DEF s
    <3>3. s \in [1 .. 1 -> 0 .. 15]
      BY <3>1, <3>2 DEF F0Hotspot
    <3> QED
      BY <2>3, <3>3, Schemes DEF Selects
  <2>4. CASE k = "E0"
    <3>1. s = E0Hotspot(b.sel, addr)
      BY <2>4, Schemes
    <3>2. b.sel \in [1 .. 3 -> 0 .. 7]
      BY <1>2, <2>4 DEF Selects
    <3> HIDE DEF s
    <3>3. s \in [1 .. 3 -> 0 .. 7]
      <4>1. addr % 8 \in 0 .. 7
        OBVIOUS
      <4> QED
        BY <3>1, <3>2, <4>1 DEF E0Hotspot
    <3> QED
      BY <2>4, <3>3, Schemes DEF Selects
  <2>5. CASE ~ HasRun(k) /\ k \notin {"E7", "F0", "E0"}
    BY <1>2, <2>5
  <2> QED
    BY <2>1, <2>2, <2>3, <2>4, <2>5
<1>4. k \in {"FE", "3F", "3E", "2K", "4K", "CV", "4A50"} => s = b.sel
  BY Schemes
<1> HIDE DEF s
<1> QED
  BY <1>1, <1>3, <1>4, Reselected

\* A switch of an FE board is to one of its two banks.
LEMMA FeSwitchSelects ==
  ASSUME NEW sel \in [1 .. 2 -> 0 .. 1], NEW addr, NEW v \in Nat
  PROVE  FeSwitch(sel, addr, v) \in [1 .. 2 -> 0 .. 1]
<1>1. 1 - ((v \div 32) % 2) \in 0 .. 1
  OBVIOUS
<1> QED
  BY <1>1 DEF FeSwitch

\* The slices of a 4A50 board.
Sliced == [low : LowSlices, middle : LowSlices, high : HighSlices, armed : BOOLEAN]

LEMMA SliceFacts ==
  /\ \A n \in Nat : n < 32 => Slice(TRUE, n) \in LowSlices
  /\ \A n \in Nat : n < 16 => Slice(FALSE, n) \in LowSlices
  /\ \A n \in Nat : n < 256 => Slice(TRUE, n) \in HighSlices
  /\ \A n \in Nat : n < 128 => Slice(FALSE, n) \in HighSlices
BY DEF LowSlices, HighSlices, Slice

\* A toggle of an address line stays within the slice's memory.
LEMMA Toggles ==
  ASSUME NEW slice \in LowSlices, NEW bit \in {1, 2}
  PROVE  Toggle(slice, bit) \in LowSlices
<1> DEFINE m == IF (slice.n \div bit) % 2 = 1 THEN slice.n - bit ELSE slice.n + bit
<1>1. Toggle(slice, bit) = [slice EXCEPT !.n = m]
  BY Zenon DEF Toggle
<1>2. slice \in [rom : BOOLEAN, n : Nat] /\ slice.n < IF slice.rom THEN 32 ELSE 16
  BY DEF LowSlices
<1>3. m \in Nat /\ m < IF slice.rom THEN 32 ELSE 16
  BY <1>2
<1> HIDE DEF m
<1> QED
  BY <1>1, <1>2, <1>3 DEF LowSlices

LEMMA Armed4A50Sliced ==
  ASSUME NEW sel \in Sliced, NEW addr \in Nat
  PROVE  Armed4A50(sel, addr) \in Sliced
<1>1. /\ addr % 256 \in Nat /\ addr % 256 < 256
      /\ addr % 128 \in Nat /\ addr % 128 < 128
      /\ addr % 32 \in Nat /\ addr % 32 < 32
      /\ addr % 16 \in Nat /\ addr % 16 < 16
  OBVIOUS
<1>2. /\ \A high \in HighSlices : [sel EXCEPT !.high = high] \in Sliced
      /\ \A low \in LowSlices : [sel EXCEPT !.low = low] \in Sliced
      /\ \A middle \in LowSlices : [sel EXCEPT !.middle = middle] \in Sliced
      /\ sel.low \in LowSlices /\ sel.middle \in LowSlices
  BY DEF Sliced
<1>3. /\ Slice(TRUE, addr % 256) \in HighSlices /\ Slice(FALSE, addr % 128) \in HighSlices
      /\ Slice(TRUE, addr % 32) \in LowSlices /\ Slice(FALSE, addr % 16) \in LowSlices
  BY <1>1, SliceFacts
<1>4. /\ Toggle(sel.low, 1) \in LowSlices /\ Toggle(sel.low, 2) \in LowSlices
      /\ Toggle(sel.middle, 1) \in LowSlices /\ Toggle(sel.middle, 2) \in LowSlices
  BY <1>2, Toggles
<1> QED
  BY <1>2, <1>3, <1>4 DEF Armed4A50

LEMMA ZeroPage4A50Sliced ==
  ASSUME NEW sel \in Sliced, NEW addr \in Nat, NEW v \in Nat, v < 256
  PROVE  ZeroPage4A50(sel, addr, v) \in Sliced
<1>1. /\ v % 128 \in Nat /\ v % 128 < 128
      /\ v % 16 \in Nat /\ v % 16 < 16
      /\ 16 + (v % 16) \in Nat /\ 16 + (v % 16) < 32 /\ v % 16 < 32
  OBVIOUS
<1>2. /\ \A high \in HighSlices : [sel EXCEPT !.high = high] \in Sliced
      /\ \A low \in LowSlices : [sel EXCEPT !.low = low] \in Sliced
      /\ \A middle \in LowSlices : [sel EXCEPT !.middle = middle] \in Sliced
  BY DEF Sliced
<1>3. /\ Slice(TRUE, v) \in HighSlices /\ Slice(FALSE, v % 128) \in HighSlices
      /\ Slice(TRUE, v % 16) \in LowSlices /\ Slice(FALSE, v % 16) \in LowSlices
      /\ Slice(TRUE, 16 + (v % 16)) \in LowSlices
  BY <1>1, SliceFacts
<1> QED
  BY <1>2, <1>3 DEF ZeroPage4A50

\* The last page's hotspots move the high slice within its 16 pages.
LEMMA LastPage4A50Sliced ==
  ASSUME NEW sel \in Sliced, NEW addr \in Nat
  PROVE  LastPage4A50(sel, addr) \in Sliced
<1> DEFINE at(n) == (n \div 16) * 16 + 8 * ((addr \div 8) % 2) + ((addr \div 16) % 8)
           moved == [sel EXCEPT !.high.n = at(@)]
<1>1. /\ \A n \in Nat : n < 256 => at(n) \in Nat /\ at(n) < 256
      /\ \A n \in Nat : n < 128 => at(n) \in Nat /\ at(n) < 128
  OBVIOUS
<1>2. sel.high \in HighSlices
  BY DEF Sliced
<1>3. moved.high = [sel.high EXCEPT !.n = at(@)] /\ \E h : moved = [sel EXCEPT !.high = h]
  BY DEF Sliced
<1> HIDE DEF at
<1>4. [sel.high EXCEPT !.n = at(@)] \in HighSlices
  <2> DEFINE h == sel.high
             c == at(h.n)
  <2>1. h \in [rom : BOOLEAN, n : Nat] /\ h.n < IF h.rom THEN 256 ELSE 128
    BY <1>2 DEF HighSlices
  <2>2. c \in Nat /\ c < IF h.rom THEN 256 ELSE 128
    BY <1>1, <2>1
  <2>3. [sel.high EXCEPT !.n = at(@)] = [h EXCEPT !.n = c]
    BY Zenon
  <2> HIDE DEF h, c
  <2> QED
    BY <2>1, <2>2, <2>3 DEF HighSlices
<1>5. moved \in Sliced
  BY <1>2, <1>3, <1>4 DEF Sliced
<1>6. LastPage4A50(sel, addr) = moved \/ LastPage4A50(sel, addr) = sel
  BY DEF LastPage4A50, at
<1> QED
  BY <1>5, <1>6

LEMMA Record4A50Sliced ==
  ASSUME NEW sel \in Sliced, NEW addr, NEW v
  PROVE  Record4A50(sel, addr, v) \in Sliced
<1> DEFINE arms == v \in \h60 .. \h7F /\ (addr \in Window \/ addr < \h200)
<1>1. arms \in BOOLEAN /\ Record4A50(sel, addr, v) = [sel EXCEPT !.armed = arms]
  BY DEF Record4A50
<1> HIDE DEF arms
<1> QED
  BY <1>1 DEF Sliced

\* A 4A50 board keeps its slices whatever it sees.
LEMMA SlicedSelects ==
  ASSUME NEW b, b.kind = "4A50", NEW s
  PROVE  Selects(b, s) <=> s \in Sliced
BY Schemes DEF Selects, Sliced

\* The boards that watch every access of their window.
LEMMA WatchesSound ==
  ASSUME NEW b, Sound(b), NEW addr \in Nat, NEW v \in Nat, v < 256
  PROVE  /\ Sound(Watches(b, addr, v))
         /\ Watches(b, addr, v).kind = b.kind
         /\ Watches(b, addr, v).banks = b.banks
         /\ b.kind = "FE" => Watches(b, addr, v).sel = FeSwitch(b.sel, addr, v)
<1> DEFINE k == b.kind
           s == CASE k = "FE"   -> FeSwitch(b.sel, addr, v)
                  [] k = "4A50" -> Record4A50(LastPage4A50(b.sel, addr), addr, v)
                  [] OTHER      -> b.sel
<1>1. Watches(b, addr, v) = [b EXCEPT !.sel = s]
  BY DEF Watches, Sound, IsBoard
<1>2. Selects(b, b.sel)
  BY DEF Sound
<1>3. Selects(b, s)
  <2>1. CASE k = "FE"
    <3>1. b.sel \in [1 .. 2 -> 0 .. 1]
      BY <1>2, <2>1 DEF Selects
    <3>2. s \in [1 .. 2 -> 0 .. 1]
      BY <2>1, <3>1, FeSwitchSelects
    <3> QED
      BY <2>1, <3>2, Schemes DEF Selects
  <2>2. CASE k = "4A50"
    <3>1. b.sel \in Sliced
      BY <1>2, <2>2, SlicedSelects
    <3>2. s \in Sliced
      BY <2>2, <3>1, LastPage4A50Sliced, Record4A50Sliced
    <3> QED
      BY <2>2, <3>2, SlicedSelects
  <2>3. CASE k \notin {"FE", "4A50"}
    BY <1>2, <2>3
  <2> QED
    BY <2>1, <2>2, <2>3
<1>4. k = "FE" => s = FeSwitch(b.sel, addr, v)
  OBVIOUS
<1> HIDE DEF s
<1> QED
  BY <1>1, <1>3, <1>4, Reselected

\* The boards that see an access to the console.
LEMMA SnoopSound ==
  ASSUME NEW b, Sound(b), NEW addr \in Nat, NEW v \in Nat, v < 256
  PROVE  /\ Sound(SnoopBoth(b, addr, v))
         /\ SnoopBoth(b, addr, v).kind = b.kind
         /\ SnoopBoth(b, addr, v).banks = b.banks
         /\ b.kind = "FE" => SnoopBoth(b, addr, v).sel = FeSwitch(b.sel, addr, v)
<1> DEFINE k == b.kind
           s == CASE k = "UA"   -> UAHotspot(b.sel, addr)
                  [] k = "0840" -> EconoHotspot(b.sel, addr)
                  [] k = "SB"   -> SbHotspot(b, addr)
                  [] k = "X07"  -> X07Hotspot(b.sel, addr)
                  [] k = "FE"   -> FeSwitch(b.sel, addr, v)
                  [] k = "4A50" -> Record4A50(Console4A50(b.sel, addr, v), addr, v)
                  [] OTHER      -> b.sel
<1>1. SnoopBoth(b, addr, v) = [b EXCEPT !.sel = s]
  BY DEF SnoopBoth, Sound, IsBoard
<1>2. Selects(b, b.sel) /\ Sized(b)
  BY DEF Sound
<1>3. Selects(b, s)
  <2>1. CASE k \in {"UA", "0840"}
    <3>1. b.sel \in [1 .. 1 -> 0 .. 1]
      BY <1>2, <2>1 DEF Selects
    <3>2. s \in {<<0>>, <<1>>, b.sel}
      BY <2>1 DEF UAHotspot, EconoHotspot
    <3> HIDE DEF s
    <3>3. s \in [1 .. 1 -> 0 .. 1]
      BY <3>1, <3>2
    <3> QED
      BY <2>1, <3>3, Schemes DEF Selects
  <2>2. CASE k = "SB"
    <3>1. b.sel \in [1 .. 1 -> 0 .. b.banks - 1] /\ b.banks \in {32, 64}
      BY <1>2, <2>2 DEF Selects, Sized
    <3>2. s \in {<<(addr % 256) % b.banks>>, b.sel}
      BY <2>2 DEF SbHotspot
    <3>3. (addr % 256) % b.banks \in 0 .. b.banks - 1
      BY <3>1
    <3> HIDE DEF s
    <3>4. s \in [1 .. 1 -> 0 .. b.banks - 1]
      BY <3>1, <3>2, <3>3
    <3> QED
      BY <2>2, <3>4, Schemes DEF Selects
  <2>3. CASE k = "X07"
    <3>1. b.sel \in [1 .. 1 -> 0 .. 15]
      BY <1>2, <2>3 DEF Selects
    <3>2. s \in {<<(addr \div 16) % 16>>, <<14 + ((addr \div 64) % 2)>>, b.sel}
      BY <2>3 DEF X07Hotspot
    <3>3. (addr \div 16) % 16 \in 0 .. 15 /\ 14 + ((addr \div 64) % 2) \in 0 .. 15
      OBVIOUS
    <3> HIDE DEF s
    <3>4. s \in [1 .. 1 -> 0 .. 15]
      BY <3>1, <3>2, <3>3
    <3> QED
      BY <2>3, <3>4, Schemes DEF Selects
  <2>4. CASE k = "FE"
    <3>1. b.sel \in [1 .. 2 -> 0 .. 1]
      BY <1>2, <2>4 DEF Selects
    <3>2. s \in [1 .. 2 -> 0 .. 1]
      BY <2>4, <3>1, FeSwitchSelects
    <3> QED
      BY <2>4, <3>2, Schemes DEF Selects
  <2>5. CASE k = "4A50"
    <3>1. b.sel \in Sliced
      BY <1>2, <2>5, SlicedSelects
    <3>2. Console4A50(b.sel, addr, v) \in Sliced
      BY <3>1, Armed4A50Sliced, ZeroPage4A50Sliced DEF Console4A50
    <3>3. s \in Sliced
      BY <2>5, <3>2, Record4A50Sliced
    <3> QED
      BY <2>5, <3>3, SlicedSelects
  <2>6. CASE k \notin {"UA", "0840", "SB", "X07", "FE", "4A50"}
    BY <1>2, <2>6
  <2> QED
    BY <2>1, <2>2, <2>3, <2>4, <2>5, <2>6
<1>4. k = "FE" => s = FeSwitch(b.sel, addr, v)
  OBVIOUS
<1> HIDE DEF s
<1> QED
  BY <1>1, <1>3, <1>4, Reselected

\* Tigervision's boards, whose hotspots take the byte that is written.
LEMMA TigervisionSound ==
  ASSUME NEW b, Sound(b), NEW addr \in Nat, NEW v \in Nat, v < 256
  PROVE  LET c == [b EXCEPT !.sel = TigervisionWrite(b, addr, v)]
         IN  Sound(c) /\ c.kind = b.kind /\ c.banks = b.banks
<1> DEFINE k == b.kind
           s == TigervisionWrite(b, addr, v)
<1>1. Selects(b, b.sel) /\ Sized(b)
  BY DEF Sound
<1>2. Selects(b, s)
  <2>1. CASE k = "3F"
    <3>1. b.sel \in [1 .. 1 -> 0 .. b.banks - 1] /\ b.banks \in 1 .. 128
      BY <1>1, <2>1 DEF Selects, Sized
    <3>2. s \in {<<v % b.banks>>, b.sel}
      BY <2>1 DEF TigervisionWrite
    <3>3. v % b.banks \in 0 .. b.banks - 1
      BY <3>1
    <3> HIDE DEF s
    <3>4. s \in [1 .. 1 -> 0 .. b.banks - 1]
      BY <3>1, <3>2, <3>3
    <3> QED
      BY <2>1, <3>4, Schemes DEF Selects
  <2>2. CASE k = "3E"
    <3>1. /\ b.sel \in [1 .. 2 -> Int] /\ b.sel[1] \in 0 .. b.banks - 1
          /\ b.sel[2] \in -1 .. 31 /\ b.banks \in 1 .. 128
      BY <1>1, <2>2 DEF Selects, Sized, NoRamBank, RamBanks
    <3>2. s \in {<<v % b.banks, -1>>, [b.sel EXCEPT ![2] = v % 32], b.sel}
      BY <2>2 DEF TigervisionWrite, NoRamBank, RamBanks
    <3>3. v % b.banks \in 0 .. b.banks - 1 /\ v % 32 \in 0 .. 31
      BY <3>1
    <3> HIDE DEF s
    <3>4. s \in [1 .. 2 -> Int] /\ s[1] \in 0 .. b.banks - 1 /\ s[2] \in -1 .. 31
      BY <3>1, <3>2, <3>3
    <3> QED
      BY <2>2, <3>4, Schemes DEF Selects, NoRamBank, RamBanks
  <2>3. CASE k \notin {"3F", "3E"}
    BY <1>1, <2>3 DEF TigervisionWrite
  <2> QED
    BY <2>1, <2>2, <2>3
<1> HIDE DEF s
<1> QED
  BY <1>2, Reselected DEF s

\* The halves of the address space.
LEMMA Halves ==
  ASSUME NEW addr \in Console \cup Window
  PROVE  addr \in Nat /\ ~ (addr \in Console /\ addr \in Window) /\ Low(addr) \in Offsets
<1> DEFINE lo == \h1000
           mid == \h0FFF
           hi == \h1FFF
<1>1. lo \in Int /\ mid \in Int /\ hi \in Int /\ 0 < lo /\ mid < lo
  OBVIOUS
<1>2. Console = 0 .. mid /\ Window = lo .. hi
  BY DEF Console, Window
<1> HIDE DEF lo, mid, hi
<1>3. /\ addr \in Console => addr \in Int /\ 0 <= addr /\ addr <= mid
      /\ addr \in Window => addr \in Int /\ lo <= addr /\ addr <= hi
  BY <1>1, <1>2
<1>4. addr \in Nat /\ ~ (addr \in Console /\ addr \in Window)
  BY <1>1, <1>3
<1>5. addr % (4 * K) \in 0 .. 4 * K - 1
  BY <1>4, Kilo
<1> QED
  BY <1>4, <1>5 DEF Low, Offsets

\* A write keeps the RAM within its size.
LEMMA WriteSound ==
  ASSUME NEW b, Sound(b), NEW i \in Nat, i < RamSize(b), NEW v \in ByteValues
  PROVE  LET c == [b EXCEPT !.ram = Store(@, i, v)]
         IN  Sound(c) /\ c.kind = b.kind /\ c.banks = b.banks /\ c.sel = b.sel
<1> DEFINE ram == Store(b.ram, i, v)
           c == [b EXCEPT !.ram = ram]
<1>1. c = [kind |-> b.kind, banks |-> b.banks, sel |-> b.sel, ram |-> ram]
  BY DEF Sound, IsBoard
<1>2. c = [b EXCEPT !.ram = Store(@, i, v)]
  BY DEF Sound, IsBoard
<1>3. v \in ByteValues /\ b.ram \in [DOMAIN b.ram -> ByteValues] /\ DOMAIN b.ram \subseteq 0 .. RamSize(b) - 1
  BY DEF Sound, Stores
<1>4. ram \in [DOMAIN b.ram \cup {i} -> ByteValues] /\ DOMAIN ram = DOMAIN b.ram \cup {i}
  BY <1>3 DEF Store
<1>5. RamSize(b) \in Int
  BY Kilo DEF RamSize, RamBanks
<1>6. i \in 0 .. RamSize(b) - 1
  BY <1>5
<1>7. DOMAIN ram \subseteq 0 .. RamSize(b) - 1
  BY <1>3, <1>4, <1>6
<1> HIDE DEF c, ram
<1>8. c.kind = b.kind /\ c.banks = b.banks /\ c.sel = b.sel /\ c.ram = ram
  BY <1>1
<1>9. RamSize(c) = RamSize(b)
  BY <1>8 DEF RamSize
<1>10. Sized(c) /\ Selects(c, c.sel)
  BY <1>8 DEF Sound, Sized, Selects
<1>11. Stores(c)
  BY <1>4, <1>7, <1>8, <1>9 DEF Stores
<1>12. IsBoard(c) /\ c.kind \in Plain
  BY <1>1, <1>8 DEF IsBoard, Sound
<1>13. Sound(c)
  BY <1>10, <1>11, <1>12 DEF Sound
<1> QED
  BY <1>2, <1>8, <1>13

\* So every access leaves the board sound; an FE board switches, no more.
LEMMA SeenSound ==
  ASSUME NEW b, Sound(b), NEW op \in {"read", "write"}, NEW addr \in Console \cup Window,
         NEW v \in ByteValues
  PROVE  LET c == Seen(b, [op |-> op, addr |-> addr, v |-> v])
         IN  /\ Sound(c)
             /\ c.kind = b.kind /\ c.banks = b.banks
             /\ b.kind = "FE" => c.sel = FeSwitch(b.sel, addr, v)
<1> DEFINE access == [op |-> op, addr |-> addr, v |-> v]
           c == Seen(b, access)
           h == Hotspot(b, addr)
           p == WritePlace(h, Low(addr))
           w == IF p.mem = "ram" THEN [h EXCEPT !.ram = Store(@, p.at, v)] ELSE h
<1>1. addr \in Nat /\ ~ (addr \in Console /\ addr \in Window) /\ Low(addr) \in Offsets
  BY Halves
<1>2. v \in Nat /\ v < 256
  BY ByteFacts
<1>3. access.op = op /\ access.addr = addr /\ access.v = v
  OBVIOUS
<1> HIDE DEF access
<1>4. /\ op = "read" /\ addr \in Window => c = AfterRead(b, addr, v)
      /\ op = "write" /\ addr \in Window => c = AfterWrite(b, addr, v)
      /\ op = "read" /\ addr \in Console => c = SnoopRead(b, addr, v)
      /\ op = "write" /\ addr \in Console => c = SnoopWrite(b, addr, v)
  BY <1>1, <1>3 DEF Seen
<1>5. /\ Sound(h) /\ h.kind = b.kind /\ h.banks = b.banks
      /\ b.kind = "FE" => h.sel = b.sel
  BY <1>1, HotspotSound
<1> HIDE DEF c, h
<1>6. CASE op = "read" /\ addr \in Window
  <2>1. c = Watches(h, addr, v)
    BY <1>4, <1>6 DEF AfterRead, h
  <2> QED
    BY <1>1, <1>2, <1>5, <2>1, WatchesSound DEF c, access
<1>7. CASE op = "write" /\ addr \in Window
  <2>1. c = Watches(w, addr, v)
    BY <1>4, <1>7 DEF AfterWrite, h
  <2>2. Sound(w) /\ w.kind = h.kind /\ w.banks = h.banks /\ w.sel = h.sel
    <3>1. CASE p.mem = "ram"
      <4>1. p.at \in Nat /\ p.at < RamSize(h)
        BY <1>1, <1>5, <3>1, WriteInside
      <4> HIDE DEF p
      <4> QED
        BY <1>5, <3>1, <4>1, WriteSound
    <3>2. CASE p.mem # "ram"
      BY <1>5, <3>2
    <3> QED
      BY <3>1, <3>2
  <2> HIDE DEF w
  <2> QED
    BY <1>1, <1>2, <1>5, <2>1, <2>2, WatchesSound DEF c, access
<1>8. CASE op = "read" /\ addr \in Console
  BY <1>1, <1>2, <1>4, <1>8, SnoopSound DEF SnoopRead, c, access
<1>9. CASE op = "write" /\ addr \in Console
  <2>1. CASE b.kind \in {"3F", "3E"}
    <3>1. c = [b EXCEPT !.sel = TigervisionWrite(b, addr, v)]
      BY <1>4, <1>9, <2>1 DEF SnoopWrite
    <3>2. Sound(c) /\ c.kind = b.kind /\ c.banks = b.banks
      BY <1>1, <1>2, <3>1, TigervisionSound
    <3> QED
      BY <2>1, <3>2 DEF c, access
  <2>2. CASE b.kind \notin {"3F", "3E"}
    <3>1. c = SnoopBoth(b, addr, v)
      BY <1>4, <1>9, <2>2 DEF SnoopWrite
    <3> QED
      BY <1>1, <1>2, <3>1, SnoopSound DEF c, access
  <2> QED
    BY <2>1, <2>2
<1> QED
  BY <1>6, <1>7, <1>8, <1>9
------------------------------------------------------------------------------
(* Detection.                                                              *)

\* A set of positions that is not empty has a first one.
LEMMA FirstOf ==
  ASSUME NEW T \in SUBSET Nat, T # {}
  PROVE  \E x \in T : \A y \in T : x <= y
<1> DEFINE Less == {ss \in Nat \X Nat : ss[1] < ss[2]}
<1>1. IsWellFoundedOn(Less, Nat)
  BY NatLessThanWellFounded, Zenon DEF OpToRel
<1>2. \E x \in T : \A y \in T : ~ (<<y, x>> \in Less)
  <2> HIDE DEF Less
  <2> QED
    BY <1>1, WFMin, Zenon
<1>3. \A x, y \in Nat : ~ (<<y, x>> \in Less) => x <= y
  OBVIOUS
<1> HIDE DEF Less
<1> QED
  BY <1>2, <1>3

\* A chain that ends in a test for nothing gives the scheme of the first of
\* its tests that the marks pass.
LEMMA FirstMatches ==
  ASSUME NEW n \in Nat \ {0}, NEW chain, DOMAIN chain = 1 .. n,
         chain[n].has = {}, chain[n].lacks = {}, NEW marks
  PROVE  \E i \in 1 .. n : /\ FirstMatch(chain, marks) = chain[i].kind
                           /\ \A j \in 1 .. i - 1 : ~ Matches(chain[j], marks)
<1> DEFINE T == {i \in 1 .. n : Matches(chain[i], marks)}
           First(i) == /\ Matches(chain[i], marks)
                       /\ \A j \in 1 .. i - 1 : ~ Matches(chain[j], marks)
<1>1. n \in T
  BY DEF Matches
<1>2. PICK i \in T : \A j \in T : i <= j
  <2>1. T \in SUBSET Nat
    OBVIOUS
  <2> HIDE DEF T
  <2> QED
    BY <1>1, <2>1, FirstOf
<1>3. i \in 1 .. n /\ First(i)
  BY <1>2
<1> DEFINE c == CHOOSE k \in DOMAIN chain : First(k)
<1>4. c \in 1 .. n /\ First(c)
  BY <1>3, Zenon
<1>5. FirstMatch(chain, marks) = chain[c].kind
  BY Zenon DEF FirstMatch
<1> HIDE DEF c
<1> QED
  BY <1>4, <1>5

\* The sizes the boards take.
LEMMA RunTakes ==
  ASSUME NEW kind, HasRun(kind), NEW size
  PROVE  Takes(kind, size) <=> size = Count(kind) * 4 * K
BY Schemes DEF Takes, Fits, Count

LEMMA Counts ==
  /\ \A kind \in {"F8", "F8SC"} : HasRun(kind) /\ Count(kind) = 2
  /\ \A kind \in {"F6", "F6SC"} : HasRun(kind) /\ Count(kind) = 4
  /\ \A kind \in {"F4", "F4SC"} : HasRun(kind) /\ Count(kind) = 8
  /\ HasRun("FA") /\ Count("FA") = 3
  /\ \A kind \in {"EF", "EFSC"} : HasRun(kind) /\ Count(kind) = 16
  /\ \A kind \in {"DF", "DFSC"} : HasRun(kind) /\ Count(kind) = 32
  /\ \A kind \in {"BF", "BFSC"} : HasRun(kind) /\ Count(kind) = 64
<1>1. \A kind \in {"F8", "F8SC"} : HasRun(kind) /\ Count(kind) = 2
  BY Schemes DEF Count, F8
<1>2. \A kind \in {"F6", "F6SC"} : HasRun(kind) /\ Count(kind) = 4
  BY Schemes DEF Count, F6
<1>3. \A kind \in {"F4", "F4SC"} : HasRun(kind) /\ Count(kind) = 8
  BY Schemes DEF Count, F4
<1>4. HasRun("FA") /\ Count("FA") = 3
  BY Schemes DEF Count, FA
<1>5. \A kind \in {"EF", "EFSC"} : HasRun(kind) /\ Count(kind) = 16
  BY Schemes DEF Count, EF
<1>6. \A kind \in {"DF", "DFSC"} : HasRun(kind) /\ Count(kind) = 32
  BY Schemes DEF Count, DF
<1>7. \A kind \in {"BF", "BFSC"} : HasRun(kind) /\ Count(kind) = 64
  BY Schemes DEF Count, BF
<1> QED
  BY <1>1, <1>2, <1>3, <1>4, <1>5, <1>6, <1>7

\* Where the images that are not of a run's size go.
LEMMA OthersTake ==
  ASSUME NEW size
  PROVE  /\ Takes("2K", size) <=> size = 2 * K
         /\ Takes("4K", size) <=> size = 4 * K
         /\ Takes("CV", size) <=> size \in {2 * K, 4 * K}
         /\ Takes("E7", size) <=> size = 16 * K
         /\ \A kind \in {"F0", "X07"} : Takes(kind, size) <=> size = 64 * K
         /\ \A kind \in {"E0", "UA", "0840", "FE"} : Takes(kind, size) <=> size = 8 * K
         /\ \A kind \in {"3F", "3E"} : Takes(kind, size) <=> size > 0 /\ size % (2 * K) = 0
         /\ Takes("SB", size) <=> size \in {128 * K, 256 * K}
         /\ Takes("4A50", size) <=> size \in {32 * K, 64 * K, 128 * K}
<1>1. /\ Takes("2K", size) <=> size = 2 * K
      /\ Takes("4K", size) <=> size = 4 * K
      /\ Takes("CV", size) <=> size \in {2 * K, 4 * K}
  BY Schemes DEF Takes, Fits
<1>2. /\ Takes("E7", size) <=> size = 16 * K
      /\ \A kind \in {"F0", "X07"} : Takes(kind, size) <=> size = 64 * K
  BY Schemes DEF Takes, Fits
<1>3. \A kind \in {"E0", "UA", "0840", "FE"} : Takes(kind, size) <=> size = 8 * K
  BY Schemes DEF Takes, Fits
<1>4. \A kind \in {"3F", "3E"} : Takes(kind, size) <=> size > 0 /\ size % (2 * K) = 0
  BY Schemes DEF Takes, Fits
<1>5. /\ Takes("SB", size) <=> size \in {128 * K, 256 * K}
      /\ Takes("4A50", size) <=> size \in {32 * K, 64 * K, 128 * K}
  BY Schemes DEF Takes, Fits
<1> QED
  BY <1>1, <1>2, <1>3, <1>4, <1>5

\* What a chain of n tests does right for images of a size: each board it
\* may give takes them, 3F and 3E boards have no more banks than a byte
\* counts, and 3F is asked for only after 3E.
Serves(chain, n, size) ==
  /\ n \in Nat \ {0} /\ DOMAIN chain = 1 .. n
  /\ chain[n].has = {} /\ chain[n].lacks = {}
  /\ \A i \in 1 .. n :
       /\ chain[i].kind = "none" \/ Takes(chain[i].kind, size)
       /\ chain[i].kind \in {"3F", "3E"} =>
            size \in {8 * K, 32 * K, 64 * K, 128 * K, 256 * K}
       /\ chain[i].kind = "3F" => \E j \in 1 .. i - 1 : chain[j] = If3E

LEMMA TestFacts ==
  /\ \A kind : Else(kind).has = {} /\ Else(kind).lacks = {} /\ Else(kind).kind = kind
  /\ \A has, kind : If(has, kind).kind = kind
  /\ \A has, lacks, kind : Unless(has, lacks, kind).kind = kind
  /\ If3E.kind = "3E" /\ If3F.kind = "3F"
BY DEF If, Else, Unless, If3E, If3F

LEMMA TigervisionTakes ==
  ASSUME NEW size \in {8 * K, 32 * K, 64 * K, 128 * K, 256 * K}
  PROVE  Takes("3F", size) /\ Takes("3E", size)
<1>1. size > 0 /\ size % (2 * K) = 0
  BY Kilo
<1> QED
  BY <1>1, OthersTake

LEMMA Serve8K == Serves(Chain8K, 8, 8 * K)
<1> DEFINE c == Chain8K
<1>1. /\ DOMAIN c = 1 .. 8
      /\ c[1] = If({"SC"}, "F8SC") /\ c[2] = If({"E0"}, "E0") /\ c[3] = If3E /\ c[4] = If3F
      /\ c[5] = If({"UA"}, "UA") /\ c[6] = Unless({"FE"}, {"F8"}, "FE")
      /\ c[7] = If({"0840"}, "0840") /\ c[8] = Else("F8")
  BY DEF Chain8K
<1>2. \A kind \in {"F8SC", "E0", "3E", "3F", "UA", "FE", "0840", "F8"} : Takes(kind, 8 * K)
  BY Kilo, Counts, RunTakes, OthersTake, TigervisionTakes
<1> HIDE DEF c
<1>3. \A i \in 1 .. 8 : /\ Takes(c[i].kind, 8 * K)
                        /\ c[i].kind = "3F" => i = 4
  BY <1>1, <1>2, TestFacts
<1>4. \A i \in 1 .. 8 : c[i].kind = "3F" => \E j \in 1 .. i - 1 : c[j] = If3E
  BY <1>1, <1>3
<1>5. c[8].has = {} /\ c[8].lacks = {}
  BY <1>1, TestFacts
<1>6. Serves(c, 8, 8 * K)
  BY <1>1, <1>3, <1>4, <1>5 DEF Serves
<1> QED
  BY <1>6 DEF c

LEMMA Serve2K == Serves(Chain2K, 2, 2 * K)
<1> DEFINE c == Chain2K
<1>1. /\ DOMAIN c = 1 .. 2
      /\ c[1] = If({"CV"}, "CV") /\ c[2] = Else("2K")
  BY DEF Chain2K
<1>2. \A kind \in {"CV", "2K"} : Takes(kind, 2 * K)
  BY Kilo, Counts, RunTakes, OthersTake
<1> HIDE DEF c
<1>3. \A i \in 1 .. 2 : Takes(c[i].kind, 2 * K)
  BY <1>1, <1>2, TestFacts
<1>4. \A i \in 1 .. 2 : c[i].kind \notin {"3F", "3E"}
  BY <1>1, TestFacts
<1>5. c[2].has = {} /\ c[2].lacks = {}
  BY <1>1, TestFacts
<1>6. Serves(c, 2, 2 * K)
  BY <1>1, <1>3, <1>4, <1>5 DEF Serves
<1> QED
  BY <1>6 DEF c

LEMMA Serve4K == Serves(Chain4K, 2, 4 * K)
<1> DEFINE c == Chain4K
<1>1. /\ DOMAIN c = 1 .. 2
      /\ c[1] = If({"CV"}, "CV") /\ c[2] = Else("4K")
  BY DEF Chain4K
<1>2. \A kind \in {"CV", "4K"} : Takes(kind, 4 * K)
  BY Kilo, Counts, RunTakes, OthersTake
<1> HIDE DEF c
<1>3. \A i \in 1 .. 2 : Takes(c[i].kind, 4 * K)
  BY <1>1, <1>2, TestFacts
<1>4. \A i \in 1 .. 2 : c[i].kind \notin {"3F", "3E"}
  BY <1>1, TestFacts
<1>5. c[2].has = {} /\ c[2].lacks = {}
  BY <1>1, TestFacts
<1>6. Serves(c, 2, 4 * K)
  BY <1>1, <1>3, <1>4, <1>5 DEF Serves
<1> QED
  BY <1>6 DEF c

LEMMA Serve16K == Serves(Chain16K, 3, 16 * K)
<1> DEFINE c == Chain16K
<1>1. /\ DOMAIN c = 1 .. 3
      /\ c[1] = If({"E7"}, "E7") /\ c[2] = If({"SC"}, "F6SC") /\ c[3] = Else("F6")
  BY DEF Chain16K
<1>2. \A kind \in {"E7", "F6SC", "F6"} : Takes(kind, 16 * K)
  BY Kilo, Counts, RunTakes, OthersTake
<1> HIDE DEF c
<1>3. \A i \in 1 .. 3 : Takes(c[i].kind, 16 * K)
  BY <1>1, <1>2, TestFacts
<1>4. \A i \in 1 .. 3 : c[i].kind \notin {"3F", "3E"}
  BY <1>1, TestFacts
<1>5. c[3].has = {} /\ c[3].lacks = {}
  BY <1>1, TestFacts
<1>6. Serves(c, 3, 16 * K)
  BY <1>1, <1>3, <1>4, <1>5 DEF Serves
<1> QED
  BY <1>6 DEF c

LEMMA Serve32K == Serves(Chain32K, 4, 32 * K)
<1> DEFINE c == Chain32K
<1>1. /\ DOMAIN c = 1 .. 4
      /\ c[1] = If({"SC"}, "F4SC") /\ c[2] = If3E /\ c[3] = If3F /\ c[4] = Else("F4")
  BY DEF Chain32K
<1>2. \A kind \in {"F4SC", "3E", "3F", "F4"} : Takes(kind, 32 * K)
  BY Kilo, Counts, RunTakes, OthersTake, TigervisionTakes
<1> HIDE DEF c
<1>3. \A i \in 1 .. 4 : /\ Takes(c[i].kind, 32 * K)
                        /\ c[i].kind = "3F" => i = 3
  BY <1>1, <1>2, TestFacts
<1>4. \A i \in 1 .. 4 : c[i].kind = "3F" => \E j \in 1 .. i - 1 : c[j] = If3E
  BY <1>1, <1>3
<1>5. c[4].has = {} /\ c[4].lacks = {}
  BY <1>1, TestFacts
<1>6. Serves(c, 4, 32 * K)
  BY <1>1, <1>3, <1>4, <1>5 DEF Serves
<1> QED
  BY <1>6 DEF c

LEMMA Serve64K == Serves(Chain64K, 8, 64 * K)
<1> DEFINE c == Chain64K
<1>1. /\ DOMAIN c = 1 .. 8
      /\ c[1] = If3E /\ c[2] = If3F /\ c[3] = If({"4A50"}, "4A50") /\ c[4] = If({"EF"}, "EF")
      /\ c[5] = If({"EFSC"}, "EFSC") /\ c[6] = If({"EFop"}, "EF") /\ c[7] = If({"X07"}, "X07")
      /\ c[8] = Else("F0")
  BY DEF Chain64K
<1>2. \A kind \in {"3E", "3F", "4A50", "EF", "EFSC", "X07", "F0"} : Takes(kind, 64 * K)
  BY Kilo, Counts, RunTakes, OthersTake, TigervisionTakes
<1> HIDE DEF c
<1>3. \A i \in 1 .. 8 : /\ Takes(c[i].kind, 64 * K)
                        /\ c[i].kind = "3F" => i = 2
  BY <1>1, <1>2, TestFacts
<1>4. \A i \in 1 .. 8 : c[i].kind = "3F" => \E j \in 1 .. i - 1 : c[j] = If3E
  BY <1>1, <1>3
<1>5. c[8].has = {} /\ c[8].lacks = {}
  BY <1>1, TestFacts
<1>6. Serves(c, 8, 64 * K)
  BY <1>1, <1>3, <1>4, <1>5 DEF Serves
<1> QED
  BY <1>6 DEF c

LEMMA Serve128K == Serves(Chain128K, 6, 128 * K)
<1> DEFINE c == Chain128K
<1>1. /\ DOMAIN c = 1 .. 6
      /\ c[1] = If3E /\ c[2] = If({"DF"}, "DF") /\ c[3] = If({"DFSC"}, "DFSC") /\ c[4] = If3F
      /\ c[5] = If({"4A50"}, "4A50") /\ c[6] = Else("SB")
  BY DEF Chain128K
<1>2. \A kind \in {"3E", "DF", "DFSC", "3F", "4A50", "SB"} : Takes(kind, 128 * K)
  BY Kilo, Counts, RunTakes, OthersTake, TigervisionTakes
<1> HIDE DEF c
<1>3. \A i \in 1 .. 6 : /\ Takes(c[i].kind, 128 * K)
                        /\ c[i].kind = "3F" => i = 4
  BY <1>1, <1>2, TestFacts
<1>4. \A i \in 1 .. 6 : c[i].kind = "3F" => \E j \in 1 .. i - 1 : c[j] = If3E
  BY <1>1, <1>3
<1>5. c[6].has = {} /\ c[6].lacks = {}
  BY <1>1, TestFacts
<1>6. Serves(c, 6, 128 * K)
  BY <1>1, <1>3, <1>4, <1>5 DEF Serves
<1> QED
  BY <1>6 DEF c

LEMMA Serve256K == Serves(Chain256K, 5, 256 * K)
<1> DEFINE c == Chain256K
<1>1. /\ DOMAIN c = 1 .. 5
      /\ c[1] = If3E /\ c[2] = If({"BF"}, "BF") /\ c[3] = If({"BFSC"}, "BFSC") /\ c[4] = If3F
      /\ c[5] = Else("SB")
  BY DEF Chain256K
<1>2. \A kind \in {"3E", "BF", "BFSC", "3F", "SB"} : Takes(kind, 256 * K)
  BY Kilo, Counts, RunTakes, OthersTake, TigervisionTakes
<1> HIDE DEF c
<1>3. \A i \in 1 .. 5 : /\ Takes(c[i].kind, 256 * K)
                        /\ c[i].kind = "3F" => i = 4
  BY <1>1, <1>2, TestFacts
<1>4. \A i \in 1 .. 5 : c[i].kind = "3F" => \E j \in 1 .. i - 1 : c[j] = If3E
  BY <1>1, <1>3
<1>5. c[5].has = {} /\ c[5].lacks = {}
  BY <1>1, TestFacts
<1>6. Serves(c, 5, 256 * K)
  BY <1>1, <1>3, <1>4, <1>5 DEF Serves
<1> QED
  BY <1>6 DEF c

LEMMA ServeOne ==
  ASSUME NEW kind, kind \notin {"3F", "3E"}, NEW size, kind = "none" \/ Takes(kind, size)
  PROVE  Serves(<<Else(kind)>>, 1, size)
<1> DEFINE c == <<Else(kind)>>
<1>1. DOMAIN c = 1 .. 1 /\ c[1] = Else(kind)
  OBVIOUS
<1> HIDE DEF c
<1>2. Serves(c, 1, size)
  BY <1>1, TestFacts DEF Serves
<1> QED
  BY <1>2 DEF c

\* Every size has such a chain.
LEMMA ChainServes ==
  ASSUME NEW size \in Nat
  PROVE  \E n \in Nat : Serves(Chain(size), n, size)
<1> DEFINE named == {2 * K, 4 * K, 8 * K, 12 * K, 16 * K, 32 * K, 64 * K, 128 * K, 256 * K}
           dpc == 10 * K .. 10 * K + 256
<1>1. \A n \in named : n \notin dpc
  BY Kilo
<1>2. CASE size = 2 * K
  BY <1>2, Serve2K, Kilo DEF Chain
<1>3. CASE size = 4 * K
  BY <1>3, Serve4K, Kilo DEF Chain
<1>4. CASE size = 8 * K
  BY <1>4, Serve8K, Kilo DEF Chain
<1>5. CASE size = 12 * K
  <2>1. Chain(size) = <<Else("FA")>>
    BY <1>1, <1>5, Kilo DEF Chain
  <2>2. Takes("FA", size)
    BY <1>5, Counts, RunTakes, Kilo
  <2> QED
    BY <2>1, <2>2, ServeOne
<1>6. CASE size = 16 * K
  BY <1>1, <1>6, Serve16K, Kilo DEF Chain
<1>7. CASE size = 32 * K
  BY <1>1, <1>7, Serve32K, Kilo DEF Chain
<1>8. CASE size = 64 * K
  BY <1>1, <1>8, Serve64K, Kilo DEF Chain
<1>9. CASE size = 128 * K
  BY <1>1, <1>9, Serve128K, Kilo DEF Chain
<1>10. CASE size = 256 * K
  BY <1>1, <1>10, Serve256K, Kilo DEF Chain
<1>11. CASE size \in dpc
  <2>1. Chain(size) = <<Else("DPC")>>
    BY <1>1, <1>11, Kilo DEF Chain
  <2>2. Takes("DPC", size)
    BY <1>11, Kilo DEF Takes
  <2> QED
    BY <2>1, <2>2, ServeOne
<1>12. CASE size \notin named /\ size \notin dpc
  <2>1. Chain(size) = <<Else("none")>>
    BY <1>12 DEF Chain
  <2> QED
    BY <2>1, ServeOne
<1> QED
  BY <1>2, <1>3, <1>4, <1>5, <1>6, <1>7, <1>8, <1>9, <1>10, <1>11, <1>12

\* What detect() gives takes the image, and has no banks to fear.
LEMMA DetectFacts ==
  ASSUME NEW im, im.size \in Nat
  PROVE  /\ Detect(im) = "none" \/ Takes(Detect(im), im.size)
         /\ Detect(im) \in {"3F", "3E"} =>
              im.size \in {8 * K, 32 * K, 64 * K, 128 * K, 256 * K}
         /\ {"3E", "3F"} \subseteq im.marks => Detect(im) # "3F"
<1> DEFINE cdf == CdfKind(im.marks)
           tape == im.size % LoadSize = 0 /\ im.size \div LoadSize \in 1 .. 32
           plus == "DPC+" \in im.marks /\ DpcPlusTakes(im.size)
           driver == cdf # "none" /\ CdfTakes(cdf, im.size)
<1>1. Detect(im) = IF tape THEN "AR" ELSE IF plus THEN "DPC+" ELSE IF driver THEN cdf
                   ELSE FirstMatch(Chain(im.size), im.marks)
  BY DEF Detect
<1>2. cdf \in {"CDF0", "CDF1", "CDFJ", "CDFJ+", "none"}
  BY DEF CdfKind
<1>3. CASE tape
  BY <1>1, <1>3 DEF Takes
<1>4. CASE ~ tape /\ plus
  BY <1>1, <1>4 DEF Takes
<1>5. CASE ~ tape /\ ~ plus /\ driver
  <2> HIDE DEF tape, plus, cdf
  <2> QED
    BY <1>1, <1>2, <1>5 DEF Takes
<1>6. CASE ~ tape /\ ~ plus /\ ~ driver
  <2> DEFINE chain == Chain(im.size)
  <2>1. PICK n \in Nat : Serves(chain, n, im.size)
    BY ChainServes
  <2>2. Detect(im) = FirstMatch(chain, im.marks)
    BY <1>1, <1>6
  <2> HIDE DEF chain
  <2>3. PICK i \in 1 .. n : /\ FirstMatch(chain, im.marks) = chain[i].kind
                            /\ \A j \in 1 .. i - 1 : ~ Matches(chain[j], im.marks)
    BY <2>1, FirstMatches DEF Serves
  <2>4. {"3E", "3F"} \subseteq im.marks => Matches(If3E, im.marks)
    BY DEF Matches, If3E, If
  <2> QED
    BY <2>1, <2>2, <2>3, <2>4 DEF Serves
<1> QED
  BY <1>3, <1>4, <1>5, <1>6
------------------------------------------------------------------------------
(* The invariant.                                                          *)

\* Where a program runs and where its call came from.
Called ==
  /\ page \in {\hD0, \hF0}
  /\ callers \in {<<>>, <<\hD0>>, <<\hF0>>}
  /\ board.kind # "FE" => page = \hF0

IInv ==
  /\ board.kind \in Plain => Sound(board)
  /\ DetectedFits
  /\ FeLands
  /\ Called

\* A plain board as its new() leaves it.
LEMMA NewSound ==
  ASSUME NEW kind \in Plain, NEW size \in Nat, Takes(kind, size),
         kind \in {"3F", "3E"} => size \in {8 * K, 32 * K, 64 * K, 128 * K, 256 * K}
  PROVE  Sound(NewBoard(kind, size))
<1> DEFINE b == NewBoard(kind, size)
<1>1. /\ b = [kind |-> kind, banks |-> Banks(kind, size), sel |-> StartSel(kind),
              ram |-> EmptyRam]
      /\ b.kind = kind /\ b.banks = Banks(kind, size) /\ b.sel = StartSel(kind)
      /\ b.ram = EmptyRam
  BY DEF NewBoard
<1> HIDE DEF b
<1>2. IsBoard(b)
  BY <1>1 DEF IsBoard
<1>3. Stores(b)
  <2>1. DOMAIN EmptyRam = {} /\ EmptyRam \in [{} -> ByteValues]
    BY DEF EmptyRam
  <2> QED
    BY <1>1, <2>1 DEF Stores
<1>4. Sized(b)
  <2>1. CASE HasRun(kind)
    <3>1. size = Count(kind) * 4 * K /\ Count(kind) \in Nat
      BY <2>1, RunTakes, RunLengths
    <3>2. b.banks = size \div (4 * K)
      BY <1>1, <2>1, Schemes DEF Banks
    <3>3. b.banks = Count(kind)
      BY <3>1, <3>2, Kilo
    <3> QED
      BY <1>1, <2>1, <3>3, Schemes DEF Sized
  <2>2. CASE kind \in {"2K", "4K", "CV", "E7", "F0", "X07", "E0", "UA", "0840", "FE", "SB", "4A50"}
    <3>1. b.banks = size \div (4 * K)
      BY <1>1, <2>2 DEF Banks
    <3>2. /\ kind = "4K" => size = 4 * K
          /\ kind \in {"E0", "UA", "0840", "FE"} => size = 8 * K
          /\ kind = "E7" => size = 16 * K
          /\ kind \in {"F0", "X07"} => size = 64 * K
          /\ kind = "SB" => size \in {128 * K, 256 * K}
      BY OthersTake
    <3>3. /\ kind = "4K" => b.banks = 1
          /\ kind \in {"E0", "UA", "0840", "FE"} => b.banks = 2
          /\ kind = "E7" => b.banks = 4
          /\ kind \in {"F0", "X07"} => b.banks = 16
          /\ kind = "SB" => b.banks \in {32, 64}
      BY <3>1, <3>2, Kilo
    <3> QED
      BY <1>1, <2>2, <3>3, Schemes DEF Sized
  <2>3. CASE kind \in {"3F", "3E"}
    <3>1. b.banks = (size \div (2 * K)) % 256
      BY <1>1, <2>3 DEF Banks
    <3>2. b.banks \in 1 .. 128
      BY <2>3, <3>1, Kilo
    <3> QED
      BY <1>1, <2>3, <3>2, Schemes DEF Sized
  <2> QED
    BY <2>1, <2>2, <2>3, PlainKinds
<1>5. Selects(b, b.sel)
  <2>1. CASE HasRun(kind)
    <3>1. b.sel = <<Runs[Scheme(kind)].start>>
      BY <1>1, <2>1, Schemes DEF StartSel
    <3>2. Runs[Scheme(kind)].start \in 0 .. Count(kind) - 1
      BY <2>1, RunLengths
    <3>3. b.sel \in [1 .. 1 -> 0 .. Count(kind) - 1]
      BY <3>1, <3>2
    <3> QED
      BY <1>1, <2>1, <3>3, Schemes DEF Selects
  <2>2. CASE kind \in {"2K", "4K", "CV", "UA", "0840", "X07"}
    <3>1. b.sel = <<0>>
      BY <1>1, <2>2, Schemes DEF StartSel
    <3> QED
      BY <1>1, <2>2, <3>1, Schemes DEF Selects
  <2>3. CASE kind \in {"3F", "SB"}
    <3>1. b.sel = <<0>>
      BY <1>1, <2>3, Schemes DEF StartSel
    <3>2. b.banks \in Nat /\ 0 \in 0 .. b.banks - 1
      BY <1>1, <1>4, <2>3 DEF Sized
    <3>3. b.sel \in [1 .. 1 -> 0 .. b.banks - 1]
      BY <3>1, <3>2
    <3> QED
      BY <1>1, <2>3, <3>3, Schemes DEF Selects
  <2>4. CASE kind = "3E"
    <3>1. b.sel = <<0, -1>>
      BY <1>1, <2>4, Schemes DEF StartSel, NoRamBank
    <3>2. b.banks \in 1 .. 128
      BY <1>1, <1>4, <2>4 DEF Sized
    <3> QED
      BY <1>1, <2>4, <3>1, <3>2, Schemes DEF Selects, NoRamBank, RamBanks
  <2>5. CASE kind \in {"FE", "E7"}
    <3>1. b.sel = <<0, 0>>
      BY <1>1, <2>5, Schemes DEF StartSel
    <3> QED
      BY <1>1, <2>5, <3>1, Schemes DEF Selects
  <2>6. CASE kind = "F0"
    <3>1. b.sel = <<15>>
      BY <1>1, <2>6, Schemes DEF StartSel
    <3> QED
      BY <1>1, <2>6, <3>1, Schemes DEF Selects
  <2>7. CASE kind = "E0"
    <3>1. b.sel = <<4, 5, 6>>
      BY <1>1, <2>7, Schemes DEF StartSel
    <3> QED
      BY <1>1, <2>7, <3>1, Schemes DEF Selects
  <2>8. CASE kind = "4A50"
    <3> DEFINE first == Slice(TRUE, 0)
               armed == FALSE
    <3>1. b.sel = [low |-> first, middle |-> first, high |-> first, armed |-> armed]
      BY <1>1, <2>8, Schemes DEF StartSel
    <3>2. first \in LowSlices /\ first \in HighSlices /\ armed \in BOOLEAN
      BY DEF LowSlices, HighSlices, Slice
    <3> HIDE DEF first, armed
    <3>3. b.sel \in Sliced
      BY <3>1, <3>2 DEF Sliced
    <3> QED
      BY <1>1, <2>8, <3>3, SlicedSelects
  <2> QED
    BY <2>1, <2>2, <2>3, <2>4, <2>5, <2>6, <2>7, <2>8, PlainKinds
<1>6. Sound(b)
  BY <1>1, <1>2, <1>3, <1>4, <1>5 DEF Sound
<1> QED
  BY <1>6 DEF b

\* The invariant holds of the empty slot,
LEMMA InitIInv == CartridgeInit => IInv
BY DEF CartridgeInit, IInv, NoBoard, NoImage, Plain, Superchips, DetectedFits, Inserted, FeLands,
       Called

\* and an image that is put in starts with it.
LEMMA InsertKeeps ==
  ASSUME IInv, NEW im \in Images, Insert(im)
  PROVE  IInv'
<1> DEFINE kind == Detect(im)
<1>1. im.size \in Nat
  BY CartridgeAssumption
<1>2. /\ kind = "none" \/ Takes(kind, im.size)
      /\ kind \in {"3F", "3E"} => im.size \in {8 * K, 32 * K, 64 * K, 128 * K, 256 * K}
      /\ {"3E", "3F"} \subseteq im.marks => kind # "3F"
  BY <1>1, DetectFacts
<1>3. /\ board' = IF kind = "none" THEN NoBoard ELSE NewBoard(kind, im.size)
      /\ image' = im /\ page' = page /\ callers' = callers
      /\ board.kind = "none"
  BY DEF Insert, Inserted
<1> HIDE DEF kind
<1>4. /\ NoBoard.kind = "none"
      /\ NewBoard(kind, im.size).kind = kind
      /\ NewBoard(kind, im.size).sel = StartSel(kind)
  BY DEF NoBoard, NewBoard
<1>5. board'.kind = kind
  BY <1>3, <1>4
<1>6. "none" \notin Plain
  BY DEF Plain, Superchips
<1>7. (board.kind \in Plain => Sound(board))'
  BY <1>1, <1>2, <1>3, <1>5, <1>6, NewSound
<1>8. DetectedFits'
  BY <1>2, <1>3, <1>5 DEF DetectedFits, Inserted
<1>9. Called' /\ page = \hF0
  BY <1>3 DEF IInv, Called
<1>10. FeLands'
  <2>1. CASE kind = "FE"
    <3>1. board'.sel = <<0, 0>>
      BY <1>3, <1>4, <2>1, Schemes DEF StartSel
    <3> QED
      BY <1>3, <1>9, <3>1 DEF FeLands
  <2>2. CASE kind # "FE"
    BY <1>5, <2>2 DEF FeLands
  <2> QED
    BY <2>1, <2>2
<1> QED
  BY <1>7, <1>8, <1>9, <1>10 DEF IInv

\* A read gives a byte.
LEMMA GivenBytes ==
  ASSUME NEW b, Sound(b), NEW addr \in Console \cup Window
  PROVE  Given(b, addr) \subseteq ByteValues
<1> DEFINE h == Hotspot(b, addr)
           p == ReadPlace(h, Low(addr))
<1>1. Inside(h, p)
  BY Halves, HotspotSound, ReadInside
<1>2. p.mem \in {"rom", "ram", "none"}
  <2> HIDE DEF p
  <2> QED
    BY <1>1 DEF Inside, Rom, Ram, Nothing
<1>3. Values \subseteq ByteValues
  BY ValuesAreBytes
<1>4. 0 \in ByteValues /\ b.ram \in [DOMAIN b.ram -> ByteValues]
  BY ByteFacts DEF Sound, Stores
<1>5. Cell(b.ram, p.at) \in ByteValues
  BY <1>4 DEF Cell
<1>6. Given(b, addr) = CASE p.mem = "rom"  -> Values
                         [] p.mem = "ram"  -> {Cell(b.ram, p.at)}
                         [] p.mem = "none" -> {0}
  BY DEF Given
<1> HIDE DEF p
<1>7. Given(b, addr) \subseteq ByteValues
  BY <1>2, <1>3, <1>4, <1>5, <1>6
<1> QED
  BY <1>7

\* An access of a program.
LEMMA AccessKeeps ==
  ASSUME IInv, board.kind \in Plain, NEW op \in {"read", "write"},
         NEW addr \in Console \cup Window, NEW v \in ByteValues, Access(op, addr, v)
  PROVE  IInv'
<1>1. Sound(board) /\ DetectedFits /\ FeLands /\ Called
  BY DEF IInv
<1>2. board' = Seen(board, [op |-> op, addr |-> addr, v |-> v])
      /\ image' = image /\ page' = page /\ callers' = callers
  BY DEF Access
<1>3. /\ Sound(board') /\ board'.kind = board.kind
      /\ board.kind = "FE" => board'.sel = FeSwitch(board.sel, addr, v)
  BY <1>1, <1>2, SeenSound
<1>4. FeLands'
  <2>1. CASE board.kind = "FE"
    <3>1. addr # \h01FE
      BY <2>1 DEF Access, Free
    <3>2. board.sel = <<IF page = \hD0 THEN 1 ELSE 0, 0>>
      BY <1>1, <2>1 DEF FeLands
    <3>3. FeSwitch(board.sel, addr, v) = board.sel
      BY <3>1, <3>2 DEF FeSwitch
    <3> QED
      BY <1>2, <1>3, <2>1, <3>2, <3>3 DEF FeLands
  <2>2. CASE board.kind # "FE"
    BY <1>3, <2>2 DEF FeLands
  <2> QED
    BY <2>1, <2>2
<1>5. DetectedFits' /\ Called'
  BY <1>1, <1>2, <1>3 DEF DetectedFits, Inserted, Called
<1> QED
  BY <1>3, <1>4, <1>5 DEF IInv

\* What an access of a call or a return does to an FE board.
MadeAt(access, addr, v) ==
  /\ access \in {R(addr, v), W(addr, v)}
  /\ addr \in Nat /\ addr < \h2000 /\ v \in Nat /\ v < 256

LEMMA FeSeen ==
  ASSUME NEW b, Sound(b), b.kind = "FE", NEW access, NEW addr, NEW v, MadeAt(access, addr, v)
  PROVE  /\ Sound(Seen(b, access))
         /\ Seen(b, access).kind = "FE"
         /\ Seen(b, access).sel = FeSwitch(b.sel, addr, v)
<1>1. /\ access \in {R(addr, v), W(addr, v)}
      /\ addr \in Nat /\ addr < \h2000 /\ v \in Nat /\ v < 256
  BY DEF MadeAt
<1>2. addr \in Console \cup Window
  <2> DEFINE lo == \h1000
             mid == \h0FFF
             hi == \h1FFF
  <2>1. lo \in Int /\ mid \in Int /\ hi \in Int /\ lo = mid + 1 /\ addr \in Nat /\ addr <= hi
    BY <1>1
  <2>2. Console = 0 .. mid /\ Window = lo .. hi
    BY DEF Console, Window
  <2> HIDE DEF lo, mid, hi
  <2> QED
    BY <2>1, <2>2
<1>3. PICK op \in {"read", "write"} : access = [op |-> op, addr |-> addr, v |-> v]
  BY <1>1 DEF R, W
<1>4. v \in ByteValues
  BY <1>1, ByteFacts
<1>5. /\ Sound(Seen(b, access))
      /\ Seen(b, access).kind = b.kind
      /\ b.kind = "FE" => Seen(b, access).sel = FeSwitch(b.sel, addr, v)
  BY <1>2, <1>3, <1>4, SeenSound
<1> QED
  BY <1>5

\* A bank is selected by bit 5 of the high byte of the target.
Bank(to) == IF to = \hD0 THEN 1 ELSE 0

LEMMA BankOfTarget ==
  ASSUME NEW to \in {\hD0, \hF0}
  PROVE  to \in Nat /\ to < 256 /\ 1 - ((to \div 32) % 2) = Bank(to)
BY DEF Bank

\* An FE board in bank n, or about to switch.
At0(b, n) == Sound(b) /\ b.kind = "FE" /\ b.sel = <<n, 0>>
Armed(b) == Sound(b) /\ b.kind = "FE" /\ b.sel[2] = 1

\* All accesses but one at 01FE, and the one that follows it, leave it alone.
LEMMA FeQuiet ==
  ASSUME NEW b, NEW n, At0(b, n), NEW addr \in Nat, addr < \h2000, addr # \h01FE,
         NEW v \in Nat, v < 256, NEW access \in {R(addr, v), W(addr, v)}
  PROVE  At0(Seen(b, access), n)
<1> DEFINE c == Seen(b, access)
<1>1. Sound(b) /\ b.kind = "FE" /\ b.sel[1] = n /\ b.sel[2] = 0
  BY DEF At0
<1>m. MadeAt(access, addr, v)
  BY DEF MadeAt
<1>2. Sound(c) /\ c.kind = "FE" /\ c.sel = FeSwitch(b.sel, addr, v)
  BY <1>1, <1>m, FeSeen
<1> HIDE DEF c
<1> QED
  BY <1>1, <1>2 DEF At0, FeSwitch, c

LEMMA FeArms ==
  ASSUME NEW b, NEW n, At0(b, n), NEW v \in Nat, v < 256,
         NEW access \in {R(\h01FE, v), W(\h01FE, v)}
  PROVE  Armed(Seen(b, access))
<1> DEFINE c == Seen(b, access)
           addr == \h01FE
<1>1. Sound(b) /\ b.kind = "FE" /\ b.sel[1] = n /\ b.sel[2] = 0
  BY DEF At0
<1>2. MadeAt(access, addr, v)
  BY DEF MadeAt
<1>3. Sound(c) /\ c.kind = "FE" /\ c.sel = FeSwitch(b.sel, addr, v)
  BY <1>1, <1>2, FeSeen
<1> HIDE DEF c
<1> QED
  BY <1>1, <1>3 DEF Armed, FeSwitch, c

LEMMA FeSwitches ==
  ASSUME NEW b, Armed(b), NEW addr \in Nat, addr < \h2000, NEW to \in {\hD0, \hF0},
         NEW access \in {R(addr, to), W(addr, to)}
  PROVE  At0(Seen(b, access), Bank(to))
<1> DEFINE c == Seen(b, access)
<1>1. Sound(b) /\ b.kind = "FE" /\ b.sel[2] = 1
  BY DEF Armed
<1>m. MadeAt(access, addr, to)
  BY BankOfTarget DEF MadeAt
<1>2. Sound(c) /\ c.kind = "FE" /\ c.sel = FeSwitch(b.sel, addr, to)
  BY <1>1, <1>m, FeSeen
<1> HIDE DEF c
<1> QED
  BY <1>1, <1>2, BankOfTarget DEF At0, FeSwitch, c

\* A call lands in the bank of its target,
LEMMA JsrLands ==
  ASSUME NEW n, At0(board, n), page \in {\hD0, \hF0}, NEW to \in {\hD0, \hF0}
  PROVE  At0(Watched(JsrAccesses(page, to)), Bank(to))
<1> DEFINE a == JsrAccesses(page, to)
           b1 == Seen(board, a[1])
           b2 == Seen(b1, a[2])
           b3 == Seen(b2, a[3])
           b4 == Seen(b3, a[4])
           b5 == Seen(b4, a[5])
           b6 == Seen(b5, a[6])
<1>1. /\ a[1] = R(\h1200, \h20) /\ a[2] = R(\h1201, \h34) /\ a[3] = R(\h01FF, 0)
      /\ a[4] = W(\h01FF, page) /\ a[5] = W(\h01FE, \h02) /\ a[6] = R(\h1202, to)
  BY DEF JsrAccesses
<1>2. Watched(a) = b6
  BY DEF Watched
<1> HIDE DEF a
<1>3. At0(b1, n)
  BY <1>1, FeQuiet
<1>4. At0(b2, n)
  <2> HIDE DEF b1
  <2> QED
    BY <1>1, <1>3, FeQuiet
<1>5. At0(b3, n)
  <2> HIDE DEF b2
  <2> QED
    BY <1>1, <1>4, FeQuiet
<1>6. At0(b4, n)
  <2> HIDE DEF b3
  <2>1. page \in Nat /\ page < 256
    BY BankOfTarget
  <2> QED
    BY <1>1, <1>5, <2>1, FeQuiet
<1>7. Armed(b5)
  <2> HIDE DEF b4
  <2> QED
    BY <1>1, <1>6, FeArms
<1>8. At0(b6, Bank(to))
  <2> HIDE DEF b5
  <2> QED
    BY <1>1, <1>7, FeSwitches
<1> QED
  BY <1>2, <1>8 DEF a

\* and a return in that of its caller, with what follows it.
LEMMA RtsLands ==
  ASSUME NEW n, At0(board, n), NEW to \in {\hD0, \hF0}
  PROVE  At0(Watched(RtsAccesses(to)), Bank(to))
<1> DEFINE a == RtsAccesses(to)
           b1 == Seen(board, a[1])
           b2 == Seen(b1, a[2])
           b3 == Seen(b2, a[3])
           b4 == Seen(b3, a[4])
           b5 == Seen(b4, a[5])
           b6 == Seen(b5, a[6])
<1>1. /\ a[1] = R(\h1234, \h60) /\ a[2] = R(\h1235, \hA9) /\ a[3] = R(\h01FD, 0)
      /\ a[4] = R(\h01FE, \h02) /\ a[5] = R(\h01FF, to) /\ a[6] = R(\h1202, \hA9)
  BY DEF RtsAccesses
<1>2. Watched(a) = b6
  BY DEF Watched
<1> HIDE DEF a
<1>3. At0(b1, n)
  BY <1>1, FeQuiet
<1>4. At0(b2, n)
  <2> HIDE DEF b1
  <2> QED
    BY <1>1, <1>3, FeQuiet
<1>5. At0(b3, n)
  <2> HIDE DEF b2
  <2> QED
    BY <1>1, <1>4, FeQuiet
<1>6. Armed(b4)
  <2> HIDE DEF b3
  <2> QED
    BY <1>1, <1>5, FeArms
<1>7. At0(b5, Bank(to))
  <2> HIDE DEF b4
  <2> QED
    BY <1>1, <1>6, FeSwitches
<1>8. At0(b6, Bank(to))
  <2> HIDE DEF b5
  <2> QED
    BY <1>1, <1>7, FeQuiet
<1> QED
  BY <1>2, <1>8 DEF a

\* Every step keeps the invariant.
LEMMA NextIInv == IInv /\ [CartridgeNext]_cartridgeVars => IInv'
<1> SUFFICES ASSUME IInv, [CartridgeNext]_cartridgeVars
             PROVE  IInv'
  OBVIOUS
<1>1. CASE UNCHANGED cartridgeVars
  BY <1>1 DEF cartridgeVars, IInv, DetectedFits, Inserted, FeLands, Called
<1>2. ASSUME NEW im \in Images, Insert(im)
      PROVE  IInv'
  BY <1>2, InsertKeeps
<1>3. CASE CpuRead
  <2>1. PICK addr \in Addresses[board.kind] :
           \E v \in IF addr \in Window THEN Given(board, addr) ELSE Values :
             Access("read", addr, v)
    BY <1>3 DEF CpuRead
  <2>2. board.kind \in Plain
    BY <1>3 DEF CpuRead
  <2>3. addr \in Console \cup Window
    BY <2>2, CartridgeAssumption
  <2>4. PICK v \in IF addr \in Window THEN Given(board, addr) ELSE Values :
          Access("read", addr, v)
    BY <2>1
  <2>5. v \in ByteValues
    BY <2>2, <2>3, GivenBytes, ValuesAreBytes DEF IInv
  <2> QED
    BY <2>2, <2>3, <2>4, <2>5, AccessKeeps
<1>4. CASE CpuWrite
  <2>1. PICK addr \in Addresses[board.kind], v \in Values : Access("write", addr, v)
    BY <1>4 DEF CpuWrite
  <2>2. board.kind \in Plain
    BY <1>4 DEF CpuWrite
  <2>3. addr \in Console \cup Window /\ v \in ByteValues
    BY <2>2, CartridgeAssumption, ValuesAreBytes
  <2> QED
    BY <2>1, <2>2, <2>3, AccessKeeps
<1>5. board.kind = "FE" => At0(board, Bank(page)) /\ page \in {\hD0, \hF0}
  BY DEF IInv, FeLands, Called, Bank, At0, Plain
<1>6. ASSUME NEW to \in {\hD0, \hF0}, Jsr(to)
      PROVE  IInv'
  <2>1. board.kind = "FE" /\ board' = Watched(JsrAccesses(page, to))
        /\ page' = to /\ callers' = <<page>> /\ image' = image
    BY <1>6 DEF Jsr
  <2>2. Sound(board') /\ board'.kind = "FE" /\ board'.sel = <<Bank(to), 0>>
    BY <1>5, <2>1, JsrLands DEF At0
  <2>3. DetectedFits' /\ FeLands' /\ Called'
    BY <1>5, <2>1, <2>2 DEF IInv, DetectedFits, Inserted, FeLands, Called, Bank
  <2> QED
    BY <2>2, <2>3 DEF IInv
<1>7. CASE Rts
  <2> DEFINE to == Head(callers)
  <2>1. board.kind = "FE" /\ board' = Watched(RtsAccesses(to))
        /\ page' = to /\ callers' = <<>> /\ image' = image
    BY <1>7 DEF Rts
  <2>2. to \in {\hD0, \hF0}
    BY <1>7 DEF Rts, IInv, Called
  <2> HIDE DEF to
  <2>3. Sound(board') /\ board'.kind = "FE" /\ board'.sel = <<Bank(to), 0>>
    BY <1>5, <2>1, <2>2, RtsLands DEF At0
  <2>4. DetectedFits' /\ FeLands' /\ Called'
    BY <2>1, <2>2, <2>3 DEF IInv, DetectedFits, Inserted, FeLands, Called, Bank
  <2> QED
    BY <2>3, <2>4 DEF IInv
<1> QED
  BY <1>1, <1>2, <1>3, <1>4, <1>6, <1>7 DEF CartridgeNext

LEMMA Invariance == CartridgeSpec => []IInv
BY InitIInv, NextIInv, PTL DEF CartridgeSpec

------------------------------------------------------------------------------
(* The theorems.                                                           *)

\* The registers of a sound board keep the range InBounds gives them.
LEMMA RegistersKeep ==
  ASSUME NEW b, Sound(b), b.kind # "4A50", NEW i \in DOMAIN b.sel
  PROVE  b.sel[i] \in -1 .. 127
<1>1. b.kind \in Plain /\ Selects(b, b.sel) /\ Sized(b)
  BY DEF Sound
<1>2. CASE HasRun(b.kind)
  <2>1. b.sel \in [1 .. 1 -> 0 .. Count(b.kind) - 1]
    BY <1>1, <1>2 DEF Selects
  <2>2. Count(b.kind) \in {2, 3, 4, 8, 16, 32, 64}
    BY <1>2, RunLengths
  <2> QED
    BY <2>1, <2>2
<1>3. CASE b.kind \in {"2K", "4K", "CV"}
  <2>1. b.sel \in [1 .. 1 -> {0}]
    BY <1>1, <1>3 DEF Selects
  <2> QED
    BY <2>1
<1>4. CASE b.kind \in {"UA", "0840", "F0", "X07"}
  <2>1. b.sel \in [1 .. 1 -> 0 .. 1] \/ b.sel \in [1 .. 1 -> 0 .. 15]
    BY <1>1, <1>4 DEF Selects
  <2> QED
    BY <2>1
<1>5. CASE b.kind \in {"3F", "SB"}
  <2>1. b.sel \in [1 .. 1 -> 0 .. b.banks - 1] /\ b.banks \in Nat /\ b.banks <= 128
    BY <1>1, <1>5 DEF Selects, Sized
  <2> QED
    BY <2>1
<1>6. CASE b.kind \in {"FE", "E7"}
  <2>1. b.sel \in [1 .. 2 -> 0 .. 1] \/ b.sel \in [1 .. 2 -> 0 .. 7]
    BY <1>1, <1>6 DEF Selects
  <2> QED
    BY <2>1
<1>7. CASE b.kind = "E0"
  <2>1. b.sel \in [1 .. 3 -> 0 .. 7]
    BY <1>1, <1>7 DEF Selects
  <2> QED
    BY <2>1
<1>8. CASE b.kind = "3E"
  <2>1. /\ b.sel \in [1 .. 2 -> Int] /\ b.sel[1] \in 0 .. b.banks - 1 /\ b.sel[2] \in -1 .. 31
        /\ b.banks \in Nat /\ b.banks <= 128
    BY <1>1, <1>8 DEF Selects, Sized, NoRamBank, RamBanks
  <2>2. i = 1 \/ i = 2
    BY <2>1
  <2> QED
    BY <2>1, <2>2
<1> QED
  BY <1>1, <1>2, <1>3, <1>4, <1>5, <1>6, <1>7, <1>8, PlainKinds

LEMMA EndsInside == Ends \subseteq Offsets
BY Kilo DEF Ends, Offsets

\* Inside a board's memory, as InBounds says it.
LEMMA InsideBounds ==
  ASSUME NEW b, NEW p, Inside(b, p), RomSize(b) \in Int, RamSize(b) \in Int
  PROVE  /\ p.mem = "rom" => p.at \in 0 .. RomSize(b) - 1
         /\ p.mem = "ram" => p.at \in 0 .. RamSize(b) - 1
<1>1. CASE \E i \in Nat : i < RomSize(b) /\ p = Rom(i)
  BY <1>1 DEF Rom
<1>2. CASE \E i \in Nat : i < RamSize(b) /\ p = Ram(i)
  BY <1>2 DEF Ram
<1>3. CASE p = Nothing
  BY <1>3 DEF Nothing
<1> QED
  BY <1>1, <1>2, <1>3 DEF Inside

LEMMA SizesAreNumbers ==
  ASSUME NEW b, Sound(b)
  PROVE  RomSize(b) \in Int /\ RamSize(b) \in Int
<1>1. b.kind \notin {"2K", "CV", "4A50"} => b.banks \in Int
  <2>1. b.kind \in Plain /\ Sized(b)
    BY DEF Sound
  <2>2. HasRun(b.kind) => b.banks \in Int
    BY <2>1, RunLengths DEF Sized
  <2>3. b.kind \in {"4K", "UA", "0840", "F0", "X07", "SB", "FE", "E7", "E0", "3F", "3E"} =>
          b.banks \in Int
    BY <2>1 DEF Sized
  <2> QED
    BY <2>1, <2>2, <2>3, PlainKinds
<1>2. RomSize(b) \in Int
  BY <1>1, Kilo DEF RomSize
<1>3. RamSize(b) \in Int
  BY Kilo DEF RamSize, RamBanks
<1> QED
  BY <1>2, <1>3

LEMMA InvBounds == IInv => InBounds
<1> SUFFICES ASSUME IInv, board.kind \in Plain
             PROVE  /\ board.kind # "4A50" => \A i \in DOMAIN board.sel : board.sel[i] \in -1 .. 127
                    /\ \A a \in Ends : \A p \in {ReadPlace(board, a), WritePlace(board, a)} :
                         /\ p.mem = "rom" => p.at \in 0 .. RomSize(board) - 1
                         /\ p.mem = "ram" => p.at \in 0 .. RamSize(board) - 1
  BY Zenon DEF InBounds
<1>1. Sound(board)
  BY DEF IInv
<1>2. board.kind # "4A50" => \A i \in DOMAIN board.sel : board.sel[i] \in -1 .. 127
  BY <1>1, RegistersKeep
<1>3. ASSUME NEW a \in Ends, NEW p \in {ReadPlace(board, a), WritePlace(board, a)}
      PROVE  /\ p.mem = "rom" => p.at \in 0 .. RomSize(board) - 1
             /\ p.mem = "ram" => p.at \in 0 .. RamSize(board) - 1
  <2>1. a \in Offsets
    BY EndsInside
  <2>2. Inside(board, p)
    BY <1>1, <2>1, ReadInside, WriteInside
  <2> QED
    BY <1>1, <2>2, InsideBounds, SizesAreNumbers
<1> QED
  BY <1>2, <1>3

LEMMA InvStored == IInv => StoredIsRead
<1> SUFFICES ASSUME IInv, board.kind \in HasRam, NEW a \in Ends, WritePlace(board, a).mem = "ram"
             PROVE  ReadPlace(board, a + ReadPort(board.kind, a)) = WritePlace(board, a)
  BY Zenon DEF StoredIsRead
<1>1. board.kind \in Plain
  BY DEF HasRam, Plain
<1>2. Sound(board)
  BY <1>1 DEF IInv
<1> QED
  BY <1>2, EndsInside, PortsAgree

LEMMA InvVectors == IInv => VectorsStay
<1> DEFINE k == board.kind
           a == \hFFC
<1> SUFFICES ASSUME IInv, k \in {"2K", "4K", "CV", "E7", "E0", "3F", "3E", "4A50"}
             PROVE  ReadPlace(board, a) = Rom(RomSize(board) - 4)
  BY DEF VectorsStay
<1>1. k \in Plain
  BY DEF Plain
<1>2. Sized(board) /\ Selects(board, board.sel)
  BY <1>1 DEF IInv, Sound
<1>3. CASE k = "2K"
  BY <1>3, Kilo, Schemes DEF ReadPlace, RomSize
<1>4. CASE k = "4K"
  BY <1>2, <1>4, Kilo, Schemes DEF ReadPlace, RomSize, Sized
<1>5. CASE k = "CV"
  BY <1>5, Kilo, Schemes DEF ReadPlace, ReadPlaceCV, RomSize
<1>6. CASE k = "E7"
  BY <1>2, <1>6, Kilo, Schemes DEF ReadPlace, ReadPlaceE7, RomSize, Sized
<1>7. CASE k = "E0"
  BY <1>2, <1>7, Kilo, Schemes DEF ReadPlace, E0Slice, RomSize, Sized
<1>8. CASE k \in {"3F", "3E"}
  <2>1. ReadPlace(board, a) = ReadPlaceTigervision(board, a) /\ RomSize(board) = board.banks * 2 * K
    BY <1>8, Schemes DEF ReadPlace, RomSize
  <2>2. ReadPlaceTigervision(board, a) = Rom((board.banks - 1) * 2 * K + (a % (2 * K)))
    BY Kilo DEF ReadPlaceTigervision
  <2>3. board.banks \in Nat
    BY <1>2, <1>8 DEF Sized
  <2> QED
    BY <2>1, <2>2, <2>3, Kilo
<1>9. CASE k = "4A50"
  <2>1. ReadPlace(board, a) = Place4A50(board.sel, a) /\ RomSize(board) = 128 * K
    BY <1>9, Schemes DEF ReadPlace, RomSize
  <2>2. Place4A50(board.sel, a) = Rom(\h1FF00 + (a % 256))
    BY Kilo DEF Place4A50
  <2> QED
    BY <2>1, <2>2, Kilo
<1> QED
  BY <1>3, <1>4, <1>5, <1>6, <1>7, <1>8, <1>9

\* Everywhere in the window: what is read and written is inside the board's
\* memory, and what can be written can be read back at its port.
Everywhere ==
  board.kind \in Plain =>
    \A a \in Offsets :
      /\ Inside(board, ReadPlace(board, a))
      /\ Inside(board, WritePlace(board, a))
      /\ WritePlace(board, a).mem = "ram" =>
           ReadPlace(board, a + ReadPort(board.kind, a)) = WritePlace(board, a)

LEMMA InvEverywhere == IInv => Everywhere
<1> SUFFICES ASSUME IInv, board.kind \in Plain, NEW a \in Offsets
             PROVE  /\ Inside(board, ReadPlace(board, a))
                    /\ Inside(board, WritePlace(board, a))
                    /\ WritePlace(board, a).mem = "ram" =>
                         ReadPlace(board, a + ReadPort(board.kind, a)) = WritePlace(board, a)
  BY Zenon DEF Everywhere
<1>1. Sound(board)
  BY DEF IInv
<1> QED
  BY <1>1, ReadInside, WriteInside, PortsAgree

\* Whatever is inserted, accessed and called, a plain board's fields keep
\* their types: its banks are those of its size, its hotspots select among
\* them, its RAM holds bytes in the cells it has.
THEOREM BoardsStaySound == CartridgeSpec => [](board.kind \in Plain => Sound(board))
<1>1. IInv => (board.kind \in Plain => Sound(board))
  BY DEF IInv
<1> QED
  BY Invariance, <1>1, PTL

\* No order of accesses drives cpu_read or cpu_write of a plain board outside
\* its image or its RAM, at the ends of its regions,
THEOREM BoardsStayInBounds == CartridgeSpec => []InBounds
BY Invariance, InvBounds, PTL

\* nor, with the ports that read what is written, at any address between.
THEOREM BoardsHoldEverywhere == CartridgeSpec => []Everywhere
BY Invariance, InvEverywhere, PTL

\* What is stored through a write port is found at its read port, whatever the
\* hotspots have selected.
THEOREM StoredIsFound == CartridgeSpec => []StoredIsRead
BY Invariance, InvStored, PTL

\* A board whose top is fixed has its reset vector there after any accesses.
THEOREM VectorsAreFixed == CartridgeSpec => []VectorsStay
BY Invariance, InvVectors, PTL

\* Whatever the size and the marks of an image, detect() gives it a board whose
\* new() takes it, and one with 3E's RAM if it banks through $3E.
THEOREM DetectionFits == CartridgeSpec => []DetectedFits
<1>1. IInv => DetectedFits
  BY DEF IInv
<1> QED
  BY Invariance, <1>1, PTL

\* Every call and return of an FE program lands in the bank of its target.
THEOREM FeCallsLand == CartridgeSpec => []FeLands
<1>1. IInv => FeLands
  BY DEF IInv
<1> QED
  BY Invariance, <1>1, PTL
==============================================================================
