------------------------------ MODULE Lockstep ------------------------------
(***************************************************************************)
(* The master-clock scheduler (crates/rusty2600-core/src/scheduler.rs):    *)
(* the 6507, the TIA's beam and the frame loop of the front end, one CPU   *)
(* cycle per step.                                                         *)
(*                                                                         *)
(* A CPU cycle is Cpu::idle_tick followed by at most one bus access.       *)
(* idle_tick spins on CpuBus::tick_cycle while the TIA holds RDY low       *)
(* (StallCycle), then ticks once more for the cycle itself (Cycle).  Every *)
(* tick_cycle moves the beam by three color clocks.  What an instruction   *)
(* computes is left out: a cycle accesses one of the registers that steer  *)
(* the beam, or something else.                                            *)
(*                                                                         *)
(* `wait' is a history variable: where the beam was when the program last  *)
(* wrote WSYNC, and the cycles the CPU has spun since; NoWait once the CPU *)
(* has run a cycle.                                                        *)
(***************************************************************************)
EXTENDS Integers

CONSTANTS
  LineCycles,       \* CPU cycles per scanline                     (76)
  ScanlineMod,      \* values of Tia::scanline, a u16              (2^16)
  ClockMod,         \* values of a color-clock counter, a u64      (2^64)
  MaxCycles,        \* cycles of the longest instruction           (11, JAM)
  MaxInstructions   \* instructions before a frame times out       (200_000)

ASSUME LineAssumption == LineCycles \in Nat /\ LineCycles > 1
ASSUME ScanlineAssumption == ScanlineMod \in Nat \ {0}
ASSUME ClockAssumption == ClockMod \in Nat /\ ClockMod > 3
ASSUME CycleAssumption == MaxCycles \in Nat /\ MaxCycles >= 2
ASSUME InstructionAssumption == MaxInstructions \in Nat

LineClocks == 3 * LineCycles   \* color clocks per scanline (228)

Phases == 0 .. 2          \* System::phase, seed % CPU_DIVISOR
ResetCycles == 8          \* Cpu::reset: six idle cycles and the vector's two reads

\* What a cycle's access does to the beam; "other" does nothing to it.
Accesses == {"WSYNC", "RSYNC", "VSYNC on", "VSYNC off", "other"}

Modes == {"off",    \* powered on, not reset yet
          "reset",  \* in Cpu::reset
          "idle",   \* between two frames
          "loop",   \* in the frame loop, between two instructions
          "insn"}   \* in Cpu::step

NoWait == [clock |-> -1, ticks |-> 0]

VARIABLES
  beam,          \* the Tia's color_clock, scanline, rdy_stall, vsync, paddle_clock
  colorClocks,   \* System::color_clocks
  phase,         \* System::phase
  mode,
  emitted,       \* Cpu::cycles_emitted
  spinning,      \* idle_tick has spun and owes the cycle's own tick
  jammed,        \* Cpu::jammed
  oldVsync,      \* the frame loop's old_vsync
  instructions,  \* the frame loop's count
  wait           \* history

cpuVars  == <<mode, emitted, spinning, jammed>>
loopVars == <<oldVsync, instructions>>
vars == <<beam, colorClocks, phase, cpuVars, loopVars, wait>>

------------------------------------------------------------------------------
(* The beam. *)

\* u64::wrapping_add of a few clocks.
AddClocks(c, n) == IF c + n >= ClockMod THEN c + n - ClockMod ELSE c + n

NextScanline(l) == IF l + 1 = ScanlineMod THEN 0 ELSE l + 1

\* Tia::tick_color_clock: the line wrap releases RDY.
TickColorClock(b) ==
  LET c == [b EXCEPT !.paddle = AddClocks(@, 1)] IN
  IF b.clock + 1 >= LineClocks
  THEN [c EXCEPT !.clock = 0, !.line = NextScanline(@), !.rdy = FALSE]
  ELSE [c EXCEPT !.clock = @ + 1]

\* Bug: a stalled CPU holds the beam back a clock.
BugTickTwice(b) ==
  IF b.rdy THEN TickColorClock(TickColorClock(b))
           ELSE TickColorClock(TickColorClock(TickColorClock(b)))

\* The beam's share of CpuView::tick_cycle.
TickCycle(b) == TickColorClock(TickColorClock(TickColorClock(b)))

\* Bug: WSYNC stalls even on the first clock of a line.
BugPhantomLine(b, a) ==
  CASE a = "WSYNC"     -> [b EXCEPT !.rdy = TRUE]
    [] a = "RSYNC"     -> [b EXCEPT !.clock = 0]
    [] a = "VSYNC on"  -> [b EXCEPT !.vsync = TRUE]
    [] a = "VSYNC off" -> [b EXCEPT !.vsync = FALSE, !.line = IF b.vsync THEN 0 ELSE @]
    [] OTHER           -> b

\* Tia::write_register, for the registers that steer the beam.
WriteRegister(b, a) ==
  CASE a = "WSYNC"     -> IF b.clock # 0 THEN [b EXCEPT !.rdy = TRUE] ELSE b
    [] a = "RSYNC"     -> [b EXCEPT !.clock = 0]
    [] a = "VSYNC on"  -> [b EXCEPT !.vsync = TRUE]
    [] a = "VSYNC off" -> [b EXCEPT !.vsync = FALSE, !.line = IF b.vsync THEN 0 ELSE @]
    [] OTHER           -> b

------------------------------------------------------------------------------
Init ==
  /\ beam = [clock |-> 0, line |-> 0, rdy |-> FALSE, vsync |-> FALSE, paddle |-> 0]
  /\ colorClocks = 0
  /\ phase \in Phases
  /\ mode = "off"
  /\ emitted = 0
  /\ spinning = FALSE
  /\ jammed = FALSE
  /\ oldVsync = FALSE
  /\ instructions = 0
  /\ wait = NoWait

\* System::reset: the power-on phase, and into Cpu::reset.
Reset ==
  /\ mode = "off"
  /\ beam' = CASE phase = 0 -> beam
               [] phase = 1 -> TickColorClock(beam)
               [] phase = 2 -> TickColorClock(TickColorClock(beam))
  /\ colorClocks' = AddClocks(colorClocks, phase)
  /\ mode' = "reset"
  /\ emitted' = 0
  /\ jammed' = FALSE
  /\ UNCHANGED <<phase, spinning, loopVars, wait>>

\* Is there another cycle for the CPU to run?
Executing == \/ mode = "reset" /\ emitted < ResetCycles
             \/ mode = "insn" /\ emitted < MaxCycles

\* One turn of idle_tick's loop: RDY is low, the rest of the machine runs on.
StallCycle ==
  /\ Executing
  /\ beam.rdy
  /\ beam' = TickCycle(beam)
  /\ colorClocks' = AddClocks(colorClocks, 3)
  /\ spinning' = TRUE
  /\ wait' = [wait EXCEPT !.ticks = @ + 1]
  /\ UNCHANGED <<phase, mode, emitted, jammed, loopVars>>

\* A cycle of the CPU: its tick, then its access.
Cycle ==
  /\ Executing
  /\ ~beam.rdy
  /\ \E a \in IF mode = "reset" \/ jammed THEN {"other"} ELSE Accesses :
        /\ beam' = WriteRegister(TickCycle(beam), a)
        /\ wait' = IF a = "WSYNC"
                   THEN [clock |-> TickCycle(beam).clock, ticks |-> 0]
                   ELSE NoWait
  /\ colorClocks' = AddClocks(colorClocks, 3)
  /\ emitted' = emitted + 1
  /\ spinning' = FALSE
  /\ UNCHANGED <<phase, mode, jammed, loopVars>>

EndReset ==
  /\ mode = "reset"
  /\ emitted = ResetCycles
  /\ mode' = "idle"
  /\ UNCHANGED <<beam, colorClocks, phase, emitted, spinning, jammed, loopVars, wait>>

\* EmuCore::step_frame, up to its loop.
BeginFrame ==
  /\ mode = "idle"
  /\ mode' = "loop"
  /\ oldVsync' = beam.vsync
  /\ instructions' = 0
  /\ UNCHANGED <<beam, colorClocks, phase, emitted, spinning, jammed, wait>>

\* Cpu::step, up to its first cycle.  A JAM opcode takes MaxCycles cycles,
\* touches no register that steers the beam, and is the last one to run.
BeginInstruction ==
  /\ mode = "loop"
  /\ ~jammed
  /\ mode' = "insn"
  /\ emitted' = 0
  /\ jammed' \in BOOLEAN
  /\ UNCHANGED <<beam, colorClocks, phase, spinning, loopVars, wait>>

\* The frame loop's exits, after `count' instructions: the falling edge of
\* VSYNC, or the safety timeout.
FrameOver(count) == (oldVsync /\ ~beam.vsync) \/ count > MaxInstructions

\* The frame loop's tail, after System::step_instruction returned.
AfterInstruction ==
  /\ mode' = IF FrameOver(instructions + 1) THEN "idle" ELSE "loop"
  /\ instructions' = instructions + 1
  /\ oldVsync' = IF FrameOver(instructions + 1) THEN oldVsync ELSE beam.vsync

\* An instruction that has run its cycles returns.
EndInstruction ==
  /\ mode = "insn"
  /\ emitted >= 2
  /\ jammed => emitted = MaxCycles
  /\ ~spinning
  /\ AfterInstruction
  /\ UNCHANGED <<beam, colorClocks, phase, emitted, spinning, jammed, wait>>

\* Bug: an instruction that took no cycle is not counted.
BugJammedStep ==
  /\ mode = "loop"
  /\ jammed
  /\ mode' = IF FrameOver(instructions) THEN "idle" ELSE "loop"
  /\ oldVsync' = IF FrameOver(instructions) THEN oldVsync ELSE beam.vsync
  /\ UNCHANGED <<beam, colorClocks, phase, emitted, spinning, jammed, instructions, wait>>

\* A jammed CPU's step returns at once: no cycle passes.
JammedStep ==
  /\ mode = "loop"
  /\ jammed
  /\ AfterInstruction
  /\ UNCHANGED <<beam, colorClocks, phase, emitted, spinning, jammed, wait>>

Next ==
  \/ Reset \/ EndReset
  \/ StallCycle \/ Cycle
  \/ BeginFrame \/ BeginInstruction \/ EndInstruction \/ JammedStep

\* One thread runs the loop and never blocks in it.  An instruction's cycles
\* are bounded, so it ends; starting a frame is the caller's choice.
Fairness ==
  /\ WF_vars(Reset) /\ WF_vars(EndReset)
  /\ WF_vars(StallCycle) /\ WF_vars(Cycle)
  /\ WF_vars(BeginInstruction) /\ WF_vars(EndInstruction) /\ WF_vars(JammedStep)

Spec == Init /\ [][Next]_vars /\ Fairness

------------------------------------------------------------------------------
Beams == [clock : 0 .. LineClocks - 1, line : 0 .. ScanlineMod - 1,
          rdy : BOOLEAN, vsync : BOOLEAN, paddle : 0 .. ClockMod - 1]

TypeOK ==
  /\ beam \in Beams
  /\ colorClocks \in 0 .. ClockMod - 1
  /\ phase \in Phases
  /\ mode \in Modes
  /\ emitted \in Nat
  /\ spinning \in BOOLEAN
  /\ jammed \in BOOLEAN
  /\ oldVsync \in BOOLEAN
  /\ instructions \in 0 .. MaxInstructions + 1
  /\ wait \in [clock : -1 .. LineClocks - 1, ticks : Nat]

\* The TIA's own color-clock counter, which times the paddles, never drifts
\* from the scheduler's (tia lib.rs 192-197; scheduler.rs 61-70, 147-150).
ClocksAgree == beam.paddle = colorClocks

\* Where the beam would be since the last WSYNC, had the line no end.
Run == wait.clock + 3 * wait.ticks

\* A CPU stalled by WSYNC is stalled until the beam has run the rest of the
\* line the write found it on, and not a cycle longer; a write on the first
\* clock of a line does not stall at all (tia lib.rs 256-278, 401-416).
WsyncStall ==
  IF wait = NoWait
  THEN ~beam.rdy
  ELSE /\ beam.rdy <=> wait.clock # 0 /\ Run < LineClocks
       /\ Run < LineClocks + 3
       /\ beam.clock = IF Run < LineClocks THEN Run ELSE Run - LineClocks

\* A frame ends, whatever the program does: a hung, stalled or jammed one is
\* cut off by the instruction count (emu_thread.rs 613-629).
FrameEnds == (mode \in {"loop", "insn"}) ~> (mode = "idle")

==============================================================================
