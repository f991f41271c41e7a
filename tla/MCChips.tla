------------------------------- MODULE MCChips -------------------------------
(* The chips, each alone: the RIOT's timer, the TIA, the 6507 and the ARM of *)
(* a cartridge, in one run; chip says which.  The timer has a counter of     *)
(* three bits, and prescales 1, 2 and 4 for the chip's 1, 8, 64 and 1024:    *)
(* one equal to the fast rate, one as long as the polling loop, and one      *)
(* longer than it.                                                           *)
EXTENDS RiotTimer, Tia, Cpu

MCPrescales == {1, 2, 4}

VARIABLES chip,                            \* the chip that runs
          arm, code, first, calls, steps   \* Thumb

armVars == <<arm, code, first, calls, steps>>

------------------------------------------------------------------------------
(* The TIA: objects of every size strobed and moved near the right edge, to *)
(* the end of the next line; every priority, with all objects overlapping;  *)
(* tones whose frequency is rewritten; a paddle dumped, released, turned    *)
(* and read.  In units of which INPT needs 33826, position 0 charges 218 a  *)
(* clock, 1 charges 69 and 2 charges 41; the dump takes a full charge in    *)
(* about fifty clocks.                                                      *)

Placed(pos, nusiz, ctrlpf, grp) ==
  [pf |-> [i \in 0 .. 2 |-> Bits(<<240, 129, 200>>[i + 1], 8)], grp |-> [i \in 0 .. 1 |-> grp],
   oldgrp |-> [i \in 0 .. 1 |-> 129], nusiz |-> [i \in 0 .. 1 |-> nusiz],
   pos |-> [i \in 0 .. 4 |-> (pos + 3 * i) % 160], hm |-> [i \in 0 .. 4 |-> 0], ctrlpf |-> ctrlpf,
   refp |-> [i \in 0 .. 1 |-> i = 1], enam |-> [i \in 0 .. 1 |-> TRUE], enabl |-> TRUE,
   vdelp |-> [i \in 0 .. 1 |-> i = 1], resmp |-> [i \in 0 .. 1 |-> FALSE]]

Still == [control |-> 0, freq |-> 0, volume |-> 0, divider |-> 0, output |-> 1, poly4 |-> 1,
          poly5 |-> 1, prescale |-> 0]
Tone(control) == [i \in 0 .. 1 |-> IF i = 0 THEN [Still EXCEPT !.control = control, !.volume = 9] ELSE Still]

Edges == [kind : {"edges"}, nusiz : {0, 17, 50, 3, 20, 37, 6, 55}, ctrlpf : {0, 49}, pos : {0, 100}]
Overlaps == [kind : {"overlaps"}, ctrlpf : {0, 2, 4, 6, 22}]
Tones == [kind : {"tones"}, control : {2, 3, 4, 8, 9, 12}]
Turns == [kind : {"turns"}, position : 0 .. 2]
Off == [kind |-> "off"]
MCPrograms == {Off} \cup Edges \cup Overlaps \cup Tones \cup Turns

MCBegin(p) ==
  CASE p.kind = "edges" ->
         [obj |-> Placed(p.pos, p.nusiz, p.ctrlpf, 203), clock |-> 212, line |-> 7, channel |-> Tone(0)]
    [] p.kind = "overlaps" -> [obj |-> Placed(72, 5, p.ctrlpf, 181), clock |-> 130, line |-> 7, channel |-> Tone(0)]
    [] p.kind = "tones" -> [obj |-> Placed(0, 0, 0, 0), clock |-> 0, line |-> 300, channel |-> Tone(p.control)]
    [] p.kind \in {"turns", "off"} -> [obj |-> Placed(0, 0, 0, 0), clock |-> 0, line |-> 65530, channel |-> Tone(0)]

MCEnd(p) ==
  CASE p.kind = "edges" -> 244
    [] p.kind = "overlaps" -> 50
    [] p.kind = "tones" -> IF p.control = 12 THEN 2200 ELSE 1000
    [] p.kind = "turns" -> 900
    [] p.kind = "off" -> 0

MCOffers(p, t) ==
  CASE p.kind = "edges" /\ t = 1 -> {<<"HM", 0, IF p.pos = 0 THEN 112 ELSE 144>>}
    [] p.kind = "edges" /\ t = 3 -> {<<"RES", IF p.nusiz % 2 = 0 THEN 0 ELSE 2, 0>>}
    [] p.kind = "edges" /\ t = 6 -> {<<"HMOVE", 0, 0>>}
    [] p.kind = "edges" /\ t = 9 /\ p.ctrlpf = 0 ->
         IF p.pos = 0
         THEN {<<"HMCLR", 0, 0>>, <<"NUSIZ", 1, 2>>, <<"REFP", 0, 8>>, <<"PF", 0, 16>>, <<"PF", 1, 60>>, <<"RSYNC", 0, 0>>}
         ELSE {<<"GRP", 1, 24>>, <<"ENAM", 0, 0>>, <<"ENABL", 0, 0>>, <<"VDELP", 0, 1>>, <<"RESMP", 1, 2>>,
               <<"CTRLPF", 0, 32>>}
    [] p.kind = "overlaps" /\ t \in {10, 30} -> {<<"CXCLR", 0, 0>>}
    [] p.kind = "tones" /\ t \in {150, 500} -> {<<"AUDF", 0, 1>>, <<"AUDF", 0, 34>>}
    [] p.kind = "tones" /\ t = 501 /\ p.control # 12 -> {<<"AUDC", 0, p.control - 1>>, <<"AUDV", 0, 31>>}
    [] p.kind = "turns" /\ t \in {5, 301} -> {<<"paddle", 0, i>> : i \in {0, p.position}}
    [] p.kind = "turns" /\ t \in {170, 600} -> {<<"VBLANK", 0, 130>>}
    [] p.kind = "turns" /\ t \in {190, 680} -> {<<"VBLANK", 0, 2>>}
    [] p.kind = "turns" /\ t \in {400, 620} -> {<<"INPT", 0, 0>>}
    [] OTHER -> {}

MCRate(position) == IF position = 0 THEN 218 ELSE IF position = 1 THEN 69 ELSE 41

ASSUME TiaAssumption

------------------------------------------------------------------------------
(* The 6507: every opcode on machines that cross pages or do not, that wrap *)
(* in the zero page and in the stack, in both modes; sums of many bytes;    *)
(* and the pairs of a call and a return, by the byte that fills the memory. *)

CpuMachine(op, lo, hi, a, x, y, s, p, pc, fill) ==
  [a |-> a, x |-> x, y |-> y, s |-> s, p |-> p, pc |-> pc, jammed |-> FALSE, log |-> <<>>, data |-> 0,
   ea |-> 0, crossed |-> FALSE, claimed |-> 0,
   mem |-> [cells |-> pc :> op @@ Word(pc + 1) :> lo @@ Word(pc + 2) :> hi, fill |-> fill]]

Sums == {\h69, \hE9}
Digits == {0, 1, 5, 9, \h10, \h45, \h49, \h50, \h51, \h55, \h59, \h7F, \h80, \h90, \h94, \h95, \h99, \hFF}
Calls == {\h20, \h00, \h48, \h08}
FlagSets == {{}, {"C"}, {"D"}, {"C", "D"}, {"N", "V", "Z"}}

MCCpuMachines(op) ==
  CASE op \in Sums ->
         {CpuMachine(op, v, 0, a, 0, 0, \hFF, p, \h1000, 0) : v \in Digits, a \in Digits, p \in FlagSets}
    [] op \in Calls ->
         {CpuMachine(op, lo, hi, 7, 0, 0, s, p, pc, fill) :
            lo \in {\h34}, hi \in {\h12}, s \in {0, 1, \h80, \hFF}, p \in FlagSets,
            pc \in {\h1000, \h10FD, \hFFFD}, fill \in {\h60, \h40, \h68, \h28}}
    [] OTHER ->
         {CpuMachine(op, lo, hi, a, x, y, \hFF, p, pc, fill) :
            lo \in {\h10, \hFF}, hi \in {\h11}, a \in {\h5A, \hFF}, x \in {2, \hF3}, y \in {1, \hFF},
            p \in FlagSets, pc \in {\h10F0}, fill \in {\h81, \h99}}

MCOpcodes == 0 .. 255
MCCpuSteps(op) == IF op \in Calls \cup {\h02} THEN 2 ELSE 1

ASSUME CpuAssumption

------------------------------------------------------------------------------
(* The ARM, with words of eight bits: comparisons and wide sums of numbers  *)
(* on both sides of every boundary, a subroutine that calls itself until    *)
(* the stack's memory is full, transfers of every size, and every opcode's  *)
(* first byte on one machine.  The program is at 0, the data at 128 to 159. *)

Straight(opcodes) == [at \in {2 * (i - 1) : i \in 1 .. Len(opcodes)} |-> opcodes[at \div 2 + 1]]

\* CMP r0,r1 and each branch, a wide sum, a wide difference.
Comparisons == {Straight(<<\h4288, \hD00A + 256 * cond>>) : cond \in 0 .. 14}
WideSums == {Straight(<<\h1880, \h4159>>), Straight(<<\h1A80, \h4199>>)}

\* f(n) calls f(n - 1), saving r4 and lr; g saves four registers and calls a
\* leaf twice, which comes back with BX lr.
\*   0 MOV r7,lr  2 BL f  6 BX r7
\*   8 f: PUSH {r4,lr}  ADD r4,r0,#0  CMP r0,#0  BEQ 22  16 SUB r0,#1  BL f
\*  22 POP {r4,pc}
Recursive == Straight(<<\h4677, \hF000, \hF801, \h4738,
                        \hB510, \h1C04, \h2800, \hD002, \h3801, \hF7FF, \hFFF9, \hBD10>>)
\*   8 g: PUSH {r4-r7,lr}  MOV r4,#1  BL 24  16 MOV r7,#2  BL 24  22 POP {r4-r7,pc}
\*  24 BX lr
Leaves == Straight(<<\h4677, \hF000, \hF801, \h4738,
                     \hB5F0, \h2401, \hF000, \hF804, \h2702, \hF000, \hF801, \hBDF0, \h4770>>)
\* Those of Thumb's MemoryAgrees.
Transfers == {Straight(<<\h8020, \h70A1, \h70E2, \h6825, \h5EE6, \h56E7>>),
              Straight(<<\hC407, \h3C0C, \hCCE0>>)}
Every == {Straight(<<256 * high + low>>) : high \in 0 .. 255, low \in {\h09, \hC1}}

MCArmPrograms == Comparisons \cup WideSums \cup {Recursive, Leaves} \cup Transfers \cup Every

ArmNumbers == {0, 1, 2, 127, 128, 129, 254, 255}
Few == {0, 1, 127, 128, 255}

\* The 6507 called from 200.
ArmMachine(r0, r1, r2, r3, r4) ==
  [r |-> [i \in 0 .. 15 |-> <<r0, r1, r2, r3, r4, 5, 6, 7, 8, 9, 10, 11, 12, 160, 198, 2>>[i + 1]],
   p |-> {}, mem |-> [a \in 128 .. 159 |-> a % 4], outcome |-> "normal", expected |-> 200]

MCArmMachines(p) ==
  CASE p \in Comparisons -> {ArmMachine(u, v, 0, 0, 0) : u \in ArmNumbers, v \in ArmNumbers}
    [] p \in WideSums -> {ArmMachine(a, b, c, d, 0) : a \in Few, b \in Few, c \in Few, d \in Few}
    [] p \in {Recursive, Leaves} -> {ArmMachine(n, 0, 0, 0, 44) : n \in 0 .. 5}
    [] p \in Transfers -> {ArmMachine(a, b, c, 2, 132) : a \in Few, b \in Few, c \in Few}
    [] OTHER -> {ArmMachine(a, 132, 3, 0, 136) : a \in {0, 4, 132}}

A == INSTANCE Thumb WITH start <- first, W <- 8, Cap <- 60, Programs <- MCArmPrograms, Machines <- MCArmMachines

------------------------------------------------------------------------------

CpuOff == m = [jammed |-> TRUE] /\ start = m /\ ran = <<>>
ArmOff == arm = [outcome |-> "normal"] /\ code = <<>> /\ first = arm /\ calls = <<>> /\ steps = 0

ChipsInit ==
  /\ Init /\ TiaInit
  /\ \/ chip = "RIOT" /\ program = Off /\ CpuOff /\ ArmOff
     \/ chip = "TIA" /\ program # Off /\ CpuOff /\ ArmOff
     \/ chip = "CPU" /\ program = Off /\ CpuInit /\ ArmOff
     \/ chip = "ARM" /\ program = Off /\ CpuOff /\ A!Init

ChipsNext ==
  \/ chip = "RIOT" /\ Next /\ UNCHANGED <<chip, tiaVars, cpuVars, armVars>>
  \/ chip = "TIA" /\ TiaNext /\ UNCHANGED <<chip, vars, cpuVars, armVars>>
  \/ chip = "CPU" /\ CpuNext /\ UNCHANGED <<chip, vars, tiaVars, armVars>>
  \/ chip = "ARM" /\ A!Next /\ UNCHANGED <<chip, vars, tiaVars, cpuVars>>

\* The timer is the chip that something waits for.
ChipsSpec ==
  /\ ChipsInit
  /\ [][ChipsNext]_<<chip, vars, tiaVars, cpuVars, armVars>>
  /\ WF_<<chip, vars>>(chip = "RIOT" /\ Tick /\ UNCHANGED chip)
  /\ WF_<<chip, vars>>(chip = "RIOT" /\ poll > PollPeriod /\ ReadIntim /\ UNCHANGED chip)

\* The ARM's: see Thumb.
DataExact == A!NumbersExact /\ A!MemoryAgrees
CallsReturn == A!CallsReturn
==============================================================================
