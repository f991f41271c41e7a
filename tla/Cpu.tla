--------------------------------- MODULE Cpu ---------------------------------
(***************************************************************************)
(* The 6507 of crates/rusty2600-cpu: every opcode, documented or not, as   *)
(* the bus accesses it makes, cycle by cycle, and what it leaves in the    *)
(* registers and in memory.  The console behind the bus is a flat memory   *)
(* here, as in the tests of the crate.                                     *)
(***************************************************************************)
EXTENDS Bytes, Sequences, TLC

CONSTANTS Opcodes,      \* the opcodes to run
          Machines(_),  \* the machines an opcode is run on, just before it
          Steps(_)      \* bound: how many steps are taken from that opcode on

VARIABLES m,            \* the machine
          start,        \* the machine at first
          ran           \* the instructions that ran since

cpuVars == <<m, start, ran>>

(***************************************************************************)
(* A machine: the registers, the flags that are set, whether it is jammed, *)
(* the memory as its cells that were written and the byte of all others,   *)
(* and, of the instruction under way, the accesses so far and the byte on  *)
(* the bus.                                                                *)
(***************************************************************************)
Flags == {"N", "V", "D", "I", "Z", "C"}
ByteValues == 0 .. 255
Addresses == 0 .. 65535

\* Every machine that begins is of the code's types, and has accessed nothing.
CpuAssumption ==
  \A op \in Opcodes : \A q \in Machines(op) :
    /\ q \in [a : ByteValues, x : ByteValues, y : ByteValues, s : ByteValues, p : SUBSET Flags,
              pc : Addresses, jammed : BOOLEAN, log : {<<>>}, data : ByteValues, ea : Addresses,
              crossed : BOOLEAN, claimed : Nat, mem : {q.mem}]
    /\ q.mem \in [cells : {q.mem.cells}, fill : ByteValues]
    /\ q.mem.cells \in [DOMAIN q.mem.cells -> ByteValues] /\ DOMAIN q.mem.cells \subseteq Addresses

Stack(s) == \h100 + s
Peek(mem, addr) == IF addr \in DOMAIN mem.cells THEN mem.cells[addr] ELSE mem.fill
Poke(mem, addr, v) ==
  [mem EXCEPT !.cells = [i \in DOMAIN @ \cup {addr} |-> IF i = addr THEN v ELSE @[i]]]

------------------------------------------------------------------------------
(* Bus accesses: each one is a cycle.                                      *)

Read(q, addr) ==
  [q EXCEPT !.log = Append(@, <<"read", addr>>), !.data = Peek(q.mem, addr)]
Write(q, addr, v) ==
  [q EXCEPT !.log = Append(@, <<"write", addr>>), !.data = v, !.mem = Poke(@, addr, v)]
Idle(q) == [q EXCEPT !.log = Append(@, <<"idle", 0>>)]

Fetch(q) == [Read(q, q.pc) EXCEPT !.pc = Word(@ + 1)]
Dummy(q) == Read(q, q.pc)                              \* implied_dummy_read
Push(q, v) == [Write(q, Stack(q.s), v) EXCEPT !.s = Dec(@)]
Pull(q) == LET up == [q EXCEPT !.s = Inc(@)] IN Read(up, Stack(up.s))

------------------------------------------------------------------------------
(* Flags.                                                                  *)

With(p, flag, on) == IF on THEN p \cup {flag} ELSE p \ {flag}
NZ(p, v) == With(With(p, "N", v >= 128), "Z", v = 0)
C(q) == Flag("C" \in q.p)

\* The status byte, with the bits that are no flags; and back.
StatusByte(p, break) ==
  Flag("N" \in p) * 128 + Flag("V" \in p) * 64 + 32 + Flag(break) * 16
    + Flag("D" \in p) * 8 + Flag("I" \in p) * 4 + Flag("Z" \in p) * 2 + Flag("C" \in p)
StatusOf(v) ==
  LET bit == [N |-> 7, V |-> 6, D |-> 3, I |-> 2, Z |-> 1, C |-> 0]
  IN {f \in Flags : Bit(v, bit[f]) = 1}

------------------------------------------------------------------------------
(* Addressing modes: the machine after the cycles they take, with the      *)
(* address as ea and whether an index crossed a page.                      *)

At(q, addr) == [q EXCEPT !.ea = addr, !.crossed = FALSE]

\* The add costs a cycle, in which the unindexed cell is read.
ZeroPageIndexed(q, i) ==
  LET f == Fetch(q) IN At(Read(f, f.data), Byte(f.data + i))

Absolute(q) ==
  LET lo == Fetch(q)
      hi == Fetch(lo)
  IN At(hi, Addr(lo.data, hi.data))

\* The pointer at cell p of the zero page.
Pointer(q, p) ==
  LET lo == Read(q, p)
      hi == Read(lo, Inc(p))
  IN At(hi, Addr(lo.data, hi.data))

\* An index on a base: a read at the address whose high byte is not fixed yet,
\* when a page is crossed or the instruction always takes the cycle.
Unfixed(base, i) == Addr(Lo(base + i), Hi(base))
BugIndexed(q, i, always) ==
  LET crosses == Hi(q.ea) # Hi(q.ea + i)
      at(r)   == [r EXCEPT !.ea = Word(q.ea + i), !.crossed = crosses]
  IN IF crosses THEN at(Read(q, Unfixed(q.ea, i))) ELSE at(q)
Indexed(q, i, always) ==
  LET base    == q.ea
      crosses == Hi(base) # Hi(base + i)
      at(r)   == [r EXCEPT !.ea = Word(base + i), !.crossed = crosses]
  IN IF crosses \/ always THEN at(Read(q, Unfixed(base, i))) ELSE at(q)

Operand(q, mode, always) ==
  LET f == Fetch(q)
  IN CASE mode = "imm"  -> At(f, q.pc)
       [] mode = "zp"   -> At(f, f.data)
       [] mode = "zpx"  -> ZeroPageIndexed(q, q.x)
       [] mode = "zpy"  -> ZeroPageIndexed(q, q.y)
       [] mode = "abs"  -> Absolute(q)
       [] mode = "absx" -> Indexed(Absolute(q), q.x, always)
       [] mode = "absy" -> Indexed(Absolute(q), q.y, always)
       [] mode = "indx" -> LET r == Read(f, f.data) IN Pointer(r, Byte(f.data + q.x))
       [] mode = "indy" -> Indexed(Pointer(f, f.data), q.y, always)

\* The cycles that an instruction's arm of dispatch claims: one for the opcode,
\* those of its operand, one for each access to the operand's cell, and one for
\* an index that crosses, or might.
OperandCycles(mode) ==
  CASE mode = "imm" -> 0
    [] mode = "zp" -> 1
    [] mode \in {"zpx", "zpy", "abs", "absx", "absy"} -> 2
    [] mode = "indx" -> 4
    [] mode = "indy" -> 3
Claim(q, mode, accesses, always) ==
  [q EXCEPT !.claimed =
     1 + OperandCycles(mode) + accesses
       + Flag(mode \in {"absx", "absy", "indy"} /\ (q.crossed \/ always))]

------------------------------------------------------------------------------
(* The arithmetic of the accumulator.                                      *)

Overflows(a, v, r) == And(And(Xor(a, r), Xor(v, r)), 128) # 0

BinaryAdc(q, v) ==
  LET sum == q.a + v + C(q)
      r   == Byte(sum)
  IN [q EXCEPT !.a = r,
               !.p = NZ(With(With(@, "C", sum > 255), "V", Overflows(q.a, v, r)), r)]

BugDecimalAdc(q, v) ==
  LET low  == (q.a % 16) + (v % 16) + C(q)
      high == 16 * (q.a \div 16) + 16 * (v \div 16) + (IF low > 9 THEN low + 6 ELSE low)
  IN [q EXCEPT !.a = Byte(IF high > \hA0 THEN high + \h60 ELSE high),
               !.p = With(NZ(@, Byte(high)), "C", high > \hA0)]

\* Z is of the binary sum; N and V are of the sum with only the low digit
\* corrected.
DecimalAdc(q, v) ==
  LET low    == (q.a % 16) + (v % 16) + C(q)
      digit  == IF low > 9 THEN ((low + 6) % 16) + 16 ELSE low
      high   == 16 * (q.a \div 16) + 16 * (v \div 16) + digit
      middle == Byte(high)
      result == IF high >= \hA0 THEN high + \h60 ELSE high
  IN [q EXCEPT !.a = Byte(result),
               !.p = With(With(With(With(@, "Z", Byte(q.a + v + C(q)) = 0), "N", middle >= 128),
                               "V", Overflows(q.a, v, middle)), "C", result >= 256)]

Adc(q, v) == IF "D" \in q.p THEN DecimalAdc(q, v) ELSE BinaryAdc(q, v)

\* Every flag but C is that of the binary difference.
DecimalSbc(q, v) ==
  LET bin  == Byte(q.a + (255 - v) + C(q))
      al   == (q.a % 16) - (v % 16) - (1 - C(q))
      ah   == (q.a \div 16) - (v \div 16) - Flag(al < 0)
      low  == (IF al < 0 THEN al - 6 ELSE al) % 16
      high == (IF ah < 0 THEN ah - 6 ELSE ah) % 16
  IN [q EXCEPT !.a = 16 * high + low,
               !.p = With(With(NZ(@, bin), "V", Overflows(q.a, 255 - v, bin)), "C", ah >= 0)]

Sbc(q, v) == IF "D" \in q.p THEN DecimalSbc(q, v) ELSE BinaryAdc(q, 255 - v)

Compare(q, r, v) == [q EXCEPT !.p = NZ(With(@, "C", r >= v), Byte(r + 256 - v))]

------------------------------------------------------------------------------
(* What an instruction that reads its operand does with it.                *)

LoadA(q, v) == [q EXCEPT !.a = v, !.p = NZ(@, v)]
LoadX(q, v) == [q EXCEPT !.x = v, !.p = NZ(@, v)]

\* ARR in decimal mode corrects A and C, and shows N, Z and V of before.  The
\* test of the high digit is on bytes: it wraps.
Arr(q, v) ==
  LET t     == And(q.a, v)
      ror   == t \div 2 + 128 * C(q)
      low   == IF (t % 16) + (t % 2) > 5 THEN 16 * (ror \div 16) + ((ror + 6) % 16) ELSE ror
      carry == Byte(16 * (t \div 16) + 16 * Bit(t, 4)) > \h50
      p     == With(NZ(q.p, ror), "V", Bit(ror, 6) # Bit(ror, 5))
  IN IF "D" \in q.p
     THEN [q EXCEPT !.a = Byte(low + (IF carry THEN \h60 ELSE 0)), !.p = With(p, "C", carry)]
     ELSE [q EXCEPT !.a = ror, !.p = With(p, "C", Bit(ror, 6) = 1)]

Consume(op, q, v) ==
  CASE op = "LDA" -> LoadA(q, v)
    [] op = "LDX" -> LoadX(q, v)
    [] op = "LDY" -> [q EXCEPT !.y = v, !.p = NZ(@, v)]
    [] op = "AND" -> LoadA(q, And(q.a, v))
    [] op = "ORA" -> LoadA(q, Or(q.a, v))
    [] op = "EOR" -> LoadA(q, Xor(q.a, v))
    [] op = "BIT" -> [q EXCEPT !.p = With(With(With(@, "Z", And(q.a, v) = 0), "N", v >= 128),
                                          "V", Bit(v, 6) = 1)]
    [] op = "ADC" -> Adc(q, v)
    [] op = "SBC" -> Sbc(q, v)
    [] op = "CMP" -> Compare(q, q.a, v)
    [] op = "CPX" -> Compare(q, q.x, v)
    [] op = "CPY" -> Compare(q, q.y, v)
    [] op = "NOP" -> q
    [] op = "LAX" -> LoadX(LoadA(q, v), v)
    [] op = "LXA" -> LET r == And(Or(q.a, \hEE), v) IN LoadX(LoadA(q, r), r)
    [] op = "XAA" -> LoadA(q, And(And(Or(q.a, \hEE), q.x), v))
    [] op = "LAS" -> LET r == And(q.s, v) IN [LoadX(LoadA(q, r), r) EXCEPT !.s = r]
    [] op = "ANC" -> LET r == And(q.a, v)
                     IN [LoadA(q, r) EXCEPT !.p = With(@, "C", r >= 128)]
    [] op = "ALR" -> LET r == And(q.a, v)
                     IN [LoadA(q, r \div 2) EXCEPT !.p = With(@, "C", r % 2 = 1)]
    [] op = "ARR" -> Arr(q, v)
    [] op = "AXS" -> LET ax == And(q.a, q.x)
                     IN [Compare(q, ax, v) EXCEPT !.x = Byte(ax + 256 - v)]

\* What the shifts and counts make of a byte.
Shift(q, v, op) ==
  LET r == CASE op \in {"ASL", "SLO"} -> Byte(2 * v)
             [] op \in {"ROL", "RLA"} -> Byte(2 * v) + C(q)
             [] op \in {"LSR", "SRE"} -> v \div 2
             [] op \in {"ROR", "RRA"} -> v \div 2 + 128 * C(q)
             [] op \in {"INC", "ISC"} -> Inc(v)
             [] op \in {"DEC", "DCP"} -> Dec(v)
      p == CASE op \in {"ASL", "SLO", "ROL", "RLA"} -> With(q.p, "C", v >= 128)
             [] op \in {"LSR", "SRE", "ROR", "RRA"} -> With(q.p, "C", v % 2 = 1)
             [] OTHER -> q.p
  IN [byte |-> r, p |-> IF op \in {"ISC", "DCP"} THEN p ELSE NZ(p, r)]

BugCombined(op, q, r) ==
  LET old == [q EXCEPT !.p = start.p]
  IN CASE op = "SLO" -> LoadA(q, Or(q.a, r))
       [] op = "RLA" -> LoadA(q, And(q.a, r))
       [] op = "SRE" -> LoadA(q, Xor(q.a, r))
       [] op = "RRA" -> Adc(old, r)
       [] op = "DCP" -> Compare(q, q.a, r)
       [] op = "ISC" -> Sbc(q, r)
       [] OTHER -> q

\* What the unofficial ones go on to do with the byte they wrote.
Combined(op, q, r) ==
  CASE op = "SLO" -> LoadA(q, Or(q.a, r))
    [] op = "RLA" -> LoadA(q, And(q.a, r))
    [] op = "SRE" -> LoadA(q, Xor(q.a, r))
    [] op = "RRA" -> Adc(q, r)
    [] op = "DCP" -> Compare(q, q.a, r)
    [] op = "ISC" -> Sbc(q, r)
    [] OTHER -> q

------------------------------------------------------------------------------
(* The opcodes, each with its instruction and its addressing mode.         *)

Table(rows) == [o \in {r[1] : r \in rows} |-> CHOOSE r \in rows : r[1] = o]
Group(bases, modes) == {<<base[1] + mode[1], base[2], mode[2]>> : base \in bases, mode \in modes}
Each(opcodes, op, mode) == {<<o, op, mode>> : o \in opcodes}

IndexedModes == {<<1, "indx">>, <<5, "zp">>, <<\h0D, "abs">>, <<\h11, "indy">>, <<\h15, "zpx">>,
                 <<\h19, "absy">>, <<\h1D, "absx">>}
AllModes == IndexedModes \cup {<<9, "imm">>}

Loads ==
  Group({<<\hA0, "LDA">>}, AllModes)
    \cup Group({<<\hA0, "LDX">>}, {<<2, "imm">>, <<6, "zp">>, <<\h16, "zpy">>, <<\h0E, "abs">>, <<\h1E, "absy">>})
    \cup Group({<<\hA0, "LDY">>}, {<<0, "imm">>, <<4, "zp">>, <<\h14, "zpx">>, <<\h0C, "abs">>, <<\h1C, "absx">>})
Logic ==
  Group({<<0, "ORA">>, <<\h20, "AND">>, <<\h40, "EOR">>}, AllModes)
    \cup {<<\h24, "BIT", "zp">>, <<\h2C, "BIT", "abs">>}
Arithmetic == Group({<<\h60, "ADC">>, <<\hE0, "SBC">>}, AllModes) \cup {<<\hEB, "SBC", "imm">>}
Compares ==
  Group({<<\hC0, "CMP">>}, AllModes)
    \cup Group({<<\hC0, "CPY">>, <<\hE0, "CPX">>}, {<<0, "imm">>, <<4, "zp">>, <<\h0C, "abs">>})
Nops ==
  Each({\h80, \h82, \h89, \hC2, \hE2}, "NOP", "imm") \cup Each({\h04, \h44, \h64}, "NOP", "zp")
    \cup Each({\h14, \h34, \h54, \h74, \hD4, \hF4}, "NOP", "zpx") \cup {<<\h0C, "NOP", "abs">>}
    \cup Each({\h1C, \h3C, \h5C, \h7C, \hDC, \hFC}, "NOP", "absx")
Laxes ==
  Group({<<\hA0, "LAX">>}, {<<3, "indx">>, <<7, "zp">>, <<\h0F, "abs">>, <<\h13, "indy">>, <<\h17, "zpy">>,
                            <<\h1F, "absy">>}) \cup {<<\hAB, "LXA", "imm">>}
Masks ==
  {<<\h0B, "ANC", "imm">>, <<\h2B, "ANC", "imm">>, <<\h4B, "ALR", "imm">>, <<\h6B, "ARR", "imm">>,
   <<\hCB, "AXS", "imm">>, <<\h8B, "XAA", "imm">>, <<\hBB, "LAS", "absy">>}
Reads == Table(Loads \cup Logic \cup Arithmetic \cup Compares \cup Nops \cup Laxes \cup Masks)

Stores == Table(
  Group({<<\h80, "STA">>}, IndexedModes)
    \cup Group({<<\h80, "STX">>}, {<<6, "zp">>, <<\h16, "zpy">>, <<\h0E, "abs">>})
    \cup Group({<<\h80, "STY">>}, {<<4, "zp">>, <<\h14, "zpx">>, <<\h0C, "abs">>})
    \cup Group({<<\h80, "SAX">>}, {<<3, "indx">>, <<7, "zp">>, <<\h17, "zpy">>, <<\h0F, "abs">>}))
Unstable == Table({<<\h9B, "TAS", "absy">>, <<\h9F, "SHA", "absy">>, <<\h93, "SHA", "indy">>,
                   <<\h9E, "SHX", "absy">>, <<\h9C, "SHY", "absx">>})

ModifyModes == {<<6, "zp">>, <<\h0E, "abs">>, <<\h16, "zpx">>, <<\h1E, "absx">>}
Counts == Group({<<\hC0, "DEC">>, <<\hE0, "INC">>}, ModifyModes)
MemoryShifts == Group({<<0, "ASL">>, <<\h20, "ROL">>, <<\h40, "LSR">>, <<\h60, "ROR">>}, ModifyModes)
CombinedModes == {<<3, "indx">>, <<7, "zp">>, <<\h0F, "abs">>, <<\h13, "indy">>, <<\h17, "zpx">>,
                  <<\h1B, "absy">>, <<\h1F, "absx">>}
CombinedCounts == Group({<<\hC0, "DCP">>, <<\hE0, "ISC">>}, CombinedModes)
CombinedShifts == Group({<<0, "SLO">>, <<\h20, "RLA">>, <<\h40, "SRE">>, <<\h60, "RRA">>}, CombinedModes)
Modifies == Table(Counts \cup MemoryShifts \cup CombinedCounts \cup CombinedShifts)

AccumulatorShifts == Table({<<\h0A, "ASL">>, <<\h2A, "ROL">>, <<\h4A, "LSR">>, <<\h6A, "ROR">>})
Moves == {<<\hAA, "TAX">>, <<\hA8, "TAY">>, <<\hBA, "TSX">>, <<\h8A, "TXA">>, <<\h9A, "TXS">>, <<\h98, "TYA">>}
Steppers == {<<\hE8, "INX">>, <<\hCA, "DEX">>, <<\hC8, "INY">>, <<\h88, "DEY">>}
FlagOps == {<<\h18, "CLC">>, <<\h38, "SEC">>, <<\h58, "CLI">>, <<\h78, "SEI">>, <<\hB8, "CLV">>, <<\hD8, "CLD">>,
             <<\hF8, "SED">>}
Waits == {<<o, "NOP">> : o \in {\hEA, \h1A, \h3A, \h5A, \h7A, \hDA, \hFA}}
Registers == Table(Moves \cup Steppers \cup FlagOps \cup Waits)
Branches == Table({<<\h10, "N", FALSE>>, <<\h30, "N", TRUE>>, <<\h50, "V", FALSE>>, <<\h70, "V", TRUE>>,
                   <<\h90, "C", FALSE>>, <<\hB0, "C", TRUE>>, <<\hD0, "Z", FALSE>>, <<\hF0, "Z", TRUE>>})
Jams == {\h02, \h12, \h22, \h32, \h42, \h52, \h62, \h72, \h92, \hB2, \hD2, \hF2}

------------------------------------------------------------------------------
(* The instructions, from the fetched opcode on.                           *)

ReadInstruction(q, op, mode) ==
  LET at  == Operand(q, mode, FALSE)
      got == IF mode = "imm" THEN at ELSE Read(at, at.ea)
  IN Claim(Consume(op, got, got.data), mode, 1, FALSE)

StoreInstruction(q, op, mode) ==
  LET at == Operand(q, mode, TRUE)
      v  == CASE op = "STA" -> q.a [] op = "STX" -> q.x [] op = "STY" -> q.y [] op = "SAX" -> And(q.a, q.x)
  IN Claim(Write(at, at.ea, v), mode, 1, TRUE)

\* sh_store: the byte is cut by the high byte of the address, and on a crossed
\* page it is the high byte of where it goes.
UnstableInstruction(q, op, mode) ==
  LET ax     == And(q.a, q.x)
      r      == CASE op \in {"SHA", "TAS"} -> ax [] op = "SHX" -> q.x [] op = "SHY" -> q.y
      at     == Operand([q EXCEPT !.s = IF op = "TAS" THEN ax ELSE @], mode, TRUE)
      dummy  == at.log[Len(at.log)][2]
      stored == And(r, Inc(Hi(dummy)))
  IN Claim(Write(at, IF at.crossed THEN Addr(Lo(at.ea), stored) ELSE at.ea, stored), mode, 1, TRUE)

ModifyInstruction(q, op, mode) ==
  LET at  == Operand(q, mode, TRUE)
      got == Read(at, at.ea)
      r   == Shift(got, got.data, op)
      set == [Write(Write(got, got.ea, got.data), got.ea, r.byte) EXCEPT !.p = r.p]
  IN Claim(Combined(op, set, r.byte), mode, 3, TRUE)

ShiftInstruction(q, op) ==
  LET r == Shift(q, q.a, op) IN [Dummy(q) EXCEPT !.a = r.byte, !.p = r.p, !.claimed = 2]

RegisterInstruction(q, op) ==
  LET d == [Dummy(q) EXCEPT !.claimed = 2]
      y(v) == [d EXCEPT !.y = v, !.p = NZ(@, v)]
      flag(f, on) == [d EXCEPT !.p = With(@, f, on)]
  IN CASE op = "TAX" -> LoadX(d, q.a) [] op = "TSX" -> LoadX(d, q.s) [] op = "TXA" -> LoadA(d, q.x)
       [] op = "TYA" -> LoadA(d, q.y) [] op = "TAY" -> y(q.a) [] op = "TXS" -> [d EXCEPT !.s = q.x]
       [] op = "INX" -> LoadX(d, Inc(q.x)) [] op = "DEX" -> LoadX(d, Dec(q.x))
       [] op = "INY" -> y(Inc(q.y)) [] op = "DEY" -> y(Dec(q.y))
       [] op = "CLC" -> flag("C", FALSE) [] op = "SEC" -> flag("C", TRUE)
       [] op = "CLI" -> flag("I", FALSE) [] op = "SEI" -> flag("I", TRUE)
       [] op = "CLD" -> flag("D", FALSE) [] op = "SED" -> flag("D", TRUE)
       [] op = "CLV" -> flag("V", FALSE) [] op = "NOP" -> d

\* branch: a taken one reads on, and once more at the address with the old high
\* byte when it leaves the page.
BranchInstruction(q, flag, wanted) ==
  LET f      == Fetch(q)
      to     == Word(f.pc + f.data + (IF f.data >= 128 THEN 65280 ELSE 0))
      taken  == Dummy(f)
      leaves == Hi(to) # Hi(f.pc)
      dummy  == Read(taken, Addr(Lo(to), Hi(f.pc)))
  IN IF (flag \in q.p) # wanted THEN [f EXCEPT !.claimed = 2]
     ELSE IF leaves THEN [dummy EXCEPT !.pc = to, !.claimed = 4]
     ELSE [taken EXCEPT !.pc = to, !.claimed = 3]

JmpAbs(q) == LET t == Absolute(q) IN [t EXCEPT !.pc = t.ea, !.claimed = 3]

\* The pointer's high byte comes from the same page.
JmpInd(q) ==
  LET p  == Absolute(q)
      lo == Read(p, p.ea)
      hi == Read(lo, Addr(Inc(Lo(p.ea)), Hi(p.ea)))
  IN [hi EXCEPT !.pc = Addr(lo.data, hi.data), !.claimed = 5]

Jsr(q) ==
  LET lo     == Fetch(q)
      peeked == Read(lo, Stack(lo.s))
      pushed == Push(Push(peeked, Hi(lo.pc)), Lo(lo.pc))
      hi     == Fetch(pushed)
  IN [hi EXCEPT !.pc = Addr(lo.data, hi.data), !.claimed = 6]

\* The stack is read once before the first pull.
Peeked(q) == LET d == Dummy(q) IN Read(d, Stack(d.s))

Rts(q) ==
  LET lo == Pull(Peeked(q))
      hi == Pull(lo)
      to == Addr(lo.data, hi.data)
  IN [Read(hi, to) EXCEPT !.pc = Word(to + 1), !.claimed = 6]

BugRti(q) ==
  LET p  == Pull(Peeked(q))
      lo == Pull(p)
      hi == Pull(lo)
  IN [hi EXCEPT !.p = StatusOf(p.data), !.pc = Word(Addr(lo.data, hi.data) + 1), !.claimed = 6]

Rti(q) ==
  LET p  == Pull(Peeked(q))
      lo == Pull(p)
      hi == Pull(lo)
  IN [hi EXCEPT !.p = StatusOf(p.data), !.pc = Addr(lo.data, hi.data), !.claimed = 6]

Brk(q) ==
  LET d  == Fetch(q)
      st == Push(Push(Push(d, Hi(d.pc)), Lo(d.pc)), StatusByte(d.p, TRUE))
      lo == Read(st, \hFFFE)
      hi == Read(lo, \hFFFF)
  IN [hi EXCEPT !.p = @ \cup {"I"}, !.pc = Addr(lo.data, hi.data), !.claimed = 7]

Pha(q) == [Push(Dummy(q), q.a) EXCEPT !.claimed = 3]
Php(q) == [Push(Dummy(q), StatusByte(q.p, TRUE)) EXCEPT !.claimed = 3]
Pla(q) == LET v == Pull(Peeked(q)) IN [LoadA(v, v.data) EXCEPT !.claimed = 4]
Plp(q) == LET v == Pull(Peeked(q)) IN [v EXCEPT !.p = StatusOf(v.data), !.claimed = 4]

\* A jam reads on, then the ends of the address space.
Ends == <<\hFFFF, \hFFFE, \hFFFE, \hFFFF, \hFFFF, \hFFFF, \hFFFF, \hFFFF, \hFFFF>>
Jam(q) ==
  LET after[i \in 0 .. Len(Ends)] == IF i = 0 THEN Dummy(q) ELSE Read(after[i - 1], Ends[i])
  IN [after[Len(Ends)] EXCEPT !.jammed = TRUE, !.claimed = 11]

------------------------------------------------------------------------------
(* step: the opcode, the instruction, and idle cycles up to what it claims. *)

Opcode == Peek(m.mem, m.pc)
Fetched == Fetch([m EXCEPT !.log = <<>>])
Padded(q) ==
  LET missing == q.claimed - Len(q.log)
      padded[i \in Nat] == IF i = 0 THEN q ELSE Idle(padded[i - 1])
  IN IF missing > 0 THEN padded[missing] ELSE q

Ready(opcodes) ==
  /\ Len(ran) < Steps(Peek(start.mem, start.pc))
  /\ ~ m.jammed
  /\ Opcode \in opcodes
Does(name, q) ==
  /\ m' = Padded(q)
  /\ ran' = Append(ran, name)
  /\ UNCHANGED start

RunRead ==
  /\ Ready(DOMAIN Reads)
  /\ LET r == Reads[Opcode] IN Does(r[2], ReadInstruction(Fetched, r[2], r[3]))
RunStore ==
  /\ Ready(DOMAIN Stores)
  /\ LET r == Stores[Opcode] IN Does(r[2], StoreInstruction(Fetched, r[2], r[3]))
RunUnstable ==
  /\ Ready(DOMAIN Unstable)
  /\ LET r == Unstable[Opcode] IN Does(r[2], UnstableInstruction(Fetched, r[2], r[3]))
RunModify ==
  /\ Ready(DOMAIN Modifies)
  /\ LET r == Modifies[Opcode] IN Does(r[2], ModifyInstruction(Fetched, r[2], r[3]))
RunShift ==
  /\ Ready(DOMAIN AccumulatorShifts)
  /\ LET op == AccumulatorShifts[Opcode][2] IN Does(op, ShiftInstruction(Fetched, op))
RunRegister ==
  /\ Ready(DOMAIN Registers)
  /\ LET op == Registers[Opcode][2] IN Does(op, RegisterInstruction(Fetched, op))
RunBranch ==
  /\ Ready(DOMAIN Branches)
  /\ LET r == Branches[Opcode] IN Does("branch", BranchInstruction(Fetched, r[2], r[3]))
RunJump ==
  \/ Ready({\h4C}) /\ Does("JMP", JmpAbs(Fetched))
  \/ Ready({\h6C}) /\ Does("JMP", JmpInd(Fetched))
  \/ Ready({\h20}) /\ Does("JSR", Jsr(Fetched))
  \/ Ready({\h60}) /\ Does("RTS", Rts(Fetched))
  \/ Ready({\h00}) /\ Does("BRK", Brk(Fetched))
  \/ Ready({\h40}) /\ Does("RTI", Rti(Fetched))
RunStack ==
  \/ Ready({\h48}) /\ Does("PHA", Pha(Fetched))
  \/ Ready({\h08}) /\ Does("PHP", Php(Fetched))
  \/ Ready({\h68}) /\ Does("PLA", Pla(Fetched))
  \/ Ready({\h28}) /\ Does("PLP", Plp(Fetched))
RunJam == Ready(Jams) /\ Does("JAM", Jam(Fetched))

\* The console's switch: from anywhere, a jam too.
Reset ==
  /\ Len(ran) < Steps(Peek(start.mem, start.pc))
  /\ LET low  == [m EXCEPT !.s = Byte(@ + 253), !.p = @ \cup {"I"}, !.jammed = FALSE,
                           !.log = [i \in 1 .. 6 |-> <<"idle", 0>>]]
         lo   == Read(low, \hFFFC)
         hi   == Read(lo, \hFFFD)
     IN m' = [hi EXCEPT !.pc = Addr(lo.data, hi.data)]
  /\ ran' = Append(ran, "reset")
  /\ UNCHANGED start

CpuInit ==
  /\ \E op \in Opcodes : m \in Machines(op)
  /\ start = m
  /\ ran = <<>>

CpuNext ==
  \/ RunRead \/ RunStore \/ RunUnstable \/ RunModify \/ RunShift \/ RunRegister
  \/ RunBranch \/ RunJump \/ RunStack \/ RunJam \/ Reset

CpuSpec == CpuInit /\ [][CpuNext]_cpuVars

------------------------------------------------------------------------------
(* Properties.                                                             *)

\* Every cycle that an instruction takes is an access on the bus, in its place,
\* and it takes as many as it says: there is nothing to pad, so the beam, the
\* timer and the board have moved exactly as far at each access as on the
\* hardware.
CyclesExact ==
  ran # <<>> /\ ran[Len(ran)] # "reset" =>
    /\ Len(m.log) = m.claimed
    /\ \A i \in DOMAIN m.log : m.log[i][1] # "idle"

\* Sums and differences are right: in decimal mode as numbers of two digits,
\* in binary mode as numbers with and without a sign.
Decimal(v) == 10 * (v \div 16) + (v % 16)
Signed(v) == IF v >= 128 THEN v - 256 ELSE v
SumsExact ==
  ran \in {<<"ADC">>, <<"SBC">>} =>
    LET v      == m.data
        add    == ran = <<"ADC">>
        carry  == C(start)
        sum(f(_)) == IF add THEN f(start.a) + f(v) + carry ELSE f(start.a) - f(v) - (1 - carry)
        plain(n) == n
        digits == \A n \in {start.a, v} : n % 16 < 10 /\ n \div 16 < 10
    IN IF "D" \in start.p
       THEN digits => /\ Decimal(m.a) = sum(Decimal) % 100
                      /\ m.a % 16 < 10
                      /\ ("C" \in m.p) <=> (IF add THEN sum(Decimal) >= 100 ELSE sum(Decimal) >= 0)
       ELSE /\ m.a = sum(plain) % 256
            /\ ("C" \in m.p) <=> (IF add THEN sum(plain) > 255 ELSE sum(plain) >= 0)
            /\ ("V" \in m.p) <=> sum(Signed) \notin -128 .. 127
            /\ ("N" \in m.p) <=> m.a >= 128

\* An undocumented combination leaves the registers, the flags and the memory as
\* the two documented instructions it is made of do, one after the other.
Parts == [SLO |-> <<"ASL", "ORA">>, RLA |-> <<"ROL", "AND">>, SRE |-> <<"LSR", "EOR">>,
          RRA |-> <<"ROR", "ADC">>, DCP |-> <<"DEC", "CMP">>, ISC |-> <<"INC", "SBC">>]
UnofficialAgrees ==
  Len(ran) = 1 /\ ran[1] \in DOMAIN Parts =>
    LET first  == Shift(start, Peek(start.mem, m.ea), Parts[ran[1]][1])
        second == Consume(Parts[ran[1]][2], [start EXCEPT !.p = first.p], first.byte)
    IN <<m.a, m.x, m.y, m.s, m.p, Peek(m.mem, m.ea)>> =
         <<second.a, start.x, start.y, start.s, second.p, first.byte>>

\* What is stacked comes back: a return goes on after its call or its BRK, with
\* the stack where it was and, after BRK, the same flags; what a push saved, a
\* pull restores, wherever in its page the stack is and however it wraps.
StackPairs ==
  /\ ran \in {<<"JSR", "RTS">>, <<"BRK", "RTI">>, <<"PHA", "PLA">>, <<"PHP", "PLP">>} => m.s = start.s
  /\ ran = <<"JSR", "RTS">> => m.pc = Word(start.pc + 3)
  /\ ran = <<"BRK", "RTI">> => m.pc = Word(start.pc + 2) /\ m.p = start.p
  /\ ran = <<"PHA", "PLA">> => m.a = start.a
  /\ ran = <<"PHP", "PLP">> => m.p = start.p

==============================================================================
