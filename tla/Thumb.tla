------------------------------- MODULE Thumb -------------------------------
(***************************************************************************)
(* The ARM7TDMI Thumb interpreter of crates/rusty2600-thumb, which runs    *)
(* the programs of DPC+ and CDF cartridges: the nineteen instruction       *)
(* formats on raw opcodes.  A word has W bits (32 in the code), a half W/2 *)
(* and a byte W/4, so that the arithmetic can be checked on narrow words.  *)
(* A machine is its registers, its flags that are set, its memory and what *)
(* the last step came to: normal, ended, fault, or panic where the         *)
(* interpreter itself would stop.  The stored PC is the next instruction's *)
(* address + 2 between steps and + 4 during one.                           *)
(***************************************************************************)
EXTENDS Integers, SequencesExt, FiniteSetsExt

CONSTANTS W,            \* bits of a word
          Programs,     \* functions from addresses to opcodes
          Machines(_),  \* the machines a program starts on
          Cap           \* ARM_STEP_SAFETY_CAP: steps before the board gives up

VARIABLES arm,          \* the machine
          code,         \* the program
          start,        \* the machine at first
          calls,        \* the calls that have not returned: [back, sp, kept]
          steps         \* steps so far

vars == <<arm, code, start, calls, steps>>

SP == 13
LR == 14
PC == 15
Top == 2^(W - 1)
Cut(v) == v % 2^W
Not(v) == 2^W - 1 - v
Even(v) == v - (v % 2)
Aligned(v) == v - (v % 4)
BitOf(v, i) == (v \div 2^i) % 2
Bitwise(f(_, _), u, v) == FoldSet(LAMBDA i, n : n + f(BitOf(u, i), BitOf(v, i)) * 2^i, 0, 0 .. W - 1)

\* The bits hi to lo of an opcode.
Field(o, hi, lo) == (o \div 2^lo) % 2^(hi - lo + 1)
Signed(v, bits) == IF v >= 2^(bits - 1) THEN v - 2^bits ELSE v

------------------------------------------------------------------------------
(* Flags.                                                                  *)

With(p, flag, on) == IF on THEN p \cup {flag} ELSE p \ {flag}
NZ(p, v) == With(With(p, "N", v >= Top), "Z", v = 0)
Carry(p) == IF "C" \in p THEN 1 ELSE 0

\* set_add_flags: the carry into the sign bit, and the one out of it.
BugAddFlags(p, a, b, c) ==
  LET out == (a + b) \div 2^W
      into == ((a % Top) + (b % Top) + c) \div Top
  IN With(With(p, "C", out = 1), "V", into # out)
AddFlags(p, a, b, c) ==
  LET into == ((a % Top) + (b % Top) + c) \div Top
      out  == (into + (a \div Top) + (b \div Top)) \div 2
  IN With(With(p, "C", out = 1), "V", into # out)

Condition(p, cond) ==
  LET n == "N" \in p  z == "Z" \in p  c == "C" \in p  v == "V" \in p
  IN <<z, ~ z, c, ~ c, n, ~ n, v, ~ v, c /\ ~ z, ~ c \/ z, n = v, n # v,
       ~ z /\ n = v, z \/ n # v, TRUE>>[cond + 1]

------------------------------------------------------------------------------
(* Registers and memory.                                                   *)

Set(q, r, v) == [q EXCEPT !.r[r] = Cut(v)]
SetNZ(q, r, v) == [q EXCEPT !.r[r] = Cut(v), !.p = NZ(@, Cut(v))]
Goto(q, v) == Set(q, PC, v)
Fault(q) == [q EXCEPT !.outcome = "fault"]

\* n bytes at addr, the lowest first: aligned, and in memory that is there.
Cells(addr, n) == addr .. addr + n - 1
Reachable(q, addr, n) == addr % n = 0 /\ Cells(addr, n) \subseteq DOMAIN q.mem
Peek(q, addr, n) == FoldSet(LAMBDA i, v : v + q.mem[addr + i] * 2^(i * (W \div 4)), 0, 0 .. n - 1)
Poked(q, addr, n, v) ==
  [q EXCEPT !.mem = [a \in DOMAIN @ |-> IF a \in Cells(addr, n)
                                        THEN (v \div 2^((a - addr) * (W \div 4))) % 2^(W \div 4)
                                        ELSE @[a]]]

Load(q, r, addr, n) == IF Reachable(q, addr, n) THEN Set(q, r, Peek(q, addr, n)) ELSE Fault(q)
LoadSigned(q, r, addr, n) ==
  IF Reachable(q, addr, n) THEN Set(q, r, Signed(Peek(q, addr, n), n * (W \div 4))) ELSE Fault(q)
Store(q, r, addr, n) == IF Reachable(q, addr, n) THEN Poked(q, addr, n, q.r[r]) ELSE Fault(q)

------------------------------------------------------------------------------
(* Arithmetic.                                                             *)

AddTo(q, r, a, b, c) == [SetNZ(q, r, a + b + c) EXCEPT !.p = AddFlags(@, a, b, c)]
Comparing(q, a, b, c) == [q EXCEPT !.p = AddFlags(NZ(@, Cut(a + b + c)), a, b, c)]

\* A shift of register r by n: LSL, LSR and ASR lose all bits from W on; a
\* rotation has its carry from the bit before n, taken without a mask.
ShiftLeft(q, r, v, n) ==
  [SetNZ(q, r, IF n < W THEN v * 2^n ELSE 0)
     EXCEPT !.p = IF n = 0 THEN @ ELSE With(@, "C", n <= W /\ BitOf(v, W - n) = 1)]
ShiftRight(q, r, v, n) ==
  [SetNZ(q, r, IF n < W THEN v \div 2^n ELSE 0)
     EXCEPT !.p = IF n = 0 THEN @ ELSE With(@, "C", n <= W /\ BitOf(v, n - 1) = 1)]
ShiftSigned(q, r, v, n) ==
  LET by == IF n < W THEN n ELSE W
  IN [SetNZ(q, r, Signed(v, W) \div 2^by)
        EXCEPT !.p = IF n = 0 THEN @ ELSE With(@, "C", BitOf(v, by - 1) = 1)]
Rotate(q, r, v, n) ==
  LET by == n % W
  IN CASE n % (8 * W) = 0 -> SetNZ(q, r, v)
       [] n % (8 * W) # 0 /\ by = 0 -> [SetNZ(q, r, v) EXCEPT !.p = With(@, "C", v >= Top)]
       [] by # 0 -> [SetNZ(q, r, (v \div 2^by) + (v % 2^by) * 2^(W - by))
                       EXCEPT !.p = With(@, "C", n > W \/ BitOf(v, n - 1) = 1)]

------------------------------------------------------------------------------
(* The formats, on a machine whose PC is the instruction's address + 4.    *)

\* The shift's field has fewer than W values, and a right shift by 0 is one by W.
MoveShiftedRegister(q, o) ==
  LET n == Field(o, 10, 6)
      d == Field(o, 2, 0)
      v == q.r[Field(o, 5, 3)]
      all == IF n = 0 THEN W ELSE n
  IN CASE Field(o, 12, 11) = 0 -> ShiftLeft(q, d, v, n)
       [] Field(o, 12, 11) = 1 -> ShiftRight(q, d, v, all)
       [] Field(o, 12, 11) = 2 -> ShiftSigned(q, d, v, all)
       [] Field(o, 12, 11) = 3 -> [q EXCEPT !.outcome = "panic"]

AddSubtract(q, o) ==
  LET v == IF Field(o, 10, 10) = 1 THEN Field(o, 8, 6) ELSE q.r[Field(o, 8, 6)]
      s == q.r[Field(o, 5, 3)]
  IN IF Field(o, 9, 9) = 1 THEN AddTo(q, Field(o, 2, 0), s, Not(v), 1) ELSE AddTo(q, Field(o, 2, 0), s, v, 0)

MovCmpAddSubImm(q, o) ==
  LET d == Field(o, 10, 8)
      v == Field(o, 7, 0)
  IN CASE Field(o, 12, 11) = 0 -> SetNZ(q, d, v)
       [] Field(o, 12, 11) = 1 -> Comparing(q, q.r[d], Not(v), 1)
       [] Field(o, 12, 11) = 2 -> AddTo(q, d, q.r[d], v, 0)
       [] Field(o, 12, 11) = 3 -> AddTo(q, d, q.r[d], Not(v), 1)

AluOperations(q, o) ==
  LET d  == Field(o, 2, 0)
      u  == q.r[d]
      v  == q.r[Field(o, 5, 3)]
      op == Field(o, 9, 6)
      and(x, y) == x * y
      or(x, y) == x + y - x * y
      xor(x, y) == (x + y) % 2
  IN CASE op = 0  -> SetNZ(q, d, Bitwise(and, u, v))
       [] op = 1  -> SetNZ(q, d, Bitwise(xor, u, v))
       [] op = 2  -> ShiftLeft(q, d, u, v)
       [] op = 3  -> ShiftRight(q, d, u, v)
       [] op = 4  -> ShiftSigned(q, d, u, v)
       [] op = 5  -> AddTo(q, d, u, v, Carry(q.p))
       [] op = 6  -> AddTo(q, d, u, Not(v), Carry(q.p))
       [] op = 7  -> Rotate(q, d, u, v)
       [] op = 8  -> [q EXCEPT !.p = NZ(@, Bitwise(and, u, v))]
       [] op = 9  -> AddTo(q, d, 0, Not(v), 1)
       [] op = 10 -> Comparing(q, u, Not(v), 1)
       [] op = 11 -> Comparing(q, u, v, 0)
       [] op = 12 -> SetNZ(q, d, Bitwise(or, u, v))
       [] op = 13 -> SetNZ(q, d, u * v)
       [] op = 14 -> SetNZ(q, d, Bitwise(and, u, Not(v)))
       [] op = 15 -> SetNZ(q, d, Not(v))

\* BX: to Thumb code, to the address the 6507 called from, which ends the
\* program, or to ARM code, which is not there.
BranchExchange(q, s) ==
  LET to == Cut(IF s = PC THEN q.r[PC] + 2 ELSE Even(Cut(q.r[s] + 2)))
  IN IF q.r[s] % 2 = 1 THEN Goto(q, to)
     ELSE IF to = q.expected THEN [q EXCEPT !.outcome = "ended"]
     ELSE Fault(q)

HiRegisterOps(q, o) ==
  LET s == Field(o, 6, 3)
      d == Field(o, 2, 0) + 8 * Field(o, 7, 7)
      placed(v) == IF d = PC THEN Goto(q, Even(Cut(v + 2))) ELSE Set(q, d, v)
  IN CASE Field(o, 9, 8) = 0 -> placed(q.r[d] + q.r[s])
       [] Field(o, 9, 8) = 1 -> Comparing(q, q.r[d], Not(q.r[s]), 1)
       [] Field(o, 9, 8) = 2 -> placed(q.r[s])
       [] Field(o, 9, 8) = 3 -> BranchExchange(q, s)

PcRelativeLoad(q, o) == Load(q, Field(o, 10, 8), Cut(Aligned(q.r[PC]) + 4 * Field(o, 7, 0)), 4)

\* Loads and stores of one register.
Transfer(q, load, r, addr, n) == IF load = 1 THEN Load(q, r, addr, n) ELSE Store(q, r, addr, n)
ByRegisters(q, o) == Cut(q.r[Field(o, 5, 3)] + q.r[Field(o, 8, 6)])
ByOffset(q, o, n) == Cut(q.r[Field(o, 5, 3)] + n * Field(o, 10, 6))

LoadStoreWithRegisterOffset(q, o) ==
  Transfer(q, Field(o, 11, 11), Field(o, 2, 0), ByRegisters(q, o), IF Field(o, 10, 10) = 1 THEN 1 ELSE 4)
LoadStoreSignExtended(q, o) ==
  LET r == Field(o, 2, 0)
  IN CASE Field(o, 11, 10) = 0 -> Store(q, r, ByRegisters(q, o), 2)
       [] Field(o, 11, 10) = 2 -> Load(q, r, ByRegisters(q, o), 2)
       [] Field(o, 11, 10) = 1 -> LoadSigned(q, r, ByRegisters(q, o), 1)
       [] Field(o, 11, 10) = 3 -> LoadSigned(q, r, ByRegisters(q, o), 2)
LoadStoreWithImmOffset(q, o) ==
  LET n == IF Field(o, 12, 12) = 1 THEN 1 ELSE 4
  IN Transfer(q, Field(o, 11, 11), Field(o, 2, 0), ByOffset(q, o, n), n)
LoadStoreHalfword(q, o) == Transfer(q, Field(o, 11, 11), Field(o, 2, 0), ByOffset(q, o, 2), 2)
SpRelativeLoadStore(q, o) ==
  Transfer(q, Field(o, 11, 11), Field(o, 10, 8), Cut(q.r[SP] + 4 * Field(o, 7, 0)), 4)

LoadAddress(q, o) ==
  Set(q, Field(o, 10, 8), IF Field(o, 11, 11) = 1 THEN q.r[SP] + 4 * Field(o, 7, 0)
                          ELSE Aligned(Cut(q.r[PC] - 2 * BitOf(q.r[PC], 1) + 4 * Field(o, 7, 0))))
AddOffsetToSp(q, o) == Set(q, SP, q.r[SP] + (IF Field(o, 7, 7) = 1 THEN -4 ELSE 4) * Field(o, 6, 0))

\* Loads and stores of a list: a fault leaves what came before it done.
Listed(o) == SetToSortSeq({i \in 0 .. 7 : BitOf(o, i) = 1}, <)
Then(s, f(_, _), r) ==
  IF s.q.outcome # "normal" THEN s ELSE [q |-> f(s.q, s.addr), addr |-> Cut(s.addr + 4)]
LoadList(q, regs, addr) ==
  FoldLeft(LAMBDA s, r : Then(s, LAMBDA m, a : Load(m, r, a, 4), r), [q |-> q, addr |-> addr], regs)
StoreList(q, regs, addr) ==
  FoldLeft(LAMBDA s, r : Then(s, LAMBDA m, a : Store(m, r, a, 4), r), [q |-> q, addr |-> addr], regs)

Pop(q, o) ==
  LET regs == Listed(o) \o IF Field(o, 8, 8) = 1 THEN <<PC>> ELSE <<>>
      s    == LoadList(q, regs, q.r[SP])
      back == IF Field(o, 8, 8) = 1 THEN Goto(s.q, Even(s.q.r[PC]) + 2) ELSE s.q
  IN IF s.q.outcome = "normal" THEN Set(back, SP, s.addr) ELSE [s.q EXCEPT !.r[PC] = q.r[PC]]
BugPush(q, o) ==
  LET regs == (IF Field(o, 8, 8) = 1 THEN <<LR>> ELSE <<>>) \o Listed(o)
      to   == Cut(q.r[SP] - 4 * Len(regs))
      s    == StoreList(q, regs, to)
  IN IF s.q.outcome = "normal" THEN Set(s.q, SP, to) ELSE s.q
Push(q, o) ==
  LET regs == Listed(o) \o IF Field(o, 8, 8) = 1 THEN <<LR>> ELSE <<>>
      to   == Cut(q.r[SP] - 4 * Len(regs))
      s    == StoreList(q, regs, to)
  IN IF s.q.outcome = "normal" THEN Set(s.q, SP, to) ELSE s.q
PushPopRegisters(q, o) == IF Field(o, 11, 11) = 1 THEN Pop(q, o) ELSE Push(q, o)

\* A base that is loaded keeps what was loaded.
MultipleLoadStore(q, o) ==
  LET b    == Field(o, 10, 8)
      load == Field(o, 11, 11) = 1
      s    == IF load THEN LoadList(q, Listed(o), q.r[b]) ELSE StoreList(q, Listed(o), q.r[b])
  IN IF s.q.outcome # "normal" \/ (load /\ BitOf(o, b) = 1) THEN s.q ELSE Set(s.q, b, s.addr)

ConditionalBranch(q, o) ==
  IF Condition(q.p, Field(o, 11, 8)) THEN Goto(q, q.r[PC] + 2 * Signed(Field(o, 7, 0), 8) + 2) ELSE q
SoftwareInterrupt(q, o) == Fault(q)
UnconditionalBranch(q, o) == Goto(q, q.r[PC] + 2 * Signed(Field(o, 10, 0), 11) + 2)

\* BL in two halves: the first leaves the upper part of the target in LR, the
\* second the address to come back to, as Thumb code.
LongBranchWithLink(q, o) ==
  IF Field(o, 11, 11) = 1
  THEN Goto(Set(q, LR, q.r[PC] - 1), q.r[LR] + 2 * Field(o, 10, 0))
  ELSE Set(q, LR, q.r[PC] + 4096 * Signed(Field(o, 10, 0), 11) + 2)

------------------------------------------------------------------------------
(* execute: the formats in the order in which they are asked for.          *)

Format(o) ==
  CASE o >= \hF000 -> 19
    [] o \in \hE000 .. \hEFFF -> 18
    [] o \in \hDF00 .. \hDFFF -> 17
    [] o \in \hD000 .. \hDEFF -> 16
    [] o \in \hC000 .. \hCFFF -> 15
    [] o \in \hB000 .. \hBFFF /\ Field(o, 10, 9) = 2 -> 14
    [] o \in \hB000 .. \hB0FF -> 13
    [] o \in \hA000 .. \hAFFF -> 12
    [] o \in \h9000 .. \h9FFF -> 11
    [] o \in \h8000 .. \h8FFF -> 10
    [] o \in \h6000 .. \h7FFF -> 9
    [] o \in \h5000 .. \h5FFF /\ Field(o, 9, 9) = 1 -> 8
    [] o \in \h5000 .. \h5FFF /\ Field(o, 9, 9) = 0 -> 7
    [] o \in \h4800 .. \h4FFF -> 6
    [] o \in \h4400 .. \h47FF -> 5
    [] o \in \h4000 .. \h43FF -> 4
    [] o \in \h2000 .. \h3FFF -> 3
    [] o \in \h1800 .. \h1FFF -> 2
    [] OTHER -> 1                      \* the opcodes of no format too

Next_(q) == Cut(q.r[PC] - 2)           \* the instruction to fetch
Opcode == code[Next_(arm)]
Fetched == Goto(arm, Next_(arm) + 4)

\* The calls that an instruction o at machine q leaves open: BL's second half
\* makes one, and BX lr and POP {pc} return from the last.
Returns(o) == o = \h4770 \/ (Format(o) = 14 /\ Field(o, 11, 11) = 1 /\ Field(o, 8, 8) = 1)
Calls(q, o) ==
  IF Format(o) = 19 /\ Field(o, 11, 11) = 1
  THEN Append(calls, [back |-> Cut(q.r[PC] - 2), sp |-> q.r[SP], kept |-> [i \in 4 .. 7 |-> q.r[i]]])
  ELSE IF Returns(o) /\ calls # <<>> THEN Front(calls) ELSE calls

Does(format, Instruction(_, _)) ==
  /\ arm.outcome = "normal"
  /\ steps < Cap
  /\ Next_(arm) \in DOMAIN code
  /\ Format(Opcode) = format
  /\ arm' = Instruction(Fetched, Opcode)
  /\ calls' = Calls(Fetched, Opcode)
  /\ steps' = steps + 1
  /\ UNCHANGED <<code, start>>

\* There is no code to fetch.
FetchFault ==
  /\ arm.outcome = "normal"
  /\ steps < Cap
  /\ Next_(arm) \notin DOMAIN code
  /\ arm' = Fault(arm)
  /\ steps' = steps + 1
  /\ UNCHANGED <<code, start, calls>>

Init ==
  /\ code \in Programs
  /\ arm \in Machines(code)
  /\ start = arm
  /\ calls = <<>>
  /\ steps = 0

Next ==
  \/ Does(1, MoveShiftedRegister) \/ Does(2, AddSubtract) \/ Does(3, MovCmpAddSubImm)
  \/ Does(4, AluOperations) \/ Does(5, HiRegisterOps) \/ Does(6, PcRelativeLoad)
  \/ Does(7, LoadStoreWithRegisterOffset) \/ Does(8, LoadStoreSignExtended)
  \/ Does(9, LoadStoreWithImmOffset) \/ Does(10, LoadStoreHalfword) \/ Does(11, SpRelativeLoadStore)
  \/ Does(12, LoadAddress) \/ Does(13, AddOffsetToSp) \/ Does(14, PushPopRegisters)
  \/ Does(15, MultipleLoadStore) \/ Does(16, ConditionalBranch) \/ Does(17, SoftwareInterrupt)
  \/ Does(18, UnconditionalBranch) \/ Does(19, LongBranchWithLink)
  \/ FetchFault

Spec == Init /\ [][Next]_vars


------------------------------------------------------------------------------
(* Properties.                                                             *)

\* What a comparison and an addition say of two numbers, read as plain and as
\* signed ones.
Relation(cond, u, v) ==
  LET a == Signed(u, W)
      b == Signed(v, W)
      d == a - b
  IN <<u = v, u # v, u >= v, u < v, Cut(d) >= Top, Cut(d) < Top, d \notin -Top .. Top - 1,
       d \in -Top .. Top - 1, u > v, u <= v, a >= b, a < b, a > b, a <= b, TRUE>>[cond + 1]
Wide(lo, hi) == lo + hi * 2^W

\* Numbers of any size come out right: after CMP r0,r1 each conditional branch is
\* taken exactly when its relation holds of the two registers, and sums and
\* differences of two words each, carried from the lower to the upper by the
\* flag, are those of the wide numbers, with the upper's overflow.
NumbersExact ==
  LET first  == code[Next_(start)]
      second == code[Next_(start) + 2]
      r == start.r
  IN /\ steps = 2 /\ first = \h4288 /\ Format(second) = 16 =>
          (Next_(arm) # Next_(start) + 4) <=> Relation(Field(second, 11, 8), r[0], r[1])
     /\ steps = 2 /\ first = \h1880 /\ second = \h4159 =>
          /\ Wide(arm.r[0], arm.r[1]) = (Wide(r[0], r[1]) + Wide(r[2], r[3])) % 2^(2 * W)
          /\ ("C" \in arm.p) <=> Wide(r[0], r[1]) + Wide(r[2], r[3]) >= 2^(2 * W)
          /\ ("V" \in arm.p) <=> (Signed(Wide(r[0], r[1]), 2 * W) + Signed(Wide(r[2], r[3]), 2 * W))
                                    \notin -(2^(2 * W - 1)) .. 2^(2 * W - 1) - 1
     /\ steps = 2 /\ first = \h1A80 /\ second = \h4199 =>
          /\ Wide(arm.r[0], arm.r[1]) = (Wide(r[0], r[1]) - Wide(r[2], r[3])) % 2^(2 * W)
          /\ ("C" \in arm.p) <=> Wide(r[0], r[1]) >= Wide(r[2], r[3])

\* A subroutine that saves what it uses returns to the instruction after its
\* call, with the stack pointer and r4 to r7 as they were, however deep it calls
\* itself and whether it returns with POP {pc} or with BX; and the program ends
\* only with every call returned and its stack empty.
HasCalls == \E at \in DOMAIN code : Format(code[at]) = 19 /\ Field(code[at], 11, 11) = 1
CallsReturn ==
  [][/\ HasCalls /\ Next_(arm) \in DOMAIN code /\ Returns(Opcode) =>
          LET call == Last(calls)
          IN /\ calls # <<>>
             /\ Next_(arm') = call.back
             /\ arm'.r[SP] = call.sp
             /\ \A i \in 4 .. 7 : arm'.r[i] = call.kept[i]
     /\ arm'.outcome = "ended" => calls = <<>> /\ arm'.r[SP] = start.r[SP]]_vars

\* Memory is the same through words, halves and bytes, and through lists of
\* registers: what a STRH and two STRBs leave is what one LDR and two signed
\* loads find, and what STMIA lays out LDMIA takes up again, lowest register
\* first and lowest address.
\*   STRH r0,[r4,#0]  STRB r1,[r4,#2]  STRB r2,[r4,#3]  LDR r5,[r4,#0]
\*   LDSH r6,[r4,r3]  LDSB r7,[r4,r3]
Narrow == <<\h8020, \h70A1, \h70E2, \h6825, \h5EE6, \h56E7>>
\*   STMIA r4!,{r0,r1,r2}  SUB r4,#12  LDMIA r4!,{r5,r6,r7}
Several == <<\hC407, \h3C0C, \hCCE0>>
Ran(program) ==
  /\ steps = Len(program)
  /\ \A i \in 1 .. Len(program) : code[Next_(start) + 2 * (i - 1)] = program[i]
MemoryAgrees ==
  LET r == start.r
      b == W \div 4
  IN /\ Ran(Narrow) =>
          /\ arm.r[5] = (r[0] % 2^(2 * b)) + (r[1] % 2^b) * 2^(2 * b) + (r[2] % 2^b) * 2^(3 * b)
          /\ r[3] = 2 => /\ arm.r[6] = Cut(Signed(arm.r[5] \div 2^(2 * b), 2 * b))
                         /\ arm.r[7] = Cut(Signed(r[1] % 2^b, b))
     /\ Ran(Several) => /\ <<arm.r[5], arm.r[6], arm.r[7]>> = <<r[0], r[1], r[2]>>
                        /\ arm.r[4] = Cut(r[4] + 12)

==============================================================================
