------------------------------ MODULE CpuProofs ------------------------------
EXTENDS Cpu, SequenceTheorems, TLAPS

LEMMA RangeIs ==
  ASSUME NEW n \in Int, NEW x
  PROVE  x \in 0 .. n <=> x \in Int /\ 0 <= x /\ x <= n
OBVIOUS

LEMMA InByteValues == \A x : x \in ByteValues <=> x \in Int /\ 0 <= x /\ x <= 255
<1>1. 255 \in Int
  OBVIOUS
<1> QED
  BY <1>1, RangeIs, Zenon DEF ByteValues

LEMMA InAddresses == \A x : x \in Addresses <=> x \in Int /\ 0 <= x /\ x <= 65535
<1> DEFINE last == 65535
<1>1. last \in Int
  OBVIOUS
<1>2. Addresses = 0 .. last
  BY SMT DEF Addresses
<1> HIDE DEF last
<1>3. \A x : x \in Addresses <=> x \in Int /\ 0 <= x /\ x <= last
  BY <1>1, <1>2, RangeIs
<1> QED
  BY <1>3 DEF last

\* The memory and the log of a machine, and the machine; Busy: the accesses of a
\* cycle that is no idle one.
Cells == UNION {[D -> ByteValues] : D \in SUBSET Addresses}
Memory == [cells : Cells, fill : ByteValues]
Busy == {"read", "write"} \X Addresses
Log == Seq({"read", "write", "idle"} \X Addresses)

Machine ==
  [a : ByteValues, x : ByteValues, y : ByteValues, s : ByteValues, p : SUBSET Flags, pc : Addresses,
   jammed : BOOLEAN, log : Log, data : ByteValues, ea : Addresses, crossed : BOOLEAN,
   claimed : Nat, mem : Memory]

LEMMA ByteFacts ==
  ASSUME NEW v \in Int
  PROVE  /\ Byte(v) \in ByteValues /\ Lo(v) \in ByteValues /\ Hi(v) \in ByteValues
         /\ Inc(v) \in ByteValues /\ Dec(v) \in ByteValues /\ Word(v) \in Addresses
<1>1. /\ v % 256 \in Int /\ 0 <= v % 256 /\ v % 256 <= 255
      /\ (v + 1) % 256 \in Int /\ 0 <= (v + 1) % 256 /\ (v + 1) % 256 <= 255
      /\ (v + 255) % 256 \in Int /\ 0 <= (v + 255) % 256 /\ (v + 255) % 256 <= 255
      /\ v % 65536 \in Int /\ 0 <= v % 65536 /\ v % 65536 <= 65535
  OBVIOUS
<1>2. v \div 256 \in Int
  OBVIOUS
<1>3. (v \div 256) % 256 \in Int /\ 0 <= (v \div 256) % 256 /\ (v \div 256) % 256 <= 255
  BY <1>2
<1> QED
  BY <1>1, <1>3, InByteValues, InAddresses DEF Byte, Lo, Hi, Inc, Dec, Word

LEMMA NumbersFacts ==
  /\ \A v \in ByteValues : v \in Addresses /\ v \in Int
  /\ \A v \in Addresses : v \in Int
BY InByteValues, InAddresses

LEMMA AddrFacts ==
  ASSUME NEW lo \in ByteValues, NEW hi \in ByteValues
  PROVE  Addr(lo, hi) \in Addresses /\ Stack(lo) \in Addresses
BY InByteValues, InAddresses DEF Addr, Stack

------------------------------------------------------------------------------
(* Memory.                                                                 *)

LEMMA PeekIs ==
  ASSUME NEW mem \in Memory, NEW addr \in Addresses
  PROVE  Peek(mem, addr) \in ByteValues
<1>1. PICK D \in SUBSET Addresses : mem.cells \in [D -> ByteValues]
  BY DEF Memory, Cells
<1> QED
  BY <1>1 DEF Peek, Memory

LEMMA PokeIs ==
  ASSUME NEW mem \in Memory, NEW addr \in Addresses, NEW v \in ByteValues
  PROVE  /\ Poke(mem, addr, v) \in Memory
         /\ Peek(Poke(mem, addr, v), addr) = v
         /\ \A other \in Addresses : other # addr => Peek(Poke(mem, addr, v), other) = Peek(mem, other)
<1>1. PICK D \in SUBSET Addresses : mem.cells \in [D -> ByteValues]
  BY DEF Memory, Cells
<1> DEFINE E == D \cup {addr}
           new == [i \in E |-> IF i = addr THEN v ELSE mem.cells[i]]
<1>2. new \in [E -> ByteValues] /\ new[addr] = v /\ \A other \in D : other # addr => new[other] = mem.cells[other]
  BY <1>1
<1>3. E \in SUBSET Addresses
  OBVIOUS
<1>4. new \in Cells
  BY <1>2, <1>3 DEF Cells
<1>5. DOMAIN new = E /\ DOMAIN mem.cells = D
  BY <1>1
<1>6. Poke(mem, addr, v) = [mem EXCEPT !.cells = new]
  BY <1>5 DEF Poke
<1>7. Poke(mem, addr, v) = [cells |-> new, fill |-> mem.fill]
  BY <1>6 DEF Memory
<1> HIDE DEF new
<1>8. Poke(mem, addr, v) \in Memory
  BY <1>4, <1>7 DEF Memory
<1>9. Peek(Poke(mem, addr, v), addr) = v
  BY <1>2, <1>5, <1>7 DEF Peek
<1>10. \A other \in Addresses : other # addr => Peek(Poke(mem, addr, v), other) = Peek(mem, other)
  BY <1>2, <1>5, <1>7 DEF Peek
<1> QED
  BY <1>8, <1>9, <1>10

------------------------------------------------------------------------------
(* The accesses.                                                           *)

LEMMA LogFacts ==
  ASSUME NEW S, NEW log \in Seq(S), NEW e \in S
  PROVE  Append(log, e) \in Seq(S) /\ Len(Append(log, e)) = Len(log) + 1
OBVIOUS

LEMMA BusyInLog == Seq(Busy) \subseteq Log
BY SeqMonotonic DEF Busy, Log

\* A machine in an instruction, n cycles on.
Ran(q, n) == q \in Machine /\ q.log \in Seq(Busy) /\ Len(q.log) = n

LEMMA MachineFields ==
  ASSUME NEW q \in Machine
  PROVE  /\ q.a \in ByteValues /\ q.x \in ByteValues /\ q.y \in ByteValues /\ q.s \in ByteValues
         /\ q.data \in ByteValues /\ q.pc \in Addresses /\ q.ea \in Addresses /\ q.mem \in Memory
         /\ q.p \in SUBSET Flags /\ q.crossed \in BOOLEAN /\ q.claimed \in Nat /\ q.log \in Log
         /\ q.jammed \in BOOLEAN
BY DEF Machine

\* What the accesses leave alone.
Kept(q, r) == r.a = q.a /\ r.x = q.x /\ r.y = q.y /\ r.p = q.p /\ r.ea = q.ea /\ r.crossed = q.crossed

LEMMA Logged ==
  ASSUME NEW q, NEW n \in Nat, Ran(q, n), NEW kind \in {"read", "write"}, NEW addr \in Addresses
  PROVE  LET log == Append(q.log, <<kind, addr>>)
         IN  log \in Seq(Busy) /\ log \in Log /\ Len(log) = n + 1
<1>1. q.log \in Seq(Busy) /\ Len(q.log) = n
  BY DEF Ran
<1>2. <<kind, addr>> \in Busy
  BY DEF Busy
<1> QED
  BY <1>1, <1>2, LogFacts, BusyInLog

LEMMA ReadIs ==
  ASSUME NEW q, NEW n \in Nat, Ran(q, n), NEW addr \in Addresses
  PROVE  /\ Ran(Read(q, addr), n + 1)
         /\ Kept(q, Read(q, addr))
         /\ Read(q, addr).pc = q.pc /\ Read(q, addr).s = q.s /\ Read(q, addr).mem = q.mem
         /\ Read(q, addr).data = Peek(q.mem, addr)
<1> DEFINE log == Append(q.log, <<"read", addr>>)
           byte == Peek(q.mem, addr)
           r == Read(q, addr)
<1>1. q \in Machine
  BY DEF Ran
<1>2. log \in Seq(Busy) /\ log \in Log /\ Len(log) = n + 1
  BY Logged
<1>3. byte \in ByteValues
  BY <1>1, PeekIs, MachineFields
<1>4. r = [q EXCEPT !.log = log, !.data = byte]
  BY DEF Read
<1> HIDE DEF log, byte, r
<1>5. r \in Machine
  BY <1>1, <1>2, <1>3, <1>4 DEF Machine
<1>6. r.log = log /\ r.data = byte /\ r.pc = q.pc /\ r.s = q.s /\ r.mem = q.mem /\ Kept(q, r)
  BY <1>1, <1>4 DEF Machine, Kept
<1> QED
  BY <1>2, <1>5, <1>6 DEF Ran, r, byte

LEMMA WriteIs ==
  ASSUME NEW q, NEW n \in Nat, Ran(q, n), NEW addr \in Addresses, NEW v \in ByteValues
  PROVE  /\ Ran(Write(q, addr, v), n + 1)
         /\ Kept(q, Write(q, addr, v))
         /\ Write(q, addr, v).pc = q.pc /\ Write(q, addr, v).s = q.s
         /\ Write(q, addr, v).mem = Poke(q.mem, addr, v) /\ Write(q, addr, v).data = v
<1> DEFINE log == Append(q.log, <<"write", addr>>)
           mem == Poke(q.mem, addr, v)
           r == Write(q, addr, v)
<1>1. q \in Machine
  BY DEF Ran
<1>2. log \in Seq(Busy) /\ log \in Log /\ Len(log) = n + 1
  BY Logged
<1>3. mem \in Memory
  BY <1>1, PokeIs, MachineFields
<1>4. r = [q EXCEPT !.log = log, !.data = v, !.mem = mem]
  BY DEF Write
<1> HIDE DEF log, mem, r
<1>5. r \in Machine
  BY <1>1, <1>2, <1>3, <1>4 DEF Machine
<1>6. r.log = log /\ r.data = v /\ r.pc = q.pc /\ r.s = q.s /\ r.mem = mem /\ Kept(q, r)
  BY <1>1, <1>4 DEF Machine, Kept
<1> QED
  BY <1>2, <1>5, <1>6 DEF Ran, r, mem

LEMMA FetchIs ==
  ASSUME NEW q, NEW n \in Nat, Ran(q, n)
  PROVE  /\ Ran(Fetch(q), n + 1)
         /\ Kept(q, Fetch(q))
         /\ Fetch(q).pc = Word(q.pc + 1) /\ Fetch(q).s = q.s /\ Fetch(q).mem = q.mem
         /\ Fetch(q).data = Peek(q.mem, q.pc)
<1> DEFINE r == Read(q, q.pc)
           to == Word(q.pc + 1)
<1>1. q \in Machine /\ q.pc \in Addresses
  BY MachineFields DEF Ran
<1>2. to \in Addresses
  BY <1>1, ByteFacts, NumbersFacts
<1>3. /\ Ran(r, n + 1) /\ Kept(q, r) /\ r.pc = q.pc /\ r.s = q.s /\ r.mem = q.mem
      /\ r.data = Peek(q.mem, q.pc)
  BY <1>1, ReadIs
<1>4. Fetch(q) = [r EXCEPT !.pc = to]
  BY <1>3 DEF Fetch
<1> HIDE DEF r, to
<1> QED
  BY <1>2, <1>3, <1>4 DEF Ran, Machine, Kept, to

LEMMA DummyIs ==
  ASSUME NEW q, NEW n \in Nat, Ran(q, n)
  PROVE  /\ Ran(Dummy(q), n + 1)
         /\ Kept(q, Dummy(q))
         /\ Dummy(q).pc = q.pc /\ Dummy(q).s = q.s /\ Dummy(q).mem = q.mem
<1>1. q.pc \in Addresses
  BY MachineFields DEF Ran
<1> QED
  BY <1>1, ReadIs DEF Dummy

LEMMA PushIs ==
  ASSUME NEW q, NEW n \in Nat, Ran(q, n), NEW v \in ByteValues
  PROVE  /\ Ran(Push(q, v), n + 1)
         /\ Kept(q, Push(q, v))
         /\ Push(q, v).pc = q.pc /\ Push(q, v).s = Dec(q.s)
         /\ Push(q, v).mem = Poke(q.mem, Stack(q.s), v)
<1> DEFINE r == Write(q, Stack(q.s), v)
           s == Dec(q.s)
<1>1. q.s \in ByteValues
  BY MachineFields DEF Ran
<1>2. s \in ByteValues /\ Stack(q.s) \in Addresses
  BY <1>1, ByteFacts, AddrFacts, NumbersFacts
<1>3. Ran(r, n + 1) /\ Kept(q, r) /\ r.pc = q.pc /\ r.s = q.s /\ r.mem = Poke(q.mem, Stack(q.s), v)
  BY <1>2, WriteIs
<1>4. Push(q, v) = [r EXCEPT !.s = s]
  BY <1>3 DEF Push
<1> HIDE DEF r, s
<1> QED
  BY <1>2, <1>3, <1>4 DEF Ran, Machine, Kept, s

LEMMA PullIs ==
  ASSUME NEW q, NEW n \in Nat, Ran(q, n)
  PROVE  /\ Ran(Pull(q), n + 1)
         /\ Kept(q, Pull(q))
         /\ Pull(q).pc = q.pc /\ Pull(q).s = Inc(q.s) /\ Pull(q).mem = q.mem
         /\ Pull(q).data = Peek(q.mem, Stack(Inc(q.s)))
<1> DEFINE s == Inc(q.s)
           up == [q EXCEPT !.s = s]
<1>1. q \in Machine /\ q.s \in ByteValues
  BY MachineFields DEF Ran
<1>2. s \in ByteValues /\ Stack(s) \in Addresses
  BY <1>1, ByteFacts, AddrFacts, NumbersFacts
<1>3. Pull(q) = Read(up, Stack(up.s))
  BY DEF Pull
<1> HIDE DEF s
<1>4. Ran(up, n) /\ Kept(q, up) /\ up.pc = q.pc /\ up.s = s /\ up.mem = q.mem
  BY <1>1, <1>2 DEF Ran, Machine, Kept
<1> HIDE DEF up
<1> QED
  BY <1>2, <1>3, <1>4, ReadIs DEF Kept, s

------------------------------------------------------------------------------
(* The addressing modes.                                                   *)

\* What the cycles of an operand leave alone.
Same(q, r) == r.a = q.a /\ r.x = q.x /\ r.y = q.y /\ r.s = q.s /\ r.p = q.p /\ r.mem = q.mem

IndexedByReads == {"absx", "absy", "indy"}
Modes == {"imm", "zp", "zpx", "zpy", "abs", "indx"} \cup IndexedByReads

LEMMA AtIs ==
  ASSUME NEW q, NEW n \in Nat, Ran(q, n), NEW addr \in Addresses
  PROVE  Ran(At(q, addr), n) /\ Same(q, At(q, addr)) /\ At(q, addr).ea = addr
BY DEF Ran, Machine, At, Same

\* A fetch, and two of them.
LEMMA FetchSame ==
  ASSUME NEW q, NEW n \in Nat, Ran(q, n)
  PROVE  Ran(Fetch(q), n + 1) /\ Same(q, Fetch(q)) /\ Fetch(q).data \in ByteValues
BY FetchIs, MachineFields DEF Ran, Kept, Same

LEMMA ReadSame ==
  ASSUME NEW q, NEW n \in Nat, Ran(q, n), NEW addr \in Addresses
  PROVE  Ran(Read(q, addr), n + 1) /\ Same(q, Read(q, addr)) /\ Read(q, addr).data \in ByteValues
BY ReadIs, MachineFields DEF Ran, Kept, Same

LEMMA SameTransitive ==
  ASSUME NEW q, NEW r, NEW t, Same(q, r), Same(r, t)
  PROVE  Same(q, t)
BY DEF Same

LEMMA AbsoluteIs ==
  ASSUME NEW q, NEW n \in Nat, Ran(q, n)
  PROVE  Ran(Absolute(q), n + 2) /\ Same(q, Absolute(q)) /\ Absolute(q).ea \in Addresses
<1> DEFINE lo == Fetch(q)
           hi == Fetch(lo)
           to == Addr(lo.data, hi.data)
<1>1. Ran(lo, n + 1) /\ Same(q, lo) /\ lo.data \in ByteValues
  BY FetchSame
<1>2. Ran(hi, n + 1 + 1) /\ Same(lo, hi) /\ hi.data \in ByteValues
  BY <1>1, FetchSame
<1>3. to \in Addresses
  BY <1>1, <1>2, AddrFacts
<1>4. Absolute(q) = At(hi, to)
  BY DEF Absolute
<1>5. n + 1 + 1 = n + 2 /\ n + 2 \in Nat
  OBVIOUS
<1> HIDE DEF lo, hi, to
<1> QED
  BY <1>1, <1>2, <1>3, <1>4, <1>5, AtIs, SameTransitive

LEMMA PointerIs ==
  ASSUME NEW q, NEW n \in Nat, Ran(q, n), NEW p \in ByteValues
  PROVE  Ran(Pointer(q, p), n + 2) /\ Same(q, Pointer(q, p)) /\ Pointer(q, p).ea \in Addresses
<1> DEFINE lo == Read(q, p)
           hi == Read(lo, Inc(p))
           to == Addr(lo.data, hi.data)
<1>1. p \in Addresses /\ Inc(p) \in Addresses
  BY ByteFacts, NumbersFacts
<1>2. Ran(lo, n + 1) /\ Same(q, lo) /\ lo.data \in ByteValues
  BY <1>1, ReadSame
<1>3. Ran(hi, n + 1 + 1) /\ Same(lo, hi) /\ hi.data \in ByteValues
  BY <1>1, <1>2, ReadSame
<1>4. to \in Addresses
  BY <1>2, <1>3, AddrFacts
<1>5. Pointer(q, p) = At(hi, to)
  BY DEF Pointer
<1>6. n + 1 + 1 = n + 2 /\ n + 2 \in Nat
  OBVIOUS
<1> HIDE DEF lo, hi, to
<1> QED
  BY <1>2, <1>3, <1>4, <1>5, <1>6, AtIs, SameTransitive

LEMMA ZeroPageIndexedIs ==
  ASSUME NEW q, NEW n \in Nat, Ran(q, n), NEW i \in ByteValues
  PROVE  Ran(ZeroPageIndexed(q, i), n + 2) /\ Same(q, ZeroPageIndexed(q, i))
<1> DEFINE f == Fetch(q)
           r == Read(f, f.data)
           to == Byte(f.data + i)
<1>1. Ran(f, n + 1) /\ Same(q, f) /\ f.data \in ByteValues
  BY FetchSame
<1>2. f.data \in Addresses /\ f.data + i \in Int
  BY <1>1, InByteValues, InAddresses
<1>3. Ran(r, n + 1 + 1) /\ Same(f, r)
  BY <1>1, <1>2, ReadSame
<1>4. to \in Addresses
  BY <1>2, ByteFacts, NumbersFacts
<1>5. ZeroPageIndexed(q, i) = At(r, to)
  BY DEF ZeroPageIndexed
<1>6. n + 1 + 1 = n + 2 /\ n + 2 \in Nat
  OBVIOUS
<1> HIDE DEF f, r, to
<1> QED
  BY <1>1, <1>3, <1>4, <1>5, <1>6, AtIs, SameTransitive

\* An index takes a cycle exactly when Claim says so.
LEMMA IndexedIs ==
  ASSUME NEW q, NEW n \in Nat, Ran(q, n), NEW i \in ByteValues, NEW always \in BOOLEAN
  PROVE  LET r == Indexed(q, i, always)
         IN  Ran(r, n + Flag(r.crossed \/ always)) /\ Same(q, r)
<1> DEFINE crosses == Hi(q.ea) # Hi(q.ea + i)
           to == Word(q.ea + i)
           dummy == Read(q, Unfixed(q.ea, i))
           at(r) == [r EXCEPT !.ea = to, !.crossed = crosses]
           res == Indexed(q, i, always)
<1>1. q.ea \in Addresses /\ q.ea \in Int /\ q.ea + i \in Int
  BY MachineFields, InByteValues, InAddresses DEF Ran
<1>2. to \in Addresses /\ Unfixed(q.ea, i) \in Addresses
  BY <1>1, ByteFacts, AddrFacts DEF Unfixed
<1>3. crosses \in BOOLEAN
  OBVIOUS
<1>4. Ran(dummy, n + 1) /\ Same(q, dummy)
  BY <1>2, ReadSame
<1>5. res = IF crosses \/ always THEN at(dummy) ELSE at(q)
  BY DEF Indexed
<1> HIDE DEF crosses, to, dummy, res
<1>6. ASSUME NEW r, NEW k \in Nat, Ran(r, k)
      PROVE  Ran(at(r), k) /\ Same(r, at(r)) /\ at(r).crossed = crosses
  BY <1>2, <1>3, <1>6 DEF Ran, Machine, Same
<1>7. Ran(at(dummy), n + 1) /\ Same(dummy, at(dummy)) /\ at(dummy).crossed = crosses
  <2>1. n + 1 \in Nat
    OBVIOUS
  <2> HIDE DEF at
  <2> QED
    BY <1>4, <1>6, <2>1
<1>8. Ran(at(q), n) /\ Same(q, at(q)) /\ at(q).crossed = crosses
  BY <1>6
<1> HIDE DEF at
<1>9. CASE crosses \/ always
  <2>1. res = at(dummy)
    BY <1>5, <1>9
  <2>2. Flag(res.crossed \/ always) = 1
    BY <1>7, <1>9, <2>1 DEF Flag
  <2> QED
    BY <1>4, <1>7, <2>1, <2>2, SameTransitive DEF res
<1>10. CASE ~ (crosses \/ always)
  <2>1. res = at(q)
    BY <1>5, <1>10
  <2>2. Flag(res.crossed \/ always) = 0
    BY <1>8, <1>10, <2>1 DEF Flag
  <2> QED
    BY <1>8, <2>1, <2>2 DEF res
<1> QED
  BY <1>9, <1>10

Cycles(mode, crossed, always) ==
  IF mode = "imm" THEN 1 ELSE OperandCycles(mode) + Flag(mode \in IndexedByReads /\ (crossed \/ always))

LEMMA OperandIs ==
  ASSUME NEW q, NEW n \in Nat, Ran(q, n), NEW mode \in Modes, NEW always \in BOOLEAN
  PROVE  LET at == Operand(q, mode, always)
         IN  Ran(at, n + Cycles(mode, at.crossed, always)) /\ Same(q, at)
<1> DEFINE at == Operand(q, mode, always)
           f == Fetch(q)
<1> SUFFICES Ran(at, n + Cycles(mode, at.crossed, always)) /\ Same(q, at)
  OBVIOUS
<1>1. Ran(f, n + 1) /\ Same(q, f) /\ f.data \in ByteValues /\ f.data \in Addresses
  BY FetchSame, NumbersFacts
<1>2. q.pc \in Addresses /\ q.x \in ByteValues /\ q.y \in ByteValues
  BY MachineFields DEF Ran
<1>3. CASE mode = "imm"
  <2>1. at = At(f, q.pc) /\ Cycles(mode, at.crossed, always) = 1
    BY <1>3, Zenon DEF Operand, Cycles
  <2> QED
    BY <1>1, <1>2, <2>1, AtIs, SameTransitive
<1>4. CASE mode = "zp"
  <2>1. at = At(f, f.data)
    BY <1>4, Zenon DEF Operand
  <2>2. Cycles(mode, at.crossed, always) = 1
    BY <1>4 DEF Cycles, OperandCycles, Flag, IndexedByReads
  <2> QED
    BY <1>1, <2>1, <2>2, AtIs, SameTransitive
<1>5. CASE mode \in {"zpx", "zpy"}
  <2>1. at = ZeroPageIndexed(q, IF mode = "zpx" THEN q.x ELSE q.y)
    BY <1>5 DEF Operand
  <2>2. Cycles(mode, at.crossed, always) = 2
    BY <1>5 DEF Cycles, OperandCycles, Flag, IndexedByReads
  <2> QED
    BY <1>2, <2>1, <2>2, ZeroPageIndexedIs
<1>6. CASE mode = "abs"
  <2>1. at = Absolute(q)
    BY <1>6, Zenon DEF Operand
  <2>2. Cycles(mode, at.crossed, always) = 2
    BY <1>6 DEF Cycles, OperandCycles, Flag, IndexedByReads
  <2> QED
    BY <2>1, <2>2, AbsoluteIs
<1>7. CASE mode \in {"absx", "absy"}
  <2> DEFINE i == IF mode = "absx" THEN q.x ELSE q.y
  <2>1. at = Indexed(Absolute(q), i, always) /\ i \in ByteValues
    BY <1>2, <1>7 DEF Operand
  <2>2. Cycles(mode, at.crossed, always) = 2 + Flag(at.crossed \/ always)
    BY <1>7 DEF Cycles, OperandCycles, IndexedByReads
  <2>3. Ran(Absolute(q), n + 2) /\ Same(q, Absolute(q)) /\ n + 2 \in Nat
    BY AbsoluteIs
  <2> HIDE DEF i, at
  <2>4. Ran(at, n + 2 + Flag(at.crossed \/ always)) /\ Same(Absolute(q), at)
    BY <2>1, <2>3, IndexedIs
  <2>5. n + 2 + Flag(at.crossed \/ always) = n + (2 + Flag(at.crossed \/ always))
    BY DEF Flag
  <2> QED
    BY <2>2, <2>3, <2>4, <2>5, SameTransitive
<1>8. CASE mode = "indx"
  <2> DEFINE r == Read(f, f.data)
             p == Byte(f.data + q.x)
  <2>1. at = Pointer(r, p)
    BY <1>8 DEF Operand
  <2>2. Cycles(mode, at.crossed, always) = 4
    BY <1>8 DEF Cycles, OperandCycles, Flag, IndexedByReads
  <2>3. Ran(r, n + 1 + 1) /\ Same(f, r)
    BY <1>1, ReadSame
  <2>4. f.data + q.x \in Int
    BY <1>1, <1>2, InByteValues
  <2>5. p \in ByteValues
    BY <2>4, ByteFacts
  <2> HIDE DEF r, p, at, f
  <2>6. Ran(at, n + 1 + 1 + 2) /\ Same(r, at)
    BY <2>1, <2>3, <2>5, PointerIs
  <2>7. n + 1 + 1 + 2 = n + 4
    OBVIOUS
  <2> QED
    BY <1>1, <2>2, <2>3, <2>6, <2>7, SameTransitive
<1>9. CASE mode = "indy"
  <2> DEFINE t == Pointer(f, f.data)
  <2>1. at = Indexed(t, q.y, always)
    BY <1>9 DEF Operand
  <2>2. Cycles(mode, at.crossed, always) = 3 + Flag(at.crossed \/ always)
    BY <1>9 DEF Cycles, OperandCycles, IndexedByReads
  <2>3. Ran(t, n + 1 + 2) /\ Same(f, t) /\ n + 1 + 2 \in Nat
    BY <1>1, PointerIs
  <2> HIDE DEF t, at, f
  <2>4. Ran(at, n + 1 + 2 + Flag(at.crossed \/ always)) /\ Same(t, at)
    BY <1>2, <2>1, <2>3, IndexedIs
  <2>5. n + 1 + 2 + Flag(at.crossed \/ always) = n + (3 + Flag(at.crossed \/ always))
    BY DEF Flag
  <2> QED
    BY <1>1, <2>2, <2>3, <2>4, <2>5, SameTransitive
<1> QED
  BY <1>3, <1>4, <1>5, <1>6, <1>7, <1>8, <1>9 DEF Modes, IndexedByReads

------------------------------------------------------------------------------
(* Bitwise operations: what OfBits sums, and the top bit of a result.      *)

Weight(S, k) == IF k \in S THEN 2^k ELSE 0

LEMMA OfBitsIs ==
  ASSUME NEW S
  PROVE  OfBits(S, 8) = Weight(S, 0) + Weight(S, 1) + Weight(S, 2) + Weight(S, 3)
                          + Weight(S, 4) + Weight(S, 5) + Weight(S, 6) + Weight(S, 7)
<1> DEFINE b(k) == IF k \in S THEN 2^k ELSE 0
           next(f) == [i \in 0 .. 8 |-> IF i = 0 THEN 0 ELSE f[i - 1] + IF i - 1 \in S THEN 2^(i - 1) ELSE 0]
           w0 == b(0)
           w1 == w0 + b(1)
           w2 == w1 + b(2)
           w3 == w2 + b(3)
           w4 == w3 + b(4)
           w5 == w4 + b(5)
           w6 == w5 + b(6)
           w7 == w6 + b(7)
           f == [i \in 0 .. 8 |-> CASE i = 0 -> 0 [] i = 1 -> w0 [] i = 2 -> w1 [] i = 3 -> w2 [] i = 4 -> w3
                                     [] i = 5 -> w4 [] i = 6 -> w5 [] i = 7 -> w6 [] i = 8 -> w7]
           sum == CHOOSE g : g = next(g)
<1>1. ASSUME NEW i \in 0 .. 8
      PROVE  f[i] = IF i = 0 THEN 0 ELSE f[i - 1] + IF i - 1 \in S THEN 2^(i - 1) ELSE 0
  <2>1. f[0] = 0 /\ f[1] = b(0) /\ f[2] = w0 + b(1) /\ f[3] = w1 + b(2) /\ f[4] = w2 + b(3)
        /\ f[5] = w3 + b(4) /\ f[6] = w4 + b(5) /\ f[7] = w5 + b(6) /\ f[8] = w6 + b(7)
    OBVIOUS
  <2>2. f[1] = w0 /\ f[2] = w1 /\ f[3] = w2 /\ f[4] = w3 /\ f[5] = w4 /\ f[6] = w5 /\ f[7] = w6
    OBVIOUS
  <2>3. i \in {0, 1, 2, 3, 4, 5, 6, 7, 8}
    OBVIOUS
  <2> HIDE DEF f, w0, w1, w2, w3, w4, w5, w6, w7
  <2>4. f[0] = 0 /\ f[1] = f[0] + b(0)
    BY <2>1, <2>2 DEF w0
  <2> HIDE DEF b
  <2>5. f[i] = IF i = 0 THEN 0 ELSE f[i - 1] + b(i - 1)
    BY <2>1, <2>2, <2>3, <2>4
  <2> QED
    BY <2>5 DEF b
<1>2. f = next(f)
  BY <1>1
<1>3. sum = next(sum)
  BY <1>2
<1>4. OfBits(S, 8) = sum[8]
  BY DEF OfBits
<1> HIDE DEF sum, f
<1>5. \A i \in 0 .. 8 : sum[i] = IF i = 0 THEN 0 ELSE sum[i - 1] + IF i - 1 \in S THEN 2^(i - 1) ELSE 0
  BY <1>3
<1>6. /\ sum[0] = 0 /\ sum[1] = sum[0] + b(0) /\ sum[2] = sum[1] + b(1) /\ sum[3] = sum[2] + b(2)
      /\ sum[4] = sum[3] + b(3) /\ sum[5] = sum[4] + b(4) /\ sum[6] = sum[5] + b(5)
      /\ sum[7] = sum[6] + b(6) /\ sum[8] = sum[7] + b(7)
  BY <1>5
<1> QED
  BY <1>4, <1>6 DEF Weight

LEMMA OfBitsFacts ==
  ASSUME NEW S
  PROVE  OfBits(S, 8) \in ByteValues /\ (OfBits(S, 8) >= 128 <=> 7 \in S)
<1> DEFINE low == Weight(S, 0) + Weight(S, 1) + Weight(S, 2) + Weight(S, 3) + Weight(S, 4) + Weight(S, 5) + Weight(S, 6)
<1>1. low \in 0 .. 127
  BY DEF Weight
<1>2. OfBits(S, 8) = low + (IF 7 \in S THEN 128 ELSE 0)
  BY OfBitsIs DEF Weight
<1> HIDE DEF low
<1> QED
  BY <1>1, <1>2, InByteValues

LEMMA BitwiseFacts ==
  ASSUME NEW u, NEW v
  PROVE  And(u, v) \in ByteValues /\ Or(u, v) \in ByteValues /\ Xor(u, v) \in ByteValues
BY OfBitsFacts DEF And, Or, Xor

LEMMA TopBit ==
  ASSUME NEW v \in ByteValues
  PROVE  7 \in Bits(v, 8) <=> v >= 128
<1>1. v \in Int /\ 0 <= v /\ v <= 255
  BY InByteValues
<1>2. Bit(v, 7) = 1 <=> v >= 128
  BY <1>1 DEF Bit
<1> QED
  BY <1>2 DEF Bits

LEMMA TopBits ==
  ASSUME NEW u \in ByteValues, NEW v \in ByteValues
  PROVE  /\ And(u, v) >= 128 <=> u >= 128 /\ v >= 128
         /\ Xor(u, v) >= 128 <=> (u >= 128) # (v >= 128)
BY TopBit, OfBitsFacts DEF And, Xor

\* Only the top bit of 128 is set.
LEMMA Masked ==
  ASSUME NEW v \in ByteValues
  PROVE  And(v, 128) # 0 <=> v >= 128
<1>1. ASSUME NEW i \in 0 .. 7, i # 7
      PROVE  Bit(128, i) = 0
  <2>1. i \in {0, 1, 2, 3, 4, 5, 6}
    BY <1>1
  <2>2. Bit(128, 0) = 0 /\ Bit(128, 1) = 0 /\ Bit(128, 2) = 0 /\ Bit(128, 3) = 0
    BY DEF Bit
  <2>3. Bit(128, 4) = 0 /\ Bit(128, 5) = 0 /\ Bit(128, 6) = 0
    BY DEF Bit
  <2> QED
    BY <2>1, <2>2, <2>3
<1>2. \A i \in {0, 1, 2, 3, 4, 5, 6} : i \notin Bits(128, 8)
  BY <1>1 DEF Bits
<1> DEFINE S == Bits(v, 8) \cap Bits(128, 8)
<1>3. /\ Weight(S, 0) = 0 /\ Weight(S, 1) = 0 /\ Weight(S, 2) = 0 /\ Weight(S, 3) = 0
      /\ Weight(S, 4) = 0 /\ Weight(S, 5) = 0 /\ Weight(S, 6) = 0
  BY <1>2 DEF Weight
<1>4. 7 \in Bits(128, 8)
  BY TopBit, InByteValues
<1>5. Weight(S, 7) = IF v >= 128 THEN 128 ELSE 0
  BY <1>4, TopBit DEF Weight
<1>6. And(v, 128) = OfBits(S, 8)
  BY DEF And
<1> HIDE DEF S
<1> QED
  BY <1>3, <1>5, <1>6, OfBitsIs

\* Overflow, as the code finds it: both operands have the sign that the result
\* has not.
LEMMA OverflowsIs ==
  ASSUME NEW a \in ByteValues, NEW v \in ByteValues, NEW r \in ByteValues
  PROVE  Overflows(a, v, r) <=> (a >= 128) # (r >= 128) /\ (v >= 128) # (r >= 128)
<1>1. Xor(a, r) \in ByteValues /\ Xor(v, r) \in ByteValues /\ And(Xor(a, r), Xor(v, r)) \in ByteValues
  BY BitwiseFacts
<1>2. Overflows(a, v, r) <=> Xor(a, r) >= 128 /\ Xor(v, r) >= 128
  BY <1>1, Masked, TopBits DEF Overflows
<1> QED
  BY <1>2, TopBits

------------------------------------------------------------------------------
(* What instructions do to the registers.                                  *)

\* r is q with other registers and flags.
OnRegisters(q, r) ==
  r \in Machine /\ r.log = q.log /\ r.mem = q.mem /\ r.data = q.data /\ r.ea = q.ea /\ r.crossed = q.crossed

LEMMA OnRegistersRan ==
  ASSUME NEW q, NEW r, NEW n \in Nat, Ran(q, n), OnRegisters(q, r)
  PROVE  Ran(r, n)
BY DEF Ran, OnRegisters

LEMMA OnRegistersTransitive ==
  ASSUME NEW q, NEW r, NEW t, OnRegisters(q, r), OnRegisters(r, t)
  PROVE  OnRegisters(q, t)
BY DEF OnRegisters

LEMMA WithFacts ==
  ASSUME NEW p \in SUBSET Flags, NEW f \in Flags, NEW on
  PROVE  With(p, f, on) \in SUBSET Flags
BY DEF With

LEMMA FlagFacts ==
  ASSUME NEW p \in SUBSET Flags, NEW v, NEW on
  PROVE  /\ NZ(p, v) \in SUBSET Flags
         /\ With(p, "C", on) \in SUBSET Flags /\ With(p, "V", on) \in SUBSET Flags
         /\ With(p, "N", on) \in SUBSET Flags /\ With(p, "Z", on) \in SUBSET Flags
<1>1. {"N", "Z", "C", "V"} \subseteq Flags
  BY DEF Flags
<1> QED
  BY <1>1, WithFacts DEF NZ

LEMMA SetA ==
  ASSUME NEW q \in Machine, NEW a \in ByteValues, NEW p \in SUBSET Flags
  PROVE  OnRegisters(q, [q EXCEPT !.a = a, !.p = p])
BY DEF OnRegisters, Machine

LEMMA SetX ==
  ASSUME NEW q \in Machine, NEW x \in ByteValues, NEW p \in SUBSET Flags
  PROVE  OnRegisters(q, [q EXCEPT !.x = x, !.p = p])
BY DEF OnRegisters, Machine

LEMMA SetY ==
  ASSUME NEW q \in Machine, NEW y \in ByteValues, NEW p \in SUBSET Flags
  PROVE  OnRegisters(q, [q EXCEPT !.y = y, !.p = p])
BY DEF OnRegisters, Machine

LEMMA SetP ==
  ASSUME NEW q \in Machine, NEW p \in SUBSET Flags
  PROVE  OnRegisters(q, [q EXCEPT !.p = p])
BY DEF OnRegisters, Machine

LEMMA LoadsAre ==
  ASSUME NEW q \in Machine, NEW v \in ByteValues
  PROVE  OnRegisters(q, LoadA(q, v)) /\ OnRegisters(q, LoadX(q, v))
<1>1. NZ(q.p, v) \in SUBSET Flags
  BY FlagFacts, MachineFields
<1> DEFINE p == NZ(q.p, v)
<1>2. LoadA(q, v) = [q EXCEPT !.a = v, !.p = p] /\ LoadX(q, v) = [q EXCEPT !.x = v, !.p = p]
  BY DEF LoadA, LoadX
<1> HIDE DEF p
<1>3. OnRegisters(q, [q EXCEPT !.a = v, !.p = p]) /\ OnRegisters(q, [q EXCEPT !.x = v, !.p = p])
  BY <1>1, SetA, SetX DEF p
<1> QED
  BY <1>2, <1>3

LEMMA AdcIs ==
  ASSUME NEW q \in Machine, NEW v \in ByteValues
  PROVE  OnRegisters(q, Adc(q, v)) /\ OnRegisters(q, BinaryAdc(q, v))
<1>1. q.a \in Int /\ v \in Int /\ C(q) \in Int
  BY MachineFields, InByteValues DEF C, Flag
<1>2. OnRegisters(q, BinaryAdc(q, v))
  <2> DEFINE r == Byte(q.a + v + C(q))
             c == q.a + v + C(q) > 255
             o == Overflows(q.a, v, r)
             p == NZ(With(With(q.p, "C", c), "V", o), r)
  <2>1. r \in ByteValues
    BY <1>1, ByteFacts
  <2>2. p \in SUBSET Flags
    <3>1. q.p \in SUBSET Flags
      BY MachineFields
    <3> HIDE DEF r, c, o
    <3> QED
      BY <3>1, FlagFacts
  <2>3. BinaryAdc(q, v) = [q EXCEPT !.a = r, !.p = p]
    BY DEF BinaryAdc
  <2> HIDE DEF r, p
  <2>4. OnRegisters(q, [q EXCEPT !.a = r, !.p = p])
    BY <2>1, <2>2, SetA
  <2> QED
    BY <2>3, <2>4, Zenon
<1>3. OnRegisters(q, DecimalAdc(q, v))
  <2> DEFINE low == (q.a % 16) + (v % 16) + C(q)
             digit == IF low > 9 THEN ((low + 6) % 16) + 16 ELSE low
             high == 16 * (q.a \div 16) + 16 * (v \div 16) + digit
             middle == Byte(high)
             result == IF high >= 160 THEN high + 96 ELSE high
             z == Byte(q.a + v + C(q)) = 0
             n == middle >= 128
             o == Overflows(q.a, v, middle)
             c == result >= 256
             p == With(With(With(With(q.p, "Z", z), "N", n), "V", o), "C", c)
  <2>1. low \in Int
    BY <1>1
  <2> HIDE DEF low
  <2>2. digit \in Int
    BY <2>1
  <2> HIDE DEF digit
  <2>3. high \in Int
    BY <1>1, <2>2
  <2> HIDE DEF high
  <2>4. result \in Int
    BY <2>3
  <2>5. Byte(result) \in ByteValues
    BY <2>4, ByteFacts
  <2>6. p \in SUBSET Flags
    <3>1. q.p \in SUBSET Flags
      BY MachineFields
    <3> HIDE DEF z, n, o, c
    <3> QED
      BY <3>1, FlagFacts
  <2>7. DecimalAdc(q, v) = [q EXCEPT !.a = Byte(result), !.p = p]
    BY DEF DecimalAdc, high, digit, low
  <2> HIDE DEF result, p
  <2>8. OnRegisters(q, [q EXCEPT !.a = Byte(result), !.p = p])
    BY <2>5, <2>6, SetA
  <2> QED
    BY <2>7, <2>8, Zenon
<1> QED
  BY <1>2, <1>3 DEF Adc

LEMMA SbcIs ==
  ASSUME NEW q \in Machine, NEW v \in ByteValues
  PROVE  OnRegisters(q, Sbc(q, v))
<1>1. q.a \in Int /\ v \in Int /\ C(q) \in Int /\ 255 - v \in ByteValues
  BY MachineFields, InByteValues DEF C, Flag
<1>2. OnRegisters(q, DecimalSbc(q, v))
  <2> DEFINE bin == Byte(q.a + (255 - v) + C(q))
             al == (q.a % 16) - (v % 16) - (1 - C(q))
             ah == (q.a \div 16) - (v \div 16) - Flag(al < 0)
             low == (IF al < 0 THEN al - 6 ELSE al) % 16
             high == (IF ah < 0 THEN ah - 6 ELSE ah) % 16
             o == Overflows(q.a, 255 - v, bin)
             c == ah >= 0
             p == With(With(NZ(q.p, bin), "V", o), "C", c)
  <2>1. al \in Int
    BY <1>1
  <2> HIDE DEF al
  <2>2. ah \in Int
    BY <1>1, <2>1 DEF Flag
  <2> HIDE DEF ah
  <2>3. low \in 0 .. 15 /\ high \in 0 .. 15
    BY <2>1, <2>2
  <2>4. 16 * high + low \in ByteValues
    <3> HIDE DEF low, high
    <3> QED
      BY <2>3, InByteValues
  <2>5. p \in SUBSET Flags
    <3>1. q.p \in SUBSET Flags
      BY MachineFields
    <3> HIDE DEF bin, o, c
    <3> QED
      BY <3>1, FlagFacts
  <2>6. DecimalSbc(q, v) = [q EXCEPT !.a = 16 * high + low, !.p = p]
    BY DEF DecimalSbc, al, ah
  <2> DEFINE r == 16 * high + low
  <2> HIDE DEF low, high, p
  <2>7. r \in ByteValues /\ DecimalSbc(q, v) = [q EXCEPT !.a = r, !.p = p]
    BY <2>4, <2>6
  <2> HIDE DEF r
  <2>8. OnRegisters(q, [q EXCEPT !.a = r, !.p = p])
    BY <2>5, <2>7, SetA
  <2> QED
    BY <2>7, <2>8, Zenon
<1>3. OnRegisters(q, BinaryAdc(q, 255 - v))
  BY <1>1, AdcIs
<1> QED
  BY <1>2, <1>3 DEF Sbc

LEMMA CompareIs ==
  ASSUME NEW q \in Machine, NEW r \in ByteValues, NEW v \in ByteValues
  PROVE  OnRegisters(q, Compare(q, r, v))
<1>1. NZ(With(q.p, "C", r >= v), Byte(r + 256 - v)) \in SUBSET Flags
  BY FlagFacts, MachineFields
<1>2. Compare(q, r, v) = [q EXCEPT !.p = NZ(With(q.p, "C", r >= v), Byte(r + 256 - v))]
  BY DEF Compare
<1> QED
  BY <1>1, <1>2, SetP

LEMMA ArrIs ==
  ASSUME NEW q \in Machine, NEW v \in ByteValues
  PROVE  OnRegisters(q, Arr(q, v))
<1> DEFINE t == And(q.a, v)
           ror == t \div 2 + 128 * C(q)
           low == IF (t % 16) + (t % 2) > 5 THEN 16 * (ror \div 16) + ((ror + 6) % 16) ELSE ror
           carry == Byte(16 * (t \div 16) + 16 * Bit(t, 4)) > 80
           p == With(NZ(q.p, ror), "V", Bit(ror, 6) # Bit(ror, 5))
<1>1. t \in ByteValues
  BY BitwiseFacts
<1> HIDE DEF t
<1>2. ror \in ByteValues
  BY <1>1, InByteValues DEF C, Flag
<1> HIDE DEF ror
<1>3. low \in Int
  BY <1>2, InByteValues
<1> HIDE DEF low
<1>4. low + (IF carry THEN 96 ELSE 0) \in Int
  BY <1>3
<1>5. Byte(low + (IF carry THEN 96 ELSE 0)) \in ByteValues
  BY <1>4, ByteFacts
<1>6. p \in SUBSET Flags
  BY FlagFacts, MachineFields
<1> HIDE DEF p, carry
<1> DEFINE fixed == Byte(low + (IF carry THEN 96 ELSE 0))
           c == Bit(ror, 6) = 1
<1>7. Arr(q, v) = IF "D" \in q.p THEN [q EXCEPT !.a = fixed, !.p = With(p, "C", carry)]
                  ELSE [q EXCEPT !.a = ror, !.p = With(p, "C", c)]
  BY DEF Arr, t, ror, low, carry, p
<1> HIDE DEF fixed, c
<1>8. With(p, "C", carry) \in SUBSET Flags /\ With(p, "C", c) \in SUBSET Flags
  BY <1>6, FlagFacts
<1>9. fixed \in ByteValues
  BY <1>5 DEF fixed
<1>10. OnRegisters(q, [q EXCEPT !.a = fixed, !.p = With(p, "C", carry)])
  BY <1>8, <1>9, SetA
<1>11. OnRegisters(q, [q EXCEPT !.a = ror, !.p = With(p, "C", c)])
  BY <1>2, <1>8, SetA
<1> QED
  BY <1>7, <1>10, <1>11

ReadOps == {"LDA", "LDX", "LDY", "AND", "ORA", "EOR", "BIT", "ADC", "SBC", "CMP", "CPX", "CPY", "NOP", "LAX",
            "LXA", "XAA", "LAS", "ANC", "ALR", "ARR", "AXS"}

LEMMA ConsumeIs ==
  ASSUME NEW q \in Machine, NEW v \in ByteValues, NEW op \in ReadOps
  PROVE  OnRegisters(q, Consume(op, q, v))
<1>1. /\ q.a \in ByteValues /\ q.x \in ByteValues /\ q.y \in ByteValues /\ q.s \in ByteValues
      /\ q.p \in SUBSET Flags
  BY MachineFields
<1>2. CASE op \in {"LDA", "LDX"}
  <2>1. Consume(op, q, v) = LoadA(q, v) \/ Consume(op, q, v) = LoadX(q, v)
    BY <1>2 DEF Consume
  <2> QED
    BY <2>1, LoadsAre
<1>3. CASE op = "LDY"
  <2> DEFINE p == NZ(q.p, v)
  <2>1. p \in SUBSET Flags
    BY <1>1, FlagFacts
  <2>2. Consume(op, q, v) = [q EXCEPT !.y = v, !.p = p]
    BY <1>3 DEF Consume
  <2> HIDE DEF p
  <2>3. OnRegisters(q, [q EXCEPT !.y = v, !.p = p])
    BY <2>1, SetY
  <2> QED
    BY <2>2, <2>3, Zenon
<1>4. CASE op \in {"AND", "ORA", "EOR", "XAA"}
  <2>1. /\ And(q.a, v) \in ByteValues /\ Or(q.a, v) \in ByteValues /\ Xor(q.a, v) \in ByteValues
        /\ And(And(Or(q.a, 238), q.x), v) \in ByteValues
    BY BitwiseFacts
  <2>2. PICK r \in ByteValues : Consume(op, q, v) = LoadA(q, r)
    <3> DEFINE x == And(And(Or(q.a, 238), q.x), v)
    <3>1. /\ op = "AND" => Consume(op, q, v) = LoadA(q, And(q.a, v))
          /\ op = "ORA" => Consume(op, q, v) = LoadA(q, Or(q.a, v))
          /\ op = "EOR" => Consume(op, q, v) = LoadA(q, Xor(q.a, v))
      BY DEF Consume
    <3>2. op = "XAA" => Consume(op, q, v) = LoadA(q, x)
      BY DEF Consume
    <3>3. x \in ByteValues
      BY <2>1
    <3> HIDE DEF x
    <3> QED
      BY <1>4, <2>1, <3>1, <3>2, <3>3, Zenon
  <2> QED
    BY <2>2, LoadsAre
<1>5. CASE op = "BIT"
  <2> DEFINE z == And(q.a, v) = 0
             n == v >= 128
             o == Bit(v, 6) = 1
             p == With(With(With(q.p, "Z", z), "N", n), "V", o)
  <2>1. Consume(op, q, v) = [q EXCEPT !.p = p]
    BY <1>5 DEF Consume
  <2> HIDE DEF z, n, o
  <2>2. p \in SUBSET Flags
    BY <1>1, FlagFacts
  <2> HIDE DEF p
  <2>3. OnRegisters(q, [q EXCEPT !.p = p])
    BY <2>2, SetP
  <2> QED
    BY <2>1, <2>3, Zenon
<1>6. CASE op \in {"ADC", "SBC"}
  <2>1. Consume(op, q, v) = Adc(q, v) \/ Consume(op, q, v) = Sbc(q, v)
    BY <1>6 DEF Consume
  <2> QED
    BY <2>1, AdcIs, SbcIs
<1>7. CASE op \in {"CMP", "CPX", "CPY"}
  <2>1. PICK r \in ByteValues : Consume(op, q, v) = Compare(q, r, v)
    BY <1>1, <1>7 DEF Consume
  <2> QED
    BY <2>1, CompareIs
<1>8. CASE op = "NOP"
  <2>1. Consume(op, q, v) = q
    BY <1>8 DEF Consume
  <2> QED
    BY <2>1 DEF OnRegisters
<1>9. CASE op \in {"LAX", "LXA", "LAS"}
  <2>1. And(Or(q.a, 238), v) \in ByteValues /\ And(q.s, v) \in ByteValues
    BY BitwiseFacts
  <2>2. PICK r \in ByteValues : \/ Consume(op, q, v) = LoadX(LoadA(q, r), r)
                              \/ Consume(op, q, v) = [LoadX(LoadA(q, r), r) EXCEPT !.s = r]
    <3> DEFINE x == And(Or(q.a, 238), v)
               l == And(q.s, v)
    <3>1. op = "LAX" => Consume(op, q, v) = LoadX(LoadA(q, v), v)
      BY DEF Consume
    <3>2. op = "LXA" => Consume(op, q, v) = LoadX(LoadA(q, x), x)
      BY DEF Consume
    <3>3. op = "LAS" => Consume(op, q, v) = [LoadX(LoadA(q, l), l) EXCEPT !.s = l]
      BY DEF Consume
    <3>4. x \in ByteValues /\ l \in ByteValues
      BY <2>1
    <3> HIDE DEF x, l
    <3> QED
      BY <1>9, <3>1, <3>2, <3>3, <3>4, Zenon
  <2> DEFINE both == LoadX(LoadA(q, r), r)
  <2>3. OnRegisters(q, LoadA(q, r)) /\ LoadA(q, r) \in Machine
    BY LoadsAre DEF OnRegisters
  <2>4. OnRegisters(q, both)
    BY <2>3, LoadsAre, OnRegistersTransitive
  <2> HIDE DEF both
  <2>5. OnRegisters(q, [both EXCEPT !.s = r])
    BY <2>4 DEF OnRegisters, Machine
  <2> QED
    BY <2>2, <2>4, <2>5 DEF both
<1>10. CASE op \in {"ANC", "ALR"}
  <2> DEFINE r == And(q.a, v)
             load == LoadA(q, IF op = "ANC" THEN r ELSE r \div 2)
             c == IF op = "ANC" THEN r >= 128 ELSE r % 2 = 1
  <2>1. r \in ByteValues /\ r \div 2 \in ByteValues
    BY BitwiseFacts, InByteValues
  <2>2. Consume(op, q, v) = [load EXCEPT !.p = With(load.p, "C", c)]
    BY <1>10 DEF Consume
  <2> HIDE DEF r
  <2>3. OnRegisters(q, load) /\ load \in Machine
    BY <2>1, LoadsAre DEF OnRegisters
  <2> HIDE DEF load, c
  <2>4. With(load.p, "C", c) \in SUBSET Flags
    BY <2>3, FlagFacts, MachineFields
  <2>5. OnRegisters(load, [load EXCEPT !.p = With(load.p, "C", c)])
    BY <2>3, <2>4, SetP
  <2> QED
    BY <2>2, <2>3, <2>5, OnRegistersTransitive
<1>11. CASE op = "ARR"
  <2>1. Consume(op, q, v) = Arr(q, v)
    BY <1>11 DEF Consume
  <2> QED
    BY <2>1, ArrIs
<1>12. CASE op = "AXS"
  <2> DEFINE ax == And(q.a, q.x)
             left == Byte(ax + 256 - v)
             cmp == Compare(q, ax, v)
  <2>1. Consume(op, q, v) = [cmp EXCEPT !.x = left]
    BY <1>12 DEF Consume
  <2>2. ax \in ByteValues
    BY BitwiseFacts
  <2> HIDE DEF ax
  <2>3. ax + 256 - v \in Int
    BY <2>2, InByteValues
  <2>4. left \in ByteValues
    BY <2>3, ByteFacts
  <2>5. OnRegisters(q, cmp)
    BY <2>2, CompareIs
  <2> HIDE DEF left, cmp
  <2> QED
    BY <2>1, <2>4, <2>5 DEF OnRegisters, Machine
<1> QED
  BY <1>2, <1>3, <1>4, <1>5, <1>6, <1>7, <1>8, <1>9, <1>10, <1>11, <1>12 DEF ReadOps

LEMMA CombinedIs ==
  ASSUME NEW q \in Machine, NEW r \in ByteValues, NEW op
  PROVE  OnRegisters(q, Combined(op, q, r))
<1>1. Or(q.a, r) \in ByteValues /\ And(q.a, r) \in ByteValues /\ Xor(q.a, r) \in ByteValues
  BY BitwiseFacts
<1>2. q.a \in ByteValues
  BY MachineFields
<1>3. \/ \E v \in ByteValues : Combined(op, q, r) = LoadA(q, v)
      \/ Combined(op, q, r) \in {Adc(q, r), Compare(q, q.a, r), Sbc(q, r), q}
  BY <1>1 DEF Combined
<1>4. OnRegisters(q, q)
  BY DEF OnRegisters
<1> QED
  BY <1>2, <1>3, <1>4, LoadsAre, AdcIs, SbcIs, CompareIs

ModifyOps == {"ASL", "SLO", "ROL", "RLA", "LSR", "SRE", "ROR", "RRA", "INC", "ISC", "DEC", "DCP"}

LEMMA ShiftIs ==
  ASSUME NEW q \in Machine, NEW v \in ByteValues, NEW op \in ModifyOps
  PROVE  Shift(q, v, op).byte \in ByteValues /\ Shift(q, v, op).p \in SUBSET Flags
<1> DEFINE r == CASE op \in {"ASL", "SLO"} -> Byte(2 * v)
                  [] op \in {"ROL", "RLA"} -> Byte(2 * v) + C(q)
                  [] op \in {"LSR", "SRE"} -> v \div 2
                  [] op \in {"ROR", "RRA"} -> v \div 2 + 128 * C(q)
                  [] op \in {"INC", "ISC"} -> Inc(v)
                  [] op \in {"DEC", "DCP"} -> Dec(v)
           high == v >= 128
           odd == v % 2 = 1
           p == CASE op \in {"ASL", "SLO", "ROL", "RLA"} -> With(q.p, "C", high)
                  [] op \in {"LSR", "SRE", "ROR", "RRA"} -> With(q.p, "C", odd)
                  [] OTHER -> q.p
<1>1. q.p \in SUBSET Flags /\ v \in Int /\ 0 <= v /\ v <= 255 /\ C(q) \in {0, 1}
  BY MachineFields, InByteValues DEF C, Flag
<1>2. Byte(2 * v) \in ByteValues /\ Byte(2 * v) + C(q) \in ByteValues
  <2>1. (2 * v) % 256 \in Int /\ 0 <= (2 * v) % 256 /\ (2 * v) % 256 <= 254
    BY <1>1
  <2> QED
    BY <1>1, <2>1, InByteValues DEF Byte
<1>3. v \div 2 \in ByteValues /\ v \div 2 + 128 * C(q) \in ByteValues
  <2>1. v \div 2 \in Int /\ 0 <= v \div 2 /\ v \div 2 <= 127
    BY <1>1
  <2> QED
    BY <1>1, <2>1, InByteValues
<1>4. Inc(v) \in ByteValues /\ Dec(v) \in ByteValues
  BY <1>1, ByteFacts
<1>5. r \in ByteValues
  BY <1>2, <1>3, <1>4 DEF ModifyOps
<1>6. Shift(q, v, op) = [byte |-> r, p |-> IF op \in {"ISC", "DCP"} THEN p ELSE NZ(p, r)]
  BY DEF Shift
<1> HIDE DEF high, odd
<1>7. p \in SUBSET Flags
  BY <1>1, FlagFacts
<1> HIDE DEF r, p
<1>8. NZ(p, r) \in SUBSET Flags
  BY <1>7, FlagFacts
<1> QED
  BY <1>5, <1>6, <1>7, <1>8

------------------------------------------------------------------------------
(* The instructions: each takes the cycles that it claims.                 *)

Exact(q) == Ran(q, q.claimed)

LEMMA Claims ==
  ASSUME NEW q, NEW n \in Nat, Ran(q, n)
  PROVE  Exact([q EXCEPT !.claimed = n])
BY DEF Exact, Ran, Machine

LEMMA ClaimIs ==
  ASSUME NEW q, NEW mode \in Modes, NEW accesses \in Nat, NEW always \in BOOLEAN,
         Ran(q, 1 + OperandCycles(mode) + accesses + Flag(mode \in IndexedByReads /\ (q.crossed \/ always)))
  PROVE  Exact(Claim(q, mode, accesses, always))
<1> DEFINE n == 1 + OperandCycles(mode) + accesses + Flag(mode \in IndexedByReads /\ (q.crossed \/ always))
<1>1. n \in Nat
  BY DEF OperandCycles, Modes, IndexedByReads, Flag
<1>2. Claim(q, mode, accesses, always) = [q EXCEPT !.claimed = n]
  BY DEF Claim, IndexedByReads
<1> HIDE DEF n
<1> QED
  BY <1>1, <1>2, Claims DEF n

\* The operand of an instruction that reads.
Got(q, mode) ==
  LET at == Operand(q, mode, FALSE) IN IF mode = "imm" THEN at ELSE Read(at, at.ea)

LEMMA CyclesNat ==
  ASSUME NEW mode \in Modes, NEW crossed \in BOOLEAN, NEW always \in BOOLEAN
  PROVE  Cycles(mode, crossed, always) \in Nat
BY DEF Cycles, OperandCycles, Modes, IndexedByReads, Flag

LEMMA GotIs ==
  ASSUME NEW q, Ran(q, 1), NEW mode \in Modes
  PROVE  /\ Same(q, Got(q, mode))
         /\ Ran(Got(q, mode), 1 + OperandCycles(mode) + 1
                                + Flag(mode \in IndexedByReads /\ (Got(q, mode).crossed \/ FALSE)))
<1> DEFINE at == Operand(q, mode, FALSE)
           got == Got(q, mode)
           k == Cycles(mode, at.crossed, FALSE)
<1>1. Ran(at, 1 + k) /\ Same(q, at)
  BY OperandIs
<1>2. at \in Machine /\ at.ea \in Addresses /\ at.crossed \in BOOLEAN
  BY <1>1, MachineFields DEF Ran
<1>3. k \in Nat
  BY <1>2, CyclesNat
<1>4. CASE mode = "imm"
  <2>1. got = at /\ k = 1
    BY <1>4 DEF Got, Cycles
  <2>2. 1 + OperandCycles(mode) + 1 + Flag(mode \in IndexedByReads /\ (got.crossed \/ FALSE)) = 1 + k
    <3> DEFINE f == Flag(mode \in IndexedByReads /\ (got.crossed \/ FALSE))
               c == OperandCycles(mode)
    <3>1. c = 0 /\ f = 0
      BY <1>4 DEF OperandCycles, IndexedByReads, Flag
    <3> HIDE DEF c, f, k
    <3>2. 1 + c + 1 + f = 1 + k
      BY <2>1, <3>1
    <3> QED
      BY <3>2 DEF c, f
  <2> QED
    BY <1>1, <2>1, <2>2
<1>5. CASE mode # "imm"
  <2>1. got = Read(at, at.ea)
    BY <1>5 DEF Got
  <2> HIDE DEF at, got, k
  <2>2. Ran(got, 1 + k + 1) /\ Kept(at, got) /\ got.s = at.s /\ got.mem = at.mem
    BY <1>1, <1>2, <1>3, <2>1, ReadIs
  <2>3. Same(q, got) /\ got.crossed = at.crossed
    BY <1>1, <2>2 DEF Kept, Same
  <2>4. k = OperandCycles(mode) + Flag(mode \in IndexedByReads /\ (got.crossed \/ FALSE))
    BY <1>5, <2>3 DEF k, Cycles
  <2>5. OperandCycles(mode) \in Nat /\ Flag(mode \in IndexedByReads /\ (got.crossed \/ FALSE)) \in Nat
    BY <1>5 DEF OperandCycles, Modes, IndexedByReads, Flag
  <2>6. 1 + OperandCycles(mode) + 1 + Flag(mode \in IndexedByReads /\ (got.crossed \/ FALSE)) = 1 + k + 1
    BY <2>4, <2>5
  <2> QED
    BY <2>2, <2>3, <2>6 DEF got
<1> QED
  BY <1>4, <1>5

LEMMA ReadInstructionIs ==
  ASSUME NEW q, Ran(q, 1), NEW op \in ReadOps, NEW mode \in Modes
  PROVE  Exact(ReadInstruction(q, op, mode))
<1> DEFINE got == Got(q, mode)
           res == Consume(op, got, got.data)
           n == 1 + OperandCycles(mode) + 1 + Flag(mode \in IndexedByReads /\ (got.crossed \/ FALSE))
<1>1. Ran(got, n)
  BY GotIs
<1>2. got \in Machine /\ got.data \in ByteValues
  BY <1>1, MachineFields DEF Ran
<1>3. n \in Nat
  BY DEF OperandCycles, Modes, IndexedByReads, Flag
<1>4. ReadInstruction(q, op, mode) = Claim(res, mode, 1, FALSE)
  BY DEF ReadInstruction, Got
<1> HIDE DEF got
<1>5. OnRegisters(got, res)
  BY <1>2, ConsumeIs
<1> HIDE DEF res, n
<1>6. Ran(res, n) /\ res.crossed = got.crossed
  BY <1>1, <1>3, <1>5, OnRegistersRan DEF OnRegisters
<1>7. Ran(res, 1 + OperandCycles(mode) + 1 + Flag(mode \in IndexedByReads /\ (res.crossed \/ FALSE)))
  BY <1>6 DEF n
<1> QED
  BY <1>4, <1>7, ClaimIs

MemoryModes == Modes \ {"imm"}

\* The cycles of an operand in memory that an instruction writes.
LEMMA PlaceIs ==
  ASSUME NEW q, Ran(q, 1), NEW mode \in MemoryModes
  PROVE  LET at == Operand(q, mode, TRUE)
         IN  /\ Ran(at, 1 + OperandCycles(mode) + Flag(mode \in IndexedByReads /\ (at.crossed \/ TRUE)))
             /\ Same(q, at) /\ at \in Machine /\ at.ea \in Addresses
             /\ OperandCycles(mode) \in Nat
             /\ Flag(mode \in IndexedByReads /\ (at.crossed \/ TRUE)) \in Nat
<1> DEFINE at == Operand(q, mode, TRUE)
<1>1. mode \in Modes /\ mode # "imm"
  BY DEF MemoryModes
<1>2. Ran(at, 1 + Cycles(mode, at.crossed, TRUE)) /\ Same(q, at)
  BY <1>1, OperandIs
<1>3. at \in Machine /\ at.ea \in Addresses
  BY <1>2, MachineFields DEF Ran
<1>4. OperandCycles(mode) \in Nat /\ Flag(mode \in IndexedByReads /\ (at.crossed \/ TRUE)) \in Nat
  BY <1>1 DEF OperandCycles, Modes, IndexedByReads, Flag
<1>5. Cycles(mode, at.crossed, TRUE) = OperandCycles(mode) + Flag(mode \in IndexedByReads /\ (at.crossed \/ TRUE))
  BY <1>1 DEF Cycles
<1> HIDE DEF at
<1>6. 1 + Cycles(mode, at.crossed, TRUE)
        = 1 + OperandCycles(mode) + Flag(mode \in IndexedByReads /\ (at.crossed \/ TRUE))
  <2> DEFINE f == Flag(mode \in IndexedByReads /\ (at.crossed \/ TRUE))
             c == OperandCycles(mode)
             k == Cycles(mode, at.crossed, TRUE)
  <2>1. f \in Nat /\ c \in Nat /\ k = c + f
    BY <1>4, <1>5
  <2> HIDE DEF f, c, k
  <2>2. 1 + k = 1 + c + f
    BY <2>1
  <2> QED
    BY <2>2 DEF f, c, k
<1> QED
  BY <1>2, <1>3, <1>4, <1>6 DEF at

\* One write to it, and the claim.
LEMMA WrittenIs ==
  ASSUME NEW q, Ran(q, 1), NEW mode \in MemoryModes, NEW addr \in Addresses, NEW v \in ByteValues
  PROVE  Exact(Claim(Write(Operand(q, mode, TRUE), addr, v), mode, 1, TRUE))
<1> DEFINE at == Operand(q, mode, TRUE)
           c == OperandCycles(mode)
           f == Flag(mode \in IndexedByReads /\ (at.crossed \/ TRUE))
           w == Write(at, addr, v)
<1>1. Ran(at, 1 + c + f) /\ c \in Nat /\ f \in Nat
  BY PlaceIs
<1> HIDE DEF at
<1>2. 1 + c + f \in Nat /\ 1 + c + f + 1 = 1 + c + 1 + f
  BY <1>1
<1>3. Ran(w, 1 + c + f + 1) /\ w.crossed = at.crossed
  BY <1>1, <1>2, WriteIs DEF Kept
<1> HIDE DEF w
<1>4. Ran(w, 1 + c + 1 + Flag(mode \in IndexedByReads /\ (w.crossed \/ TRUE)))
  BY <1>2, <1>3
<1>5. Exact(Claim(w, mode, 1, TRUE))
  BY <1>4, ClaimIs DEF MemoryModes
<1> QED
  BY <1>5 DEF w, at

StoreOps == {"STA", "STX", "STY", "SAX"}

LEMMA StoreInstructionIs ==
  ASSUME NEW q, Ran(q, 1), NEW op \in StoreOps, NEW mode \in MemoryModes
  PROVE  Exact(StoreInstruction(q, op, mode))
<1> DEFINE at == Operand(q, mode, TRUE)
           v == CASE op = "STA" -> q.a [] op = "STX" -> q.x [] op = "STY" -> q.y [] op = "SAX" -> And(q.a, q.x)
<1>1. at.ea \in Addresses
  BY PlaceIs
<1>2. v \in ByteValues
  BY MachineFields, BitwiseFacts DEF StoreOps, Ran
<1>3. StoreInstruction(q, op, mode) = Claim(Write(at, at.ea, v), mode, 1, TRUE)
  BY DEF StoreInstruction
<1> HIDE DEF v
<1> QED
  BY <1>1, <1>2, <1>3, WrittenIs

UnstableOps == {"SHA", "TAS", "SHX", "SHY"}

LEMMA UnstableInstructionIs ==
  ASSUME NEW q, Ran(q, 1), NEW op \in UnstableOps, NEW mode \in MemoryModes
  PROVE  Exact(UnstableInstruction(q, op, mode))
<1> DEFINE ax == And(q.a, q.x)
           r == CASE op \in {"SHA", "TAS"} -> ax [] op = "SHX" -> q.x [] op = "SHY" -> q.y
           s == IF op = "TAS" THEN ax ELSE q.s
           from == [q EXCEPT !.s = s]
           at == Operand(from, mode, TRUE)
           dummy == at.log[Len(at.log)][2]
           stored == And(r, Inc(Hi(dummy)))
           addr == IF at.crossed THEN Addr(Lo(at.ea), stored) ELSE at.ea
<1>1. q \in Machine /\ q.s \in ByteValues
  BY MachineFields DEF Ran
<1>2. ax \in ByteValues /\ stored \in ByteValues
  BY BitwiseFacts
<1>3. UnstableInstruction(q, op, mode) = Claim(Write(at, addr, stored), mode, 1, TRUE)
  BY DEF UnstableInstruction
<1>4. s \in ByteValues
  BY <1>1, <1>2
<1> HIDE DEF ax, r, s, stored
<1>5. Ran(from, 1)
  BY <1>1, <1>4 DEF Ran, Machine
<1> HIDE DEF from
<1>6. at.ea \in Addresses
  BY <1>5, PlaceIs
<1> HIDE DEF at
<1>7. Lo(at.ea) \in ByteValues
  BY <1>6, NumbersFacts, ByteFacts
<1>8. addr \in Addresses
  BY <1>2, <1>6, <1>7, AddrFacts
<1> HIDE DEF addr
<1> QED
  BY <1>2, <1>3, <1>5, <1>8, WrittenIs DEF at

\* The cell is read, and written twice.
LEMMA ModifyInstructionIs ==
  ASSUME NEW q, Ran(q, 1), NEW op \in ModifyOps, NEW mode \in MemoryModes
  PROVE  Exact(ModifyInstruction(q, op, mode))
<1> DEFINE at == Operand(q, mode, TRUE)
           c == OperandCycles(mode)
           f == Flag(mode \in IndexedByReads /\ (at.crossed \/ TRUE))
           got == Read(at, at.ea)
           r == Shift(got, got.data, op)
           w1 == Write(got, got.ea, got.data)
           w2 == Write(w1, got.ea, r.byte)
           set == [w2 EXCEPT !.p = r.p]
           res == Combined(op, set, r.byte)
<1>1. Ran(at, 1 + c + f) /\ c \in Nat /\ f \in Nat /\ at.ea \in Addresses
  BY PlaceIs
<1>2. ModifyInstruction(q, op, mode) = Claim(res, mode, 3, TRUE)
  BY DEF ModifyInstruction
<1> HIDE DEF at
<1>3. /\ 1 + c + f \in Nat /\ 1 + c + f + 1 \in Nat /\ 1 + c + f + 1 + 1 \in Nat /\ 1 + c + f + 1 + 1 + 1 \in Nat
      /\ 1 + c + f + 1 + 1 + 1 = 1 + c + 3 + f
  BY <1>1
<1>4. Ran(got, 1 + c + f + 1) /\ got.crossed = at.crossed
  BY <1>1, <1>3, ReadIs DEF Kept
<1> HIDE DEF got
<1>5. got \in Machine /\ got.ea \in Addresses /\ got.data \in ByteValues
  BY <1>4, MachineFields DEF Ran
<1>6. r.byte \in ByteValues /\ r.p \in SUBSET Flags
  BY <1>5, ShiftIs
<1> HIDE DEF r
<1>7. Ran(w1, 1 + c + f + 1 + 1) /\ w1.crossed = got.crossed
  BY <1>3, <1>4, <1>5, WriteIs DEF Kept
<1> HIDE DEF w1
<1>8. Ran(w2, 1 + c + f + 1 + 1 + 1) /\ w2.crossed = w1.crossed
  BY <1>3, <1>5, <1>6, <1>7, WriteIs DEF Kept
<1> HIDE DEF w2
<1>9. w2 \in Machine
  BY <1>8 DEF Ran
<1>10. OnRegisters(w2, set) /\ set \in Machine
  BY <1>6, <1>9, SetP DEF OnRegisters
<1> HIDE DEF set
<1>11. OnRegisters(w2, res)
  BY <1>6, <1>10, CombinedIs, OnRegistersTransitive
<1> HIDE DEF res
<1>12. Ran(res, 1 + c + f + 1 + 1 + 1) /\ res.crossed = at.crossed
  BY <1>3, <1>4, <1>7, <1>8, <1>11, OnRegistersRan DEF OnRegisters
<1>13. Ran(res, 1 + c + 3 + Flag(mode \in IndexedByReads /\ (res.crossed \/ TRUE)))
  BY <1>3, <1>12
<1> QED
  BY <1>2, <1>13, ClaimIs DEF MemoryModes

------------------------------------------------------------------------------
(* The instructions without an operand in memory, and jumps.  Where         *)
(* StackPairs needs it, also what they leave in the stack.                  *)

LEMMA ShiftInstructionIs ==
  ASSUME NEW q, Ran(q, 1), NEW op \in ModifyOps
  PROVE  Exact(ShiftInstruction(q, op))
<1> DEFINE d == Dummy(q)
           byte == Shift(q, q.a, op).byte
           p == Shift(q, q.a, op).p
<1>1. Ran(d, 2)
  BY DummyIs
<1>2. q \in Machine /\ q.a \in ByteValues
  BY MachineFields DEF Ran
<1>3. byte \in ByteValues /\ p \in SUBSET Flags
  BY <1>2, ShiftIs
<1>4. ShiftInstruction(q, op) = [d EXCEPT !.a = byte, !.p = p, !.claimed = 2]
  BY DEF ShiftInstruction
<1> HIDE DEF d, byte, p
<1> DEFINE u == [d EXCEPT !.a = byte, !.p = p]
<1>5. d \in Machine
  BY <1>1 DEF Ran
<1>6. OnRegisters(d, u)
  BY <1>3, <1>5, SetA
<1>7. ShiftInstruction(q, op) = [u EXCEPT !.claimed = 2]
  BY <1>4, <1>5 DEF Machine
<1> HIDE DEF u
<1> QED
  BY <1>1, <1>6, <1>7, OnRegistersRan, Claims

RegisterOps == {"TAX", "TSX", "TXA", "TYA", "TAY", "TXS", "INX", "DEX", "INY", "DEY",
                "CLC", "SEC", "CLI", "SEI", "CLD", "SED", "CLV", "NOP"}

LEMMA RegisterInstructionIs ==
  ASSUME NEW q, Ran(q, 1), NEW op \in RegisterOps
  PROVE  Exact(RegisterInstruction(q, op))
<1> DEFINE d == [Dummy(q) EXCEPT !.claimed = 2]
           res == RegisterInstruction(q, op)
<1>1. Ran(Dummy(q), 2)
  BY DummyIs
<1>2. Ran(d, 2) /\ d.claimed = 2 /\ d \in Machine
  BY <1>1 DEF Ran, Machine
<1>3. /\ q.a \in ByteValues /\ q.x \in ByteValues /\ q.y \in ByteValues /\ q.s \in ByteValues
  BY MachineFields DEF Ran
<1>4. /\ Inc(q.x) \in ByteValues /\ Dec(q.x) \in ByteValues /\ Inc(q.y) \in ByteValues /\ Dec(q.y) \in ByteValues
  BY <1>3, ByteFacts, InByteValues
<1>5. d.p \in SUBSET Flags
  BY <1>2, MachineFields
<1>6. \A v : NZ(d.p, v) \in SUBSET Flags
  BY <1>5, FlagFacts
<1>7. \A f \in Flags : With(d.p, f, TRUE) \in SUBSET Flags /\ With(d.p, f, FALSE) \in SUBSET Flags
  BY <1>5, WithFacts
<1>8. CASE op \in {"TAX", "TSX", "INX", "DEX"}
  <2>1. PICK v \in ByteValues : res = LoadX(d, v)
    BY <1>3, <1>4, <1>8 DEF RegisterInstruction
  <2> DEFINE p == NZ(d.p, v)
  <2>2. res = [d EXCEPT !.x = v, !.p = p]
    BY <2>1 DEF LoadX
  <2>3. p \in SUBSET Flags
    BY <1>6
  <2> HIDE DEF d, res, p
  <2> QED
    BY <1>2, <2>2, <2>3 DEF Exact, Ran, Machine, res
<1>9. CASE op \in {"TXA", "TYA"}
  <2>1. PICK v \in ByteValues : res = LoadA(d, v)
    BY <1>3, <1>9 DEF RegisterInstruction
  <2> DEFINE p == NZ(d.p, v)
  <2>2. res = [d EXCEPT !.a = v, !.p = p]
    BY <2>1 DEF LoadA
  <2>3. p \in SUBSET Flags
    BY <1>6
  <2> HIDE DEF d, res, p
  <2> QED
    BY <1>2, <2>2, <2>3 DEF Exact, Ran, Machine, res
<1>10. CASE op \in {"TAY", "INY", "DEY"}
  <2>1. PICK v \in ByteValues : res = [d EXCEPT !.y = v, !.p = NZ(d.p, v)]
    BY <1>3, <1>4, <1>10 DEF RegisterInstruction
  <2> DEFINE p == NZ(d.p, v)
  <2>2. res = [d EXCEPT !.y = v, !.p = p]
    BY <2>1
  <2>3. p \in SUBSET Flags
    BY <1>6
  <2> HIDE DEF d, res, p
  <2> QED
    BY <1>2, <2>2, <2>3 DEF Exact, Ran, Machine, res
<1>11. CASE op = "TXS"
  <2>1. res = [d EXCEPT !.s = q.x]
    BY <1>11 DEF RegisterInstruction
  <2> HIDE DEF d, res
  <2> QED
    BY <1>2, <1>3, <2>1 DEF Exact, Ran, Machine, res
<1>12. CASE op \in {"CLC", "SEC", "CLI", "SEI", "CLD", "SED", "CLV"}
  <2>1. PICK f \in Flags : \/ res = [d EXCEPT !.p = With(d.p, f, TRUE)]
                           \/ res = [d EXCEPT !.p = With(d.p, f, FALSE)]
    BY <1>12 DEF RegisterInstruction, Flags
  <2> DEFINE on == With(d.p, f, TRUE)
             off == With(d.p, f, FALSE)
  <2>2. on \in SUBSET Flags /\ off \in SUBSET Flags
    BY <1>7
  <2> HIDE DEF d, res, on, off
  <2>3. res = [d EXCEPT !.p = on] \/ res = [d EXCEPT !.p = off]
    BY <2>1 DEF on, off
  <2> QED
    BY <1>2, <2>2, <2>3 DEF Exact, Ran, Machine, res
<1>13. CASE op = "NOP"
  <2>1. res = d
    BY <1>13 DEF RegisterInstruction
  <2> QED
    BY <1>2, <2>1 DEF Exact
<1> QED
  BY <1>8, <1>9, <1>10, <1>11, <1>12, <1>13 DEF RegisterOps

LEMMA BranchInstructionIs ==
  ASSUME NEW q, Ran(q, 1), NEW flag, NEW wanted
  PROVE  Exact(BranchInstruction(q, flag, wanted))
<1> DEFINE f == Fetch(q)
           to == Word(f.pc + f.data + (IF f.data >= 128 THEN 65280 ELSE 0))
           taken == Dummy(f)
           dummy == Read(taken, Addr(Lo(to), Hi(f.pc)))
           leaves == Hi(to) # Hi(f.pc)
           skipped == (flag \in q.p) # wanted
<1>1. Ran(f, 2) /\ f.pc \in Addresses /\ f.data \in ByteValues
  <2>1. Ran(f, 2)
    BY FetchIs
  <2> HIDE DEF f
  <2> QED
    BY <2>1, MachineFields DEF Ran
<1>2. f.pc + f.data + (IF f.data >= 128 THEN 65280 ELSE 0) \in Int /\ f.pc \in Int
  BY <1>1, InByteValues, InAddresses
<1>3. to \in Addresses /\ to \in Int
  BY <1>2, ByteFacts, NumbersFacts
<1>4. Ran(taken, 3)
  BY <1>1, DummyIs
<1>5. Addr(Lo(to), Hi(f.pc)) \in Addresses
  BY <1>2, <1>3, ByteFacts, AddrFacts
<1>6. Ran(dummy, 4)
  BY <1>4, <1>5, ReadIs
<1>7. BranchInstruction(q, flag, wanted) =
        IF skipped THEN [f EXCEPT !.claimed = 2]
        ELSE IF leaves THEN [dummy EXCEPT !.pc = to, !.claimed = 4]
        ELSE [taken EXCEPT !.pc = to, !.claimed = 3]
  BY DEF BranchInstruction
<1> HIDE DEF f, to, taken, dummy, leaves, skipped
<1>8. Exact([f EXCEPT !.claimed = 2])
  BY <1>1, Claims
<1>9. Exact([dummy EXCEPT !.pc = to, !.claimed = 4]) /\ Exact([taken EXCEPT !.pc = to, !.claimed = 3])
  BY <1>3, <1>4, <1>6 DEF Exact, Ran, Machine
<1> QED
  BY <1>7, <1>8, <1>9

LEMMA JumpsAre ==
  ASSUME NEW q, Ran(q, 1)
  PROVE  Exact(JmpAbs(q)) /\ Exact(JmpInd(q))
<1> DEFINE t == Absolute(q)
           lo == Read(t, t.ea)
           from == Addr(Inc(Lo(t.ea)), Hi(t.ea))
           hi == Read(lo, from)
           to == Addr(lo.data, hi.data)
<1>1. Ran(t, 3) /\ t.ea \in Addresses /\ t.ea \in Int
  BY AbsoluteIs, NumbersFacts
<1>2. JmpAbs(q) = [t EXCEPT !.pc = t.ea, !.claimed = 3] /\ JmpInd(q) = [hi EXCEPT !.pc = to, !.claimed = 5]
  BY DEF JmpAbs, JmpInd
<1> HIDE DEF t
<1>3. Ran(lo, 4) /\ lo.data \in ByteValues
  BY <1>1, ReadSame
<1>4. Lo(t.ea) \in Int /\ Hi(t.ea) \in ByteValues
  BY <1>1, ByteFacts, InByteValues
<1>5. from \in Addresses
  BY <1>4, ByteFacts, AddrFacts
<1> HIDE DEF lo, from
<1>6. Ran(hi, 5) /\ hi.data \in ByteValues
  BY <1>3, <1>5, ReadSame
<1> HIDE DEF hi
<1>7. to \in Addresses
  BY <1>3, <1>6, AddrFacts
<1> HIDE DEF to
<1>8. Exact([t EXCEPT !.pc = t.ea, !.claimed = 3])
  BY <1>1 DEF Exact, Ran, Machine
<1>9. Exact([hi EXCEPT !.pc = to, !.claimed = 5])
  BY <1>6, <1>7 DEF Exact, Ran, Machine
<1> QED
  BY <1>2, <1>8, <1>9

------------------------------------------------------------------------------
(* The stack.                                                              *)

LEMMA StackSteps ==
  ASSUME NEW s \in ByteValues
  PROVE  /\ Inc(s) \in ByteValues /\ Dec(s) \in ByteValues
         /\ Inc(Dec(s)) = s /\ Inc(Inc(Dec(Dec(s)))) = s /\ Inc(Dec(Dec(s))) = Dec(s)
         /\ Inc(Dec(Dec(Dec(s)))) = Dec(Dec(s)) /\ Inc(Inc(Dec(Dec(Dec(s))))) = Dec(s)
         /\ Inc(Inc(Inc(Dec(Dec(Dec(s)))))) = s
         /\ Stack(s) # Stack(Dec(s)) /\ Stack(s) # Stack(Dec(Dec(s))) /\ Stack(Dec(s)) # Stack(Dec(Dec(s)))
         /\ Stack(s) \in Addresses
<1>1. ASSUME NEW t \in ByteValues
      PROVE  /\ Inc(t) \in ByteValues /\ Dec(t) \in ByteValues /\ Inc(Dec(t)) = t
             /\ Dec(t) = (IF t = 0 THEN 255 ELSE t - 1)
  <2>1. t \in Int /\ 0 <= t /\ t <= 255
    BY InByteValues
  <2>2. (t + 255) % 256 = IF t = 0 THEN 255 ELSE t - 1
    BY <2>1
  <2>3. Inc(Dec(t)) = t
    BY <2>1, <2>2 DEF Inc, Dec
  <2> QED
    BY <2>1, <2>2, <2>3, ByteFacts DEF Dec
<1>2. Dec(s) \in ByteValues /\ Dec(Dec(s)) \in ByteValues /\ Dec(Dec(Dec(s))) \in ByteValues
  BY <1>1
<1>3. s # Dec(s) /\ Dec(s) # Dec(Dec(s)) /\ s # Dec(Dec(s))
  BY <1>1, <1>2, InByteValues
<1>4. \A t, u \in ByteValues : t # u => Stack(t) # Stack(u)
  BY InByteValues DEF Stack
<1>5. Stack(s) \in Addresses
  BY AddrFacts, InByteValues
<1> QED
  BY <1>1, <1>2, <1>3, <1>4, <1>5

LEMMA PcBytes ==
  ASSUME NEW pc \in Addresses
  PROVE  Hi(pc) \in ByteValues /\ Lo(pc) \in ByteValues /\ Addr(Lo(pc), Hi(pc)) = pc
<1>1. pc \in Int /\ 0 <= pc /\ pc <= 65535
  BY InAddresses
<1>2. Addr(Lo(pc), Hi(pc)) = pc
  <2>1. pc \div 256 \in Int /\ 0 <= pc \div 256 /\ pc \div 256 <= 255
    BY <1>1
  <2>2. (pc \div 256) % 256 = pc \div 256
    BY <2>1
  <2> QED
    BY <1>1, <2>2 DEF Addr, Lo, Hi
<1> QED
  BY <1>1, <1>2, ByteFacts

LEMMA PeekedIs ==
  ASSUME NEW q, Ran(q, 1)
  PROVE  Ran(Peeked(q), 3) /\ Same(q, Peeked(q))
<1> DEFINE d == Dummy(q)
           res == Peeked(q)
<1>1. Ran(d, 2) /\ Kept(q, d) /\ d.s = q.s /\ d.mem = q.mem
  BY DummyIs
<1>2. res = Read(d, Stack(d.s))
  BY DEF Peeked
<1> HIDE DEF d, res
<1>3. Stack(d.s) \in Addresses
  BY <1>1, MachineFields, StackSteps DEF Ran
<1>4. Ran(res, 3) /\ Same(d, res)
  BY <1>1, <1>2, <1>3, ReadSame
<1>5. Same(q, d)
  BY <1>1 DEF Kept, Same
<1> QED
  BY <1>4, <1>5, SameTransitive DEF res

LEMMA JsrIs ==
  ASSUME NEW q, Ran(q, 1)
  PROVE  /\ Exact(Jsr(q))
         /\ Jsr(q).s = Dec(Dec(q.s))
         /\ Jsr(q).mem = Poke(Poke(q.mem, Stack(q.s), Hi(Word(q.pc + 1))), Stack(Dec(q.s)), Lo(Word(q.pc + 1)))
<1> DEFINE res == Jsr(q)
           lo == Fetch(q)
           peeked == Read(lo, Stack(lo.s))
           p1 == Push(peeked, Hi(lo.pc))
           p2 == Push(p1, Lo(lo.pc))
           hi == Fetch(p2)
           to == Addr(lo.data, hi.data)
           next == Word(q.pc + 1)
<1>1. Ran(lo, 2) /\ lo.pc = next /\ lo.s = q.s /\ lo.mem = q.mem
  BY FetchIs
<1>2. res = [hi EXCEPT !.pc = to, !.claimed = 6]
  BY DEF Jsr
<1> HIDE DEF res, lo, next
<1>3. Stack(lo.s) \in Addresses /\ lo.pc \in Addresses /\ lo.data \in ByteValues
  BY <1>1, MachineFields, StackSteps DEF Ran
<1>4. Hi(lo.pc) \in ByteValues /\ Lo(lo.pc) \in ByteValues
  BY <1>3, PcBytes
<1>5. Ran(peeked, 3) /\ peeked.s = lo.s /\ peeked.mem = lo.mem
  BY <1>1, <1>3, ReadIs
<1> HIDE DEF peeked
<1>6. Ran(p1, 4) /\ p1.s = Dec(peeked.s) /\ p1.mem = Poke(peeked.mem, Stack(peeked.s), Hi(lo.pc))
  BY <1>4, <1>5, PushIs
<1> HIDE DEF p1
<1>7. Ran(p2, 5) /\ p2.s = Dec(p1.s) /\ p2.mem = Poke(p1.mem, Stack(p1.s), Lo(lo.pc))
  BY <1>4, <1>6, PushIs
<1> HIDE DEF p2
<1>8. Ran(hi, 6) /\ hi.s = p2.s /\ hi.mem = p2.mem
  BY <1>7, FetchIs
<1> HIDE DEF hi
<1>9. to \in Addresses
  BY <1>3, <1>8, AddrFacts, MachineFields DEF Ran
<1> HIDE DEF to
<1>10. Exact(res) /\ res.s = hi.s /\ res.mem = hi.mem
  <2>1. hi \in Machine
    BY <1>2, <1>8, <1>9 DEF Ran
  <2>2. res \in Machine
    BY <1>2, <1>9, <2>1 DEF Machine
  <2>3. res.s = hi.s /\ res.mem = hi.mem /\ res.log = hi.log /\ res.claimed = 6
    BY <1>2, <1>9, <2>1 DEF Machine
  <2> QED
    BY <1>2, <1>8, <1>9, <2>2, <2>3 DEF Ran, Exact
<1> QED
  BY <1>1, <1>5, <1>6, <1>7, <1>8, <1>10 DEF next, res

LEMMA RtsIs ==
  ASSUME NEW q, Ran(q, 1)
  PROVE  /\ Exact(Rts(q))
         /\ Rts(q).s = Inc(Inc(q.s))
         /\ Rts(q).pc = Word(Addr(Peek(q.mem, Stack(Inc(q.s))), Peek(q.mem, Stack(Inc(Inc(q.s))))) + 1)
<1> DEFINE res == Rts(q)
           from == Peeked(q)
           lo == Pull(from)
           hi == Pull(lo)
           to == Addr(lo.data, hi.data)
           last == Read(hi, to)
           pc == Word(to + 1)
<1>1. Ran(from, 3) /\ from.s = q.s /\ from.mem = q.mem
  BY PeekedIs DEF Same
<1>2. res = [last EXCEPT !.pc = pc, !.claimed = 6]
  BY DEF Rts
<1> HIDE DEF res, from
<1>3. Ran(lo, 4) /\ lo.s = Inc(from.s) /\ lo.mem = from.mem /\ lo.data = Peek(from.mem, Stack(Inc(from.s)))
  BY <1>1, PullIs
<1> HIDE DEF lo
<1>4. Ran(hi, 5) /\ hi.s = Inc(lo.s) /\ hi.mem = lo.mem /\ hi.data = Peek(lo.mem, Stack(Inc(lo.s)))
  BY <1>3, PullIs
<1> HIDE DEF hi
<1>5. to \in Addresses
  BY <1>3, <1>4, AddrFacts, MachineFields DEF Ran
<1>6. to \in Int
  BY <1>5, NumbersFacts
<1>7. pc \in Addresses
  <2> HIDE DEF to
  <2> QED
    BY <1>6, ByteFacts
<1>8. Ran(last, 6) /\ last.s = hi.s
  BY <1>4, <1>5, ReadIs
<1> HIDE DEF last
<1>9. Exact(res) /\ res.s = last.s /\ res.pc = pc
  <2> HIDE DEF pc
  <2>1. last \in Machine
    BY <1>2, <1>7, <1>8 DEF Ran
  <2>2. res \in Machine
    BY <1>2, <1>7, <2>1 DEF Machine
  <2>3. res.s = last.s /\ res.pc = pc /\ res.log = last.log /\ res.claimed = 6
    BY <1>2, <1>7, <2>1 DEF Machine
  <2> QED
    BY <1>2, <1>7, <1>8, <2>2, <2>3 DEF Ran, Exact
<1> QED
  BY <1>1, <1>3, <1>4, <1>8, <1>9 DEF res

LEMMA StatusByteFacts ==
  ASSUME NEW p \in SUBSET Flags
  PROVE  StatusByte(p, TRUE) \in ByteValues /\ StatusOf(StatusByte(p, TRUE)) = p
<1> DEFINE n == Flag("N" \in p)
           o == Flag("V" \in p)
           d == Flag("D" \in p)
           i == Flag("I" \in p)
           z == Flag("Z" \in p)
           c == Flag("C" \in p)
           v == n * 128 + o * 64 + 32 + 16 + d * 8 + i * 4 + z * 2 + c
           bit == [N |-> 7, V |-> 6, D |-> 3, I |-> 2, Z |-> 1, C |-> 0]
<1>1. n \in {0, 1} /\ o \in {0, 1} /\ d \in {0, 1} /\ i \in {0, 1} /\ z \in {0, 1} /\ c \in {0, 1}
  BY DEF Flag
<1>2. StatusByte(p, TRUE) = v
  BY <1>1 DEF StatusByte, Flag
<1>3. /\ n = 1 <=> "N" \in p
      /\ o = 1 <=> "V" \in p
      /\ d = 1 <=> "D" \in p
      /\ i = 1 <=> "I" \in p
      /\ z = 1 <=> "Z" \in p
      /\ c = 1 <=> "C" \in p
  BY DEF Flag
<1> HIDE DEF n, o, d, i, z, c
<1>4. v \in ByteValues
  BY <1>1, InByteValues
<1>5. Bit(v, 7) = n /\ Bit(v, 6) = o
  BY <1>1 DEF Bit
<1>6. Bit(v, 3) = d /\ Bit(v, 2) = i
  BY <1>1 DEF Bit
<1>7. Bit(v, 1) = z /\ Bit(v, 0) = c
  BY <1>1 DEF Bit
<1> HIDE DEF v
<1>8. StatusOf(v) = {f \in Flags : Bit(v, bit[f]) = 1}
  BY DEF StatusOf
<1>9. \A f \in Flags : Bit(v, bit[f]) = 1 <=> f \in p
  BY <1>3, <1>5, <1>6, <1>7 DEF Flags
<1> QED
  BY <1>2, <1>4, <1>8, <1>9

LEMMA RtiIs ==
  ASSUME NEW q, Ran(q, 1)
  PROVE  /\ Exact(Rti(q))
         /\ Rti(q).s = Inc(Inc(Inc(q.s)))
         /\ Rti(q).p = StatusOf(Peek(q.mem, Stack(Inc(q.s))))
         /\ Rti(q).pc = Addr(Peek(q.mem, Stack(Inc(Inc(q.s)))), Peek(q.mem, Stack(Inc(Inc(Inc(q.s))))))
<1> DEFINE res == Rti(q)
           from == Peeked(q)
           st == Pull(from)
           lo == Pull(st)
           hi == Pull(lo)
           to == Addr(lo.data, hi.data)
           p == StatusOf(st.data)
<1>1. Ran(from, 3) /\ from.s = q.s /\ from.mem = q.mem
  BY PeekedIs DEF Same
<1>2. res = [hi EXCEPT !.p = p, !.pc = to, !.claimed = 6]
  BY DEF Rti
<1> HIDE DEF res, from
<1>3. Ran(st, 4) /\ st.s = Inc(from.s) /\ st.mem = from.mem /\ st.data = Peek(from.mem, Stack(Inc(from.s)))
  BY <1>1, PullIs
<1> HIDE DEF st
<1>4. Ran(lo, 5) /\ lo.s = Inc(st.s) /\ lo.mem = st.mem /\ lo.data = Peek(st.mem, Stack(Inc(st.s)))
  BY <1>3, PullIs
<1> HIDE DEF lo
<1>5. Ran(hi, 6) /\ hi.s = Inc(lo.s) /\ hi.mem = lo.mem /\ hi.data = Peek(lo.mem, Stack(Inc(lo.s)))
  BY <1>4, PullIs
<1> HIDE DEF hi
<1>6. to \in Addresses
  BY <1>4, <1>5, AddrFacts, MachineFields DEF Ran
<1>7. p \in SUBSET Flags
  BY DEF StatusOf
<1>8. Exact(res) /\ res.s = hi.s /\ res.p = p /\ res.pc = to
  <2> HIDE DEF to, p
  <2>1. hi \in Machine
    BY <1>2, <1>5, <1>6, <1>7 DEF Ran
  <2>2. res \in Machine
    BY <1>2, <1>6, <1>7, <2>1 DEF Machine
  <2>3. res.s = hi.s /\ res.p = p /\ res.pc = to /\ res.log = hi.log /\ res.claimed = 6
    BY <1>2, <1>6, <1>7, <2>1 DEF Machine
  <2> QED
    BY <1>2, <1>5, <1>6, <1>7, <2>2, <2>3 DEF Ran, Exact
<1> QED
  BY <1>1, <1>3, <1>4, <1>5, <1>8 DEF res

LEMMA BrkIs ==
  ASSUME NEW q, Ran(q, 1)
  PROVE  /\ Exact(Brk(q))
         /\ Brk(q).s = Dec(Dec(Dec(q.s)))
         /\ Brk(q).mem = Poke(Poke(Poke(q.mem, Stack(q.s), Hi(Word(q.pc + 1))),
                                   Stack(Dec(q.s)), Lo(Word(q.pc + 1))),
                              Stack(Dec(Dec(q.s))), StatusByte(q.p, TRUE))
<1> DEFINE res == Brk(q)
           d == Fetch(q)
           p1 == Push(d, Hi(d.pc))
           p2 == Push(p1, Lo(d.pc))
           byte == StatusByte(d.p, TRUE)
           st == Push(p2, byte)
           lo == Read(st, 65534)
           hi == Read(lo, 65535)
           to == Addr(lo.data, hi.data)
           next == Word(q.pc + 1)
           p == hi.p \cup {"I"}
<1>1. Ran(d, 2) /\ d.pc = next /\ d.s = q.s /\ d.mem = q.mem /\ d.p = q.p
  BY FetchIs DEF Kept
<1>2. res = [hi EXCEPT !.p = p, !.pc = to, !.claimed = 7]
  BY DEF Brk
<1> HIDE DEF res, d, next
<1>3. d.pc \in Addresses /\ d.p \in SUBSET Flags
  BY <1>1, MachineFields DEF Ran
<1>4. Hi(d.pc) \in ByteValues /\ Lo(d.pc) \in ByteValues
  BY <1>3, PcBytes
<1>5. Ran(p1, 3) /\ p1.s = Dec(d.s) /\ p1.mem = Poke(d.mem, Stack(d.s), Hi(d.pc))
  BY <1>1, <1>4, PushIs
<1> HIDE DEF p1
<1>6. Ran(p2, 4) /\ p2.s = Dec(p1.s) /\ p2.mem = Poke(p1.mem, Stack(p1.s), Lo(d.pc))
  BY <1>4, <1>5, PushIs
<1> HIDE DEF p2
<1>7. byte \in ByteValues /\ byte = StatusByte(q.p, TRUE)
  BY <1>1, <1>3, StatusByteFacts
<1> HIDE DEF byte
<1>8. Ran(st, 5) /\ st.s = Dec(p2.s) /\ st.mem = Poke(p2.mem, Stack(p2.s), byte)
  <2>1. byte \in ByteValues
    BY <1>7
  <2> QED
    BY <1>6, <2>1, PushIs
<1> HIDE DEF st
<1>9. 65534 \in Addresses /\ 65535 \in Addresses
  BY InAddresses
<1>10. Ran(lo, 6) /\ lo.s = st.s /\ lo.mem = st.mem
  BY <1>8, <1>9, ReadIs
<1> HIDE DEF lo
<1>11. Ran(hi, 7) /\ hi.s = lo.s /\ hi.mem = lo.mem
  BY <1>9, <1>10, ReadIs
<1> HIDE DEF hi
<1>12. to \in Addresses
  BY <1>10, <1>11, AddrFacts, MachineFields DEF Ran
<1>13. p \in SUBSET Flags
  BY <1>11, MachineFields DEF Ran, Flags
<1>14. Exact(res) /\ res.s = hi.s /\ res.mem = hi.mem
  <2> HIDE DEF to, p
  <2>1. hi \in Machine
    BY <1>2, <1>11, <1>12, <1>13 DEF Ran
  <2>2. res \in Machine
    BY <1>2, <1>12, <1>13, <2>1 DEF Machine
  <2>3. res.s = hi.s /\ res.mem = hi.mem /\ res.log = hi.log /\ res.claimed = 7
    BY <1>2, <1>12, <1>13, <2>1 DEF Machine
  <2> QED
    BY <1>2, <1>11, <1>12, <1>13, <2>2, <2>3 DEF Ran, Exact
<1> QED
  BY <1>1, <1>5, <1>6, <1>7, <1>8, <1>10, <1>11, <1>14 DEF next, res

LEMMA PushesAre ==
  ASSUME NEW q, Ran(q, 1)
  PROVE  /\ Exact(Pha(q)) /\ Pha(q).s = Dec(q.s) /\ Pha(q).mem = Poke(q.mem, Stack(q.s), q.a)
         /\ Exact(Php(q)) /\ Php(q).s = Dec(q.s)
         /\ Php(q).mem = Poke(q.mem, Stack(q.s), StatusByte(q.p, TRUE))
<1> DEFINE d == Dummy(q)
<1>1. Ran(d, 2) /\ d.s = q.s /\ d.mem = q.mem
  BY DummyIs
<1>2. q.a \in ByteValues /\ StatusByte(q.p, TRUE) \in ByteValues
  BY MachineFields, StatusByteFacts DEF Ran
<1>3. ASSUME NEW v \in ByteValues, NEW r, r = [Push(d, v) EXCEPT !.claimed = 3]
      PROVE  Exact(r) /\ r.s = Dec(q.s) /\ r.mem = Poke(q.mem, Stack(q.s), v)
  <2> DEFINE u == Push(d, v)
  <2>1. Ran(u, 3) /\ u.s = Dec(q.s) /\ u.mem = Poke(q.mem, Stack(q.s), v)
    BY <1>1, PushIs
  <2> HIDE DEF u
  <2>2. u \in Machine /\ r = [u EXCEPT !.claimed = 3]
    BY <1>3, <2>1 DEF Ran, u
  <2>3. r.s = u.s /\ r.mem = u.mem
    BY <2>2 DEF Machine
  <2> QED
    BY <2>1, <2>2, <2>3, Claims
<1>4. Pha(q) = [Push(d, q.a) EXCEPT !.claimed = 3]
  BY DEF Pha
<1>5. Php(q) = [Push(d, StatusByte(q.p, TRUE)) EXCEPT !.claimed = 3]
  BY DEF Php
<1> HIDE DEF d
<1> QED
  BY <1>2, <1>3, <1>4, <1>5

LEMMA PullsAre ==
  ASSUME NEW q, Ran(q, 1)
  PROVE  /\ Exact(Pla(q)) /\ Pla(q).s = Inc(q.s) /\ Pla(q).a = Peek(q.mem, Stack(Inc(q.s)))
         /\ Exact(Plp(q)) /\ Plp(q).s = Inc(q.s) /\ Plp(q).p = StatusOf(Peek(q.mem, Stack(Inc(q.s))))
<1> DEFINE from == Peeked(q)
           v == Pull(from)
           p == NZ(v.p, v.data)
           status == StatusOf(v.data)
<1>1. Ran(from, 3) /\ from.s = q.s /\ from.mem = q.mem
  BY PeekedIs DEF Same
<1>2. Pla(q) = [LoadA(v, v.data) EXCEPT !.claimed = 4] /\ Plp(q) = [v EXCEPT !.p = status, !.claimed = 4]
  BY DEF Pla, Plp
<1> HIDE DEF from
<1>3. Ran(v, 4) /\ v.s = Inc(q.s) /\ v.data = Peek(q.mem, Stack(Inc(q.s)))
  BY <1>1, PullIs
<1> HIDE DEF v
<1>4. v \in Machine /\ v.data \in ByteValues /\ v.p \in SUBSET Flags
  BY <1>3, MachineFields DEF Ran
<1>5. p \in SUBSET Flags /\ status \in SUBSET Flags
  BY <1>4, FlagFacts DEF StatusOf
<1>6. LoadA(v, v.data) = [v EXCEPT !.a = v.data, !.p = p]
  BY DEF LoadA
<1> HIDE DEF p, status
<1> DEFINE u == LoadA(v, v.data)
           w == [v EXCEPT !.p = status]
<1>7. Ran(u, 4) /\ u.s = v.s /\ u.a = v.data /\ u \in Machine
  BY <1>3, <1>4, <1>5, <1>6 DEF Ran, Machine
<1>8. Ran(w, 4) /\ w.s = v.s /\ w.p = status /\ w \in Machine
  BY <1>3, <1>4, <1>5 DEF Ran, Machine
<1>9. Plp(q) = [w EXCEPT !.claimed = 4] /\ Pla(q) = [u EXCEPT !.claimed = 4]
  BY <1>2, <1>4 DEF Machine
<1> HIDE DEF u, w
<1>10. Exact(Pla(q)) /\ Exact(Plp(q))
  BY <1>7, <1>8, <1>9, Claims
<1>11. Pla(q).s = u.s /\ Pla(q).a = u.a /\ Plp(q).s = w.s /\ Plp(q).p = w.p
  BY <1>7, <1>8, <1>9 DEF Machine
<1> QED
  BY <1>3, <1>7, <1>8, <1>10, <1>11 DEF status

LEMMA JamIs ==
  ASSUME NEW q, Ran(q, 1)
  PROVE  Exact(Jam(q))
<1> DEFINE res == Jam(q)
           next(f) == [i \in 0 .. 9 |-> IF i = 0 THEN Dummy(q) ELSE Read(f[i - 1], Ends[i])]
           r0 == Dummy(q)
           r1 == Read(r0, Ends[1])
           r2 == Read(r1, Ends[2])
           r3 == Read(r2, Ends[3])
           r4 == Read(r3, Ends[4])
           r5 == Read(r4, Ends[5])
           r6 == Read(r5, Ends[6])
           r7 == Read(r6, Ends[7])
           r8 == Read(r7, Ends[8])
           r9 == Read(r8, Ends[9])
           f == [i \in 0 .. 9 |-> CASE i = 0 -> r0 [] i = 1 -> r1 [] i = 2 -> r2 [] i = 3 -> r3 [] i = 4 -> r4
                                     [] i = 5 -> r5 [] i = 6 -> r6 [] i = 7 -> r7 [] i = 8 -> r8 [] i = 9 -> r9]
           after == CHOOSE g : g = next(g)
<1>1. ASSUME NEW i \in 0 .. 9
      PROVE  f[i] = IF i = 0 THEN Dummy(q) ELSE Read(f[i - 1], Ends[i])
  <2>1. i \in {0, 1, 2, 3, 4, 5, 6, 7, 8, 9}
    OBVIOUS
  <2> HIDE DEF r0, r1, r2, r3, r4, r5, r6, r7, r8, r9
  <2>2. /\ f[0] = r0 /\ f[1] = r1 /\ f[2] = r2 /\ f[3] = r3 /\ f[4] = r4
        /\ f[5] = r5 /\ f[6] = r6 /\ f[7] = r7 /\ f[8] = r8 /\ f[9] = r9
    OBVIOUS
  <2> HIDE DEF f
  <2>3. /\ f[1] = Read(f[0], Ends[1]) /\ f[2] = Read(f[1], Ends[2]) /\ f[3] = Read(f[2], Ends[3])
        /\ f[4] = Read(f[3], Ends[4]) /\ f[5] = Read(f[4], Ends[5]) /\ f[6] = Read(f[5], Ends[6])
        /\ f[7] = Read(f[6], Ends[7]) /\ f[8] = Read(f[7], Ends[8]) /\ f[9] = Read(f[8], Ends[9])
    BY <2>2 DEF r1, r2, r3, r4, r5, r6, r7, r8, r9
  <2>4. f[0] = Dummy(q)
    BY <2>2 DEF r0
  <2> QED
    BY <2>1, <2>3, <2>4
<1>2. f = next(f)
  BY <1>1
<1>3. after = next(after)
  BY <1>2
<1>4. Len(Ends) = 9
  BY DEF Ends
<1>5. res = [after[9] EXCEPT !.jammed = TRUE, !.claimed = 11]
  BY <1>4 DEF Jam
<1> HIDE DEF res, after, f
<1>6. /\ after[0] = Dummy(q) /\ after[1] = Read(after[0], Ends[1]) /\ after[2] = Read(after[1], Ends[2])
      /\ after[3] = Read(after[2], Ends[3]) /\ after[4] = Read(after[3], Ends[4])
      /\ after[5] = Read(after[4], Ends[5]) /\ after[6] = Read(after[5], Ends[6])
      /\ after[7] = Read(after[6], Ends[7]) /\ after[8] = Read(after[7], Ends[8])
      /\ after[9] = Read(after[8], Ends[9])
  BY <1>3
<1>7. ASSUME NEW i \in 1 .. 9, NEW g, NEW n \in Nat, Ran(g, n)
      PROVE  Ran(Read(g, Ends[i]), n + 1)
  <2>1. Ends[i] \in {65534, 65535}
    BY DEF Ends
  <2>2. 65534 \in Addresses /\ 65535 \in Addresses
    BY InAddresses
  <2>3. Ends[i] \in Addresses
    BY <2>1, <2>2
  <2> QED
    BY <1>7, <2>3, ReadIs
<1>8. Ran(after[0], 2)
  BY <1>6, DummyIs
<1>9. Ran(after[1], 3)
  BY <1>6, <1>7, <1>8
<1>10. Ran(after[2], 4)
  BY <1>6, <1>7, <1>9
<1>11. Ran(after[3], 5)
  BY <1>6, <1>7, <1>10
<1>12. Ran(after[4], 6)
  BY <1>6, <1>7, <1>11
<1>13. Ran(after[5], 7)
  BY <1>6, <1>7, <1>12
<1>14. Ran(after[6], 8)
  BY <1>6, <1>7, <1>13
<1>15. Ran(after[7], 9)
  BY <1>6, <1>7, <1>14
<1>16. Ran(after[8], 10)
  BY <1>6, <1>7, <1>15
<1>17. Ran(after[9], 11)
  BY <1>6, <1>7, <1>16
<1> DEFINE last == after[9]
<1>18. Ran(last, 11) /\ res = [last EXCEPT !.jammed = TRUE, !.claimed = 11]
  BY <1>5, <1>17
<1> HIDE DEF last
<1>19. last \in Machine
  BY <1>18 DEF Ran
<1>20. res \in Machine
  BY <1>18, <1>19 DEF Machine
<1>21. res.log = last.log /\ res.claimed = 11
  BY <1>18, <1>19 DEF Machine
<1> QED
  BY <1>18, <1>20, <1>21 DEF Ran, Exact, res

------------------------------------------------------------------------------
(* The tables: what the rows of each name.                                 *)

LEMMA TableIs ==
  ASSUME NEW rows, NEW o \in DOMAIN Table(rows)
  PROVE  Table(rows)[o] \in rows
BY DEF Table

LEMMA GroupIs ==
  ASSUME NEW bases, NEW modes, NEW r \in Group(bases, modes)
  PROVE  \E base \in bases, mode \in modes : r[2] = base[2] /\ r[3] = mode[2]
BY DEF Group

LEMMA EachIs ==
  ASSUME NEW opcodes, NEW op, NEW mode, NEW r \in Each(opcodes, op, mode)
  PROVE  r[2] = op /\ r[3] = mode
BY DEF Each

Named(r, ops, modes) == r[2] \in ops /\ r[3] \in modes

LEMMA ModesNamed ==
  /\ \A mode \in IndexedModes : mode[2] \in MemoryModes
  /\ \A mode \in AllModes : mode[2] \in Modes
BY DEF IndexedModes, AllModes, MemoryModes, Modes, IndexedByReads

LEMMA ReadsNamed ==
  ASSUME NEW o \in DOMAIN Reads
  PROVE  Named(Reads[o], ReadOps, Modes)
<1>1. ASSUME NEW r \in Loads PROVE Named(r, ReadOps, Modes)
  <2>1. CASE r \in Group({<<160, "LDA">>}, AllModes)
    BY <2>1, GroupIs, ModesNamed DEF Named, ReadOps
  <2>2. CASE r \in Group({<<160, "LDX">>}, {<<2, "imm">>, <<6, "zp">>, <<22, "zpy">>, <<14, "abs">>, <<30, "absy">>})
    BY <2>2, GroupIs DEF Named, ReadOps, Modes, IndexedByReads
  <2>3. CASE r \in Group({<<160, "LDY">>}, {<<0, "imm">>, <<4, "zp">>, <<20, "zpx">>, <<12, "abs">>, <<28, "absx">>})
    BY <2>3, GroupIs DEF Named, ReadOps, Modes, IndexedByReads
  <2> QED
    BY <2>1, <2>2, <2>3 DEF Loads
<1>2. ASSUME NEW r \in Logic PROVE Named(r, ReadOps, Modes)
  <2>1. CASE r \in Group({<<0, "ORA">>, <<32, "AND">>, <<64, "EOR">>}, AllModes)
    BY <2>1, GroupIs, ModesNamed DEF Named, ReadOps
  <2>2. CASE r \in {<<36, "BIT", "zp">>, <<44, "BIT", "abs">>}
    BY <2>2 DEF Named, ReadOps, Modes, IndexedByReads
  <2> QED
    BY <2>1, <2>2 DEF Logic
<1>3. ASSUME NEW r \in Arithmetic PROVE Named(r, ReadOps, Modes)
  <2>1. CASE r \in Group({<<96, "ADC">>, <<224, "SBC">>}, AllModes)
    BY <2>1, GroupIs, ModesNamed DEF Named, ReadOps
  <2>2. CASE r = <<235, "SBC", "imm">>
    BY <2>2 DEF Named, ReadOps, Modes
  <2> QED
    BY <2>1, <2>2 DEF Arithmetic
<1>4. ASSUME NEW r \in Compares PROVE Named(r, ReadOps, Modes)
  <2>1. CASE r \in Group({<<192, "CMP">>}, AllModes)
    BY <2>1, GroupIs, ModesNamed DEF Named, ReadOps
  <2>2. CASE r \in Group({<<192, "CPY">>, <<224, "CPX">>}, {<<0, "imm">>, <<4, "zp">>, <<12, "abs">>})
    BY <2>2, GroupIs DEF Named, ReadOps, Modes
  <2> QED
    BY <2>1, <2>2 DEF Compares
<1>5. ASSUME NEW r \in Nops PROVE Named(r, ReadOps, Modes)
  <2>1. r[2] = "NOP" /\ r[3] \in {"imm", "zp", "zpx", "abs", "absx"}
    BY EachIs DEF Nops
  <2> QED
    BY <2>1 DEF Named, ReadOps, Modes, IndexedByReads
<1>6. ASSUME NEW r \in Laxes PROVE Named(r, ReadOps, Modes)
  <2>1. CASE r \in Group({<<160, "LAX">>}, {<<3, "indx">>, <<7, "zp">>, <<15, "abs">>, <<19, "indy">>,
                                            <<23, "zpy">>, <<31, "absy">>})
    BY <2>1, GroupIs DEF Named, ReadOps, Modes, IndexedByReads
  <2>2. CASE r = <<171, "LXA", "imm">>
    BY <2>2 DEF Named, ReadOps, Modes
  <2> QED
    BY <2>1, <2>2 DEF Laxes
<1>7. ASSUME NEW r \in Masks PROVE Named(r, ReadOps, Modes)
  BY DEF Masks, Named, ReadOps, Modes, IndexedByReads
<1>8. Reads[o] \in Loads \cup Logic \cup Arithmetic \cup Compares \cup Nops \cup Laxes \cup Masks
  BY TableIs DEF Reads
<1> QED
  BY <1>1, <1>2, <1>3, <1>4, <1>5, <1>6, <1>7, <1>8

LEMMA StoresNamed ==
  ASSUME NEW o \in DOMAIN Stores
  PROVE  Named(Stores[o], StoreOps, MemoryModes)
<1> DEFINE r == Stores[o]
           g1 == Group({<<128, "STA">>}, IndexedModes)
           g2 == Group({<<128, "STX">>}, {<<6, "zp">>, <<22, "zpy">>, <<14, "abs">>})
           g3 == Group({<<128, "STY">>}, {<<4, "zp">>, <<20, "zpx">>, <<12, "abs">>})
           g4 == Group({<<128, "SAX">>}, {<<3, "indx">>, <<7, "zp">>, <<23, "zpy">>, <<15, "abs">>})
<1>1. r \in g1 \cup g2 \cup g3 \cup g4
  BY TableIs DEF Stores
<1> HIDE DEF r
<1>2. CASE r \in g1
  BY <1>2, GroupIs, ModesNamed DEF Named, StoreOps, r
<1>3. CASE r \in g2
  BY <1>3, GroupIs DEF Named, StoreOps, MemoryModes, Modes, IndexedByReads, r
<1>4. CASE r \in g3
  BY <1>4, GroupIs DEF Named, StoreOps, MemoryModes, Modes, IndexedByReads, r
<1>5. CASE r \in g4
  BY <1>5, GroupIs DEF Named, StoreOps, MemoryModes, Modes, IndexedByReads, r
<1> QED
  BY <1>1, <1>2, <1>3, <1>4, <1>5

LEMMA UnstableNamed ==
  ASSUME NEW o \in DOMAIN Unstable
  PROVE  Named(Unstable[o], UnstableOps, MemoryModes)
<1> DEFINE r == Unstable[o]
<1>1. r \in {<<155, "TAS", "absy">>, <<159, "SHA", "absy">>, <<147, "SHA", "indy">>,
             <<158, "SHX", "absy">>, <<156, "SHY", "absx">>}
  BY TableIs DEF Unstable
<1> QED
  BY <1>1 DEF Named, UnstableOps, MemoryModes, Modes, IndexedByReads

LEMMA ModifiesNamed ==
  ASSUME NEW o \in DOMAIN Modifies
  PROVE  Named(Modifies[o], ModifyOps, MemoryModes)
<1> DEFINE r == Modifies[o]
<1> SUFFICES Named(r, ModifyOps, MemoryModes)
  OBVIOUS
<1>1. r \in Counts \cup MemoryShifts \cup CombinedCounts \cup CombinedShifts
  BY TableIs DEF Modifies
<1> HIDE DEF r
<1>2. \A mode \in ModifyModes : mode[2] \in MemoryModes
  BY DEF ModifyModes, MemoryModes, Modes, IndexedByReads
<1>3. \A mode \in CombinedModes : mode[2] \in MemoryModes
  BY DEF CombinedModes, MemoryModes, Modes, IndexedByReads
<1>4. CASE r \in Counts
  BY <1>2, <1>4, GroupIs DEF Counts, Named, ModifyOps
<1>5. CASE r \in MemoryShifts
  BY <1>2, <1>5, GroupIs DEF MemoryShifts, Named, ModifyOps
<1>6. CASE r \in CombinedCounts
  BY <1>3, <1>6, GroupIs DEF CombinedCounts, Named, ModifyOps
<1>7. CASE r \in CombinedShifts
  BY <1>3, <1>7, GroupIs DEF CombinedShifts, Named, ModifyOps
<1> QED
  BY <1>1, <1>4, <1>5, <1>6, <1>7

LEMMA ShiftsNamed ==
  ASSUME NEW o \in DOMAIN AccumulatorShifts
  PROVE  AccumulatorShifts[o][2] \in ModifyOps
<1> DEFINE r == AccumulatorShifts[o]
<1>1. r \in {<<10, "ASL">>, <<42, "ROL">>, <<74, "LSR">>, <<106, "ROR">>}
  BY TableIs DEF AccumulatorShifts
<1> QED
  BY <1>1 DEF ModifyOps

LEMMA RegistersNamed ==
  ASSUME NEW o \in DOMAIN Registers
  PROVE  Registers[o][2] \in RegisterOps
<1> DEFINE r == Registers[o]
<1>1. r \in Moves \cup Steppers \cup FlagOps \cup Waits
  BY TableIs DEF Registers
<1> HIDE DEF r
<1>2. r \in Moves => r[2] \in RegisterOps
  BY DEF Moves, RegisterOps
<1>3. r \in Steppers => r[2] \in RegisterOps
  BY DEF Steppers, RegisterOps
<1>4. r \in FlagOps => r[2] \in RegisterOps
  BY DEF FlagOps, RegisterOps
<1>5. r \in Waits => r[2] \in RegisterOps
  BY DEF Waits, RegisterOps
<1> QED
  BY <1>1, <1>2, <1>3, <1>4, <1>5 DEF r

------------------------------------------------------------------------------
(* The steps.                                                              *)

\* What runs, by name.
OtherOps == {"ASL", "ROL", "LSR", "ROR", "branch", "JMP", "JAM"} \cup RegisterOps
StackOps == {"JMP", "JSR", "RTS", "BRK", "RTI", "PHA", "PHP", "PLA", "PLP"}
Names == ReadOps \cup StoreOps \cup UnstableOps \cup ModifyOps \cup OtherOps \cup StackOps \cup {"reset"}

Types == m \in Machine /\ start \in Machine /\ ran \in Seq(Names)

LEMMA FetchedIs ==
  ASSUME m \in Machine
  PROVE  /\ Ran(Fetched, 1) /\ Fetched.pc = Word(m.pc + 1) /\ Fetched.s = m.s /\ Fetched.mem = m.mem
         /\ Fetched.a = m.a /\ Fetched.x = m.x /\ Fetched.y = m.y /\ Fetched.p = m.p
<1> DEFINE q == [m EXCEPT !.log = <<>>]
<1>1. <<>> \in Seq(Busy) /\ <<>> \in Log /\ Len(<<>>) = 0
  BY DEF Log
<1>2. Ran(q, 0)
  BY <1>1 DEF Ran, Machine
<1>3. q.pc = m.pc /\ q.s = m.s /\ q.mem = m.mem /\ q.a = m.a /\ q.x = m.x /\ q.y = m.y /\ q.p = m.p
  BY DEF Machine
<1>4. Fetched = Fetch(q)
  BY DEF Fetched
<1> HIDE DEF q
<1>5. /\ Ran(Fetch(q), 1) /\ Kept(q, Fetch(q)) /\ Fetch(q).pc = Word(q.pc + 1)
      /\ Fetch(q).s = q.s /\ Fetch(q).mem = q.mem
  BY <1>2, FetchIs
<1> QED
  BY <1>3, <1>4, <1>5 DEF Kept

LEMMA PaddedIs ==
  ASSUME NEW q, Exact(q)
  PROVE  Padded(q) = q
<1>1. q.claimed - Len(q.log) = 0
  BY MachineFields DEF Exact, Ran
<1>2. ~ (q.claimed - Len(q.log) > 0)
  BY <1>1
<1> QED
  BY <1>2, Zenon DEF Padded

\* A step that runs an instruction to q.
Step(name, q) == Exact(q) /\ m' = q /\ ran' = Append(ran, name) /\ start' = start

LEMMA DoesIs ==
  ASSUME NEW name, NEW q, Exact(q), Does(name, q)
  PROVE  Step(name, q)
BY PaddedIs DEF Does, Step

LEMMA ReadStep ==
  ASSUME Types, RunRead
  PROVE  \E op \in ReadOps, mode \in Modes : Step(op, ReadInstruction(Fetched, op, mode))
<1> DEFINE op == Reads[Opcode][2]
           mode == Reads[Opcode][3]
<1>1. op \in ReadOps /\ mode \in Modes
  BY ReadsNamed DEF RunRead, Ready, Named
<1>2. Does(op, ReadInstruction(Fetched, op, mode))
  BY DEF RunRead
<1>3. Ran(Fetched, 1)
  BY FetchedIs DEF Types
<1> HIDE DEF op, mode
<1>4. Exact(ReadInstruction(Fetched, op, mode))
  BY <1>1, <1>3, ReadInstructionIs
<1> QED
  BY <1>1, <1>2, <1>4, DoesIs

LEMMA StoreStep ==
  ASSUME Types, RunStore
  PROVE  \E op \in StoreOps, mode \in MemoryModes : Step(op, StoreInstruction(Fetched, op, mode))
<1> DEFINE op == Stores[Opcode][2]
           mode == Stores[Opcode][3]
<1>1. op \in StoreOps /\ mode \in MemoryModes
  BY StoresNamed DEF RunStore, Ready, Named
<1>2. Does(op, StoreInstruction(Fetched, op, mode))
  BY DEF RunStore
<1>3. Ran(Fetched, 1)
  BY FetchedIs DEF Types
<1> HIDE DEF op, mode
<1>4. Exact(StoreInstruction(Fetched, op, mode))
  BY <1>1, <1>3, StoreInstructionIs
<1> QED
  BY <1>1, <1>2, <1>4, DoesIs

LEMMA UnstableStep ==
  ASSUME Types, RunUnstable
  PROVE  \E op \in UnstableOps, mode \in MemoryModes : Step(op, UnstableInstruction(Fetched, op, mode))
<1> DEFINE op == Unstable[Opcode][2]
           mode == Unstable[Opcode][3]
<1>1. op \in UnstableOps /\ mode \in MemoryModes
  BY UnstableNamed DEF RunUnstable, Ready, Named
<1>2. Does(op, UnstableInstruction(Fetched, op, mode))
  BY DEF RunUnstable
<1>3. Ran(Fetched, 1)
  BY FetchedIs DEF Types
<1> HIDE DEF op, mode
<1>4. Exact(UnstableInstruction(Fetched, op, mode))
  BY <1>1, <1>3, UnstableInstructionIs
<1> QED
  BY <1>1, <1>2, <1>4, DoesIs

LEMMA ModifyStep ==
  ASSUME Types, RunModify
  PROVE  \E op \in ModifyOps, mode \in MemoryModes : Step(op, ModifyInstruction(Fetched, op, mode))
<1> DEFINE op == Modifies[Opcode][2]
           mode == Modifies[Opcode][3]
<1>1. op \in ModifyOps /\ mode \in MemoryModes
  BY ModifiesNamed DEF RunModify, Ready, Named
<1>2. Does(op, ModifyInstruction(Fetched, op, mode))
  BY DEF RunModify
<1>3. Ran(Fetched, 1)
  BY FetchedIs DEF Types
<1> HIDE DEF op, mode
<1>4. Exact(ModifyInstruction(Fetched, op, mode))
  BY <1>1, <1>3, ModifyInstructionIs
<1> QED
  BY <1>1, <1>2, <1>4, DoesIs

LEMMA OtherStep ==
  ASSUME Types, RunShift \/ RunRegister \/ RunBranch \/ RunJam
  PROVE  \E op \in OtherOps : \E q : Step(op, q)
<1>1. Ran(Fetched, 1)
  BY FetchedIs DEF Types
<1>2. CASE RunShift
  <2> DEFINE op == AccumulatorShifts[Opcode][2]
             r == AccumulatorShifts[Opcode]
  <2>1. r \in {<<10, "ASL">>, <<42, "ROL">>, <<74, "LSR">>, <<106, "ROR">>}
    BY <1>2, TableIs DEF RunShift, Ready, AccumulatorShifts
  <2>2. op \in {"ASL", "ROL", "LSR", "ROR"}
    BY <2>1
  <2>3. op \in ModifyOps /\ op \in OtherOps
    BY <2>2 DEF ModifyOps, OtherOps
  <2>4. Does(op, ShiftInstruction(Fetched, op))
    BY <1>2 DEF RunShift
  <2> HIDE DEF op
  <2>5. Exact(ShiftInstruction(Fetched, op))
    BY <1>1, <2>3, ShiftInstructionIs
  <2> QED
    BY <2>3, <2>4, <2>5, DoesIs
<1>3. CASE RunRegister
  <2> DEFINE op == Registers[Opcode][2]
  <2>1. op \in RegisterOps
    BY <1>3, RegistersNamed DEF RunRegister, Ready
  <2>2. Does(op, RegisterInstruction(Fetched, op))
    BY <1>3 DEF RunRegister
  <2> HIDE DEF op
  <2>3. Exact(RegisterInstruction(Fetched, op))
    BY <1>1, <2>1, RegisterInstructionIs
  <2>4. op \in OtherOps
    BY <2>1 DEF OtherOps
  <2> QED
    BY <2>2, <2>3, <2>4, DoesIs
<1>4. CASE RunBranch
  <2> DEFINE q == BranchInstruction(Fetched, Branches[Opcode][2], Branches[Opcode][3])
  <2>1. Does("branch", q)
    BY <1>4 DEF RunBranch
  <2>2. Exact(q)
    BY <1>1, BranchInstructionIs
  <2> HIDE DEF q
  <2> QED
    BY <2>1, <2>2, DoesIs DEF OtherOps
<1>5. CASE RunJam
  <2>1. Does("JAM", Jam(Fetched))
    BY <1>5 DEF RunJam
  <2>2. Exact(Jam(Fetched))
    BY <1>1, JamIs
  <2> QED
    BY <2>1, <2>2, DoesIs DEF OtherOps
<1> QED
  BY <1>2, <1>3, <1>4, <1>5

LEMMA JumpStep ==
  ASSUME Types, RunJump
  PROVE  \/ Step("JMP", JmpAbs(Fetched)) \/ Step("JMP", JmpInd(Fetched))
         \/ Step("JSR", Jsr(Fetched)) \/ Step("RTS", Rts(Fetched))
         \/ Step("BRK", Brk(Fetched)) \/ Step("RTI", Rti(Fetched))
<1>1. Ran(Fetched, 1)
  BY FetchedIs DEF Types
<1>2. /\ Exact(JmpAbs(Fetched)) /\ Exact(JmpInd(Fetched)) /\ Exact(Jsr(Fetched)) /\ Exact(Rts(Fetched))
      /\ Exact(Brk(Fetched)) /\ Exact(Rti(Fetched))
  BY <1>1, JumpsAre, JsrIs, RtsIs, BrkIs, RtiIs
<1> QED
  BY <1>2, DoesIs DEF RunJump

LEMMA StackStep ==
  ASSUME Types, RunStack
  PROVE  \/ Step("PHA", Pha(Fetched)) \/ Step("PHP", Php(Fetched))
         \/ Step("PLA", Pla(Fetched)) \/ Step("PLP", Plp(Fetched))
<1>1. Ran(Fetched, 1)
  BY FetchedIs DEF Types
<1>2. Exact(Pha(Fetched)) /\ Exact(Php(Fetched)) /\ Exact(Pla(Fetched)) /\ Exact(Plp(Fetched))
  BY <1>1, PushesAre, PullsAre
<1> QED
  BY <1>2, DoesIs DEF RunStack

\* Every step but a reset runs an instruction.
LEMMA EveryStep ==
  ASSUME Types, CpuNext, ~ Reset
  PROVE  \E name \in Names : \E q : Step(name, q)
<1>1. CASE RunRead \/ RunStore \/ RunUnstable \/ RunModify
  BY <1>1, ReadStep, StoreStep, UnstableStep, ModifyStep DEF Names
<1>2. CASE RunShift \/ RunRegister \/ RunBranch \/ RunJam
  BY <1>2, OtherStep DEF Names
<1>3. CASE RunJump \/ RunStack
  BY <1>3, JumpStep, StackStep DEF Names, StackOps
<1> QED
  BY <1>1, <1>2, <1>3 DEF CpuNext

------------------------------------------------------------------------------
(* Types, and CyclesExact.                                                 *)

LEMMA ResetIs ==
  ASSUME Types, Reset
  PROVE  m' \in Machine /\ ran' = Append(ran, "reset") /\ start' = start
<1> DEFINE s == Byte(m.s + 253)
           p == m.p \cup {"I"}
           log == [i \in 1 .. 6 |-> <<"idle", 0>>]
           low == [m EXCEPT !.s = s, !.p = p, !.jammed = FALSE, !.log = log]
           lo == Read(low, 65532)
           hi == Read(lo, 65533)
           to == Addr(lo.data, hi.data)
<1>1. m' = [hi EXCEPT !.pc = to] /\ ran' = Append(ran, "reset") /\ start' = start
  BY DEF Reset
<1>2. m \in Machine /\ m.s \in Int /\ m.p \in SUBSET Flags
  BY MachineFields, InByteValues DEF Types
<1>3. s \in ByteValues
  BY <1>2, ByteFacts
<1>4. p \in SUBSET Flags
  BY <1>2 DEF Flags
<1>5. log \in Log
  <2>1. 0 \in Addresses
    BY InAddresses
  <2>2. <<"idle", 0>> \in {"read", "write", "idle"} \X Addresses
    BY <2>1
  <2> DEFINE E == {"read", "write", "idle"} \X Addresses
             idle == <<"idle", 0>>
  <2>3. idle \in E
    BY <2>2
  <2> HIDE DEF E, idle
  <2>4. [i \in 1 .. 6 |-> idle] \in Seq(E)
    BY <2>3, IsASeq, SMT
  <2> QED
    BY <2>4 DEF Log, E, idle
<1> HIDE DEF s, p, log
<1>6. low \in Machine
  BY <1>2, <1>3, <1>4, <1>5 DEF Machine
<1>7. ASSUME NEW q \in Machine, NEW addr \in Addresses
      PROVE  Read(q, addr) \in Machine
  <2> DEFINE new == Append(q.log, <<"read", addr>>)
             byte == Peek(q.mem, addr)
  <2>1. q.log \in Log /\ byte \in ByteValues
    BY MachineFields, PeekIs
  <2>2. new \in Log
    BY <2>1 DEF Log
  <2>3. Read(q, addr) = [q EXCEPT !.log = new, !.data = byte]
    BY DEF Read
  <2> HIDE DEF new, byte
  <2> DEFINE r == Read(q, addr)
  <2>4. r = [q EXCEPT !.log = new, !.data = byte]
    BY <2>3
  <2> HIDE DEF r
  <2>5. r \in Machine
    BY <2>1, <2>2, <2>4 DEF Machine
  <2> QED
    BY <2>5 DEF r
<1>8. 65532 \in Addresses /\ 65533 \in Addresses
  BY InAddresses
<1> HIDE DEF low
<1>9. lo \in Machine
  BY <1>6, <1>7, <1>8
<1> HIDE DEF lo
<1>10. hi \in Machine
  BY <1>7, <1>8, <1>9
<1> HIDE DEF hi
<1>11. to \in Addresses
  BY <1>9, <1>10, AddrFacts, MachineFields
<1> HIDE DEF to
<1>12. [hi EXCEPT !.pc = to] \in Machine
  BY <1>10, <1>11 DEF Machine
<1> QED
  BY <1>1, <1>12

LEMMA InitTypes == CpuAssumption /\ CpuInit => Types
<1> SUFFICES ASSUME CpuAssumption, CpuInit PROVE Types
  OBVIOUS
<1>1. PICK op \in Opcodes : m \in Machines(op)
  BY DEF CpuInit
<1>2. /\ m \in [a : ByteValues, x : ByteValues, y : ByteValues, s : ByteValues, p : SUBSET Flags,
                pc : Addresses, jammed : BOOLEAN, log : {<<>>}, data : ByteValues, ea : Addresses,
                crossed : BOOLEAN, claimed : Nat, mem : {m.mem}]
      /\ m.mem \in [cells : {m.mem.cells}, fill : ByteValues]
      /\ m.mem.cells \in [DOMAIN m.mem.cells -> ByteValues] /\ DOMAIN m.mem.cells \subseteq Addresses
  BY <1>1 DEF CpuAssumption
<1>3. m.mem.cells \in Cells
  BY <1>2 DEF Cells
<1>4. m.mem \in Memory
  BY <1>2, <1>3 DEF Memory
<1>5. <<>> \in Log
  BY DEF Log
<1>6. m \in Machine
  BY <1>2, <1>4, <1>5 DEF Machine
<1> QED
  BY <1>6 DEF Types, CpuInit

LEMMA NextTypes == Types /\ [CpuNext]_cpuVars => Types'
<1> SUFFICES ASSUME Types, [CpuNext]_cpuVars PROVE Types'
  OBVIOUS
<1>1. CASE Reset
  <2>1. m' \in Machine /\ ran' = Append(ran, "reset") /\ start' = start
    BY <1>1, ResetIs
  <2>2. "reset" \in Names /\ start \in Machine /\ ran \in Seq(Names)
    BY DEF Types, Names
  <2>3. Append(ran, "reset") \in Seq(Names)
    BY <2>2, LogFacts
  <2> QED
    BY <2>1, <2>2, <2>3 DEF Types
<1>2. CASE CpuNext /\ ~ Reset
  <2>0. PICK name \in Names : \E q : Step(name, q)
    BY <1>2, EveryStep
  <2>1. PICK q : Step(name, q)
    BY <2>0
  <2>2. q \in Machine /\ m' = q /\ ran' = Append(ran, name) /\ start' = start
    BY <2>1 DEF Step, Exact, Ran
  <2>3. m \in Machine /\ start \in Machine /\ ran \in Seq(Names)
    BY DEF Types
  <2>4. Append(ran, name) \in Seq(Names)
    BY <2>1, <2>3, LogFacts
  <2> QED
    BY <2>2, <2>3, <2>4 DEF Types
<1>3. CASE UNCHANGED cpuVars
  BY <1>3 DEF Types, cpuVars
<1> QED
  BY <1>1, <1>2, <1>3

LEMMA NextCycles == Types /\ CyclesExact /\ [CpuNext]_cpuVars => CyclesExact'
<1> SUFFICES ASSUME Types, CyclesExact, [CpuNext]_cpuVars PROVE CyclesExact'
  OBVIOUS
<1>1. CASE Reset
  <2>1. ran' = Append(ran, "reset") /\ ran \in Seq(Names)
    BY <1>1, ResetIs DEF Types
  <2>2. ran'[Len(ran')] = "reset"
    BY <2>1
  <2> QED
    BY <2>2 DEF CyclesExact
<1>2. CASE CpuNext /\ ~ Reset
  <2>0. PICK name \in Names : \E q : Step(name, q)
    BY <1>2, EveryStep
  <2>1. PICK q : Step(name, q)
    BY <2>0
  <2>2. m' = q /\ q.log \in Seq(Busy) /\ Len(q.log) = q.claimed
    BY <2>1 DEF Step, Exact, Ran
  <2>3. \A i \in DOMAIN q.log : q.log[i] \in Busy
    BY <2>2
  <2>4. \A e \in Busy : e[1] # "idle"
    BY DEF Busy
  <2> QED
    BY <2>2, <2>3, <2>4 DEF CyclesExact
<1>3. CASE UNCHANGED cpuVars
  BY <1>3 DEF CyclesExact, cpuVars
<1> QED
  BY <1>1, <1>2, <1>3

------------------------------------------------------------------------------
(***************************************************************************)
(* StackPairs speaks of two instructions, so what the first one left is    *)
(* part of the inductive invariant: the machine is the one at first, or it *)
(* has stacked the bytes that the second one wants, at the cells below.    *)
(***************************************************************************)

PushOps == {"JSR", "BRK", "PHA", "PHP"}
PullOps == {"RTS", "RTI", "PLA", "PLP"}

\* The byte n cells below the top of the stack that was.
Stacked(n, v) ==
  LET below == CASE n = 0 -> start.s [] n = 1 -> Dec(start.s) [] n = 2 -> Dec(Dec(start.s))
  IN Peek(m.mem, Stack(below)) = v

Back == Word(start.pc + 2)
Saved == StatusByte(start.p, TRUE)
Called == m.s = Dec(Dec(start.s)) /\ Stacked(0, Hi(Back)) /\ Stacked(1, Lo(Back))
Broken ==
  /\ m.s = Dec(Dec(Dec(start.s)))
  /\ Stacked(0, Hi(Back)) /\ Stacked(1, Lo(Back)) /\ Stacked(2, Saved)
Pushed(v) == m.s = Dec(start.s) /\ Stacked(0, v)

StackInv ==
  /\ ran = <<>> => m = start
  /\ ran = <<"JSR">> => Called
  /\ ran = <<"BRK">> => Broken
  /\ ran = <<"PHA">> => Pushed(start.a)
  /\ ran = <<"PHP">> => Pushed(Saved)
  /\ StackPairs

\* What a step makes of the record of what ran.
LEMMA Ending ==
  ASSUME NEW log \in Seq(Names), NEW name \in Names
  PROVE  /\ Append(log, name) # <<>>
         /\ \A x : Append(log, name) = <<x>> => log = <<>> /\ name = x
         /\ \A x, y : Append(log, name) = <<x, y>> => log = <<x>> /\ name = y
<1> DEFINE new == Append(log, name)
<1>1. Len(new) = Len(log) + 1 /\ new[Len(log) + 1] = name /\ Len(log) \in Nat
  OBVIOUS
<1>2. \A i \in 1 .. Len(log) : new[i] = log[i]
  OBVIOUS
<1> HIDE DEF new
<1>3. new # <<>>
  BY <1>1
<1>4. ASSUME NEW x, new = <<x>> PROVE log = <<>> /\ name = x
  <2>1. Len(log) = 0
    BY <1>1, <1>4
  <2> QED
    BY <1>1, <1>4, <2>1
<1>5. ASSUME NEW x, NEW y, new = <<x, y>> PROVE log = <<x>> /\ name = y
  <2>1. Len(<<x, y>>) = 2
    OBVIOUS
  <2>2. Len(log) = 1
    <3>1. Len(new) = 2
      BY <1>5, <2>1
    <3>2. \A n \in Nat : n + 1 = 2 => n = 1
      OBVIOUS
    <3> QED
      BY <1>1, <3>1, <3>2, Zenon
  <2>3. log[1] = x /\ name = y
    BY <1>1, <1>2, <1>5, <2>2
  <2> QED
    BY <2>2, <2>3
<1> QED
  BY <1>3, <1>4, <1>5 DEF new

\* The names that the other instructions have are none of a pair's.
LEMMA Unpaired ==
  /\ \A name \in ReadOps \cup StoreOps \cup UnstableOps \cup ModifyOps \cup OtherOps \cup {"JMP", "reset"} :
       name \in Names /\ name \notin PushOps \cup PullOps
  /\ \A name \in PushOps \cup PullOps : name \in Names
<1>1. \A name \in ReadOps : name \notin PushOps \cup PullOps
  BY DEF ReadOps, PushOps, PullOps
<1>2. \A name \in StoreOps \cup UnstableOps \cup ModifyOps : name \notin PushOps \cup PullOps
  BY DEF StoreOps, UnstableOps, ModifyOps, PushOps, PullOps
<1>3. \A name \in OtherOps \cup {"JMP", "reset"} : name \notin PushOps \cup PullOps
  BY DEF OtherOps, RegisterOps, PushOps, PullOps
<1>4. \A name \in PushOps \cup PullOps \cup {"JMP"} : name \in StackOps
  BY DEF StackOps, PushOps, PullOps
<1> QED
  BY <1>1, <1>2, <1>3, <1>4 DEF Names

LEMMA OthersKeepPairs ==
  ASSUME NEW name \in Names, name \notin PushOps \cup PullOps, ran \in Seq(Names), ran' = Append(ran, name)
  PROVE  StackInv'
<1>1. ran' # <<>>
  BY Ending
<1>2. ran' # <<"JSR">> /\ ran' # <<"BRK">> /\ ran' # <<"PHA">> /\ ran' # <<"PHP">>
  BY Ending DEF PushOps
<1>3. ran' # <<"JSR", "RTS">> /\ ran' # <<"BRK", "RTI">> /\ ran' # <<"PHA", "PLA">> /\ ran' # <<"PHP", "PLP">>
  BY Ending DEF PullOps
<1> QED
  BY <1>1, <1>2, <1>3 DEF StackInv, StackPairs

\* A push is the first step.
LEMMA PushKeepsPairs ==
  ASSUME NEW op \in PushOps, ran \in Seq(Names), ran' = Append(ran, op),
         ran = <<>> => /\ op = "JSR" => Called'
                       /\ op = "BRK" => Broken'
                       /\ op = "PHA" => Pushed(start.a)'
                       /\ op = "PHP" => Pushed(Saved)'
  PROVE  StackInv'
<1>1. op \in Names
  BY Unpaired
<1>2. ran' # <<>>
  BY <1>1, Ending
<1>3. ran' # <<"JSR", "RTS">> /\ ran' # <<"BRK", "RTI">> /\ ran' # <<"PHA", "PLA">> /\ ran' # <<"PHP", "PLP">>
  BY <1>1, Ending DEF PushOps
<1>4. ASSUME NEW x, ran' = <<x>> PROVE ran = <<>> /\ op = x
  <2>1. Append(ran, op) = <<x>>
    BY <1>4
  <2> QED
    BY <1>1, <2>1, Ending
<1> QED
  BY <1>2, <1>3, <1>4 DEF StackInv, StackPairs

\* A pull is the second step.
LEMMA PullKeepsPairs ==
  ASSUME NEW op \in PullOps, ran \in Seq(Names), ran' = Append(ran, op), start' = start,
         op = "RTS" /\ ran = <<"JSR">> => m'.s = start.s /\ m'.pc = Word(start.pc + 3),
         op = "RTI" /\ ran = <<"BRK">> => m'.s = start.s /\ m'.pc = Back /\ m'.p = start.p,
         op = "PLA" /\ ran = <<"PHA">> => m'.s = start.s /\ m'.a = start.a,
         op = "PLP" /\ ran = <<"PHP">> => m'.s = start.s /\ m'.p = start.p
  PROVE  StackInv'
<1>1. op \in Names
  BY Unpaired
<1>2. ran' # <<>>
  BY <1>1, Ending
<1>3. ran' # <<"JSR">> /\ ran' # <<"BRK">> /\ ran' # <<"PHA">> /\ ran' # <<"PHP">>
  BY <1>1, Ending DEF PullOps
<1>4. ASSUME NEW x, NEW y, ran' = <<x, y>> PROVE ran = <<x>> /\ op = y
  <2>1. Append(ran, op) = <<x, y>>
    BY <1>4
  <2> QED
    BY <1>1, <2>1, Ending
<1>5. StackPairs'
  <2>1. ran' = <<"JSR", "RTS">> => m'.s = start.s /\ m'.pc = Word(start.pc + 3)
    BY <1>4, Zenon
  <2>2. ran' = <<"BRK", "RTI">> => m'.s = start.s /\ m'.pc = Back /\ m'.p = start.p
    BY <1>4, Zenon
  <2>3. ran' = <<"PHA", "PLA">> => m'.s = start.s /\ m'.a = start.a
    BY <1>4, Zenon
  <2>4. ran' = <<"PHP", "PLP">> => m'.s = start.s /\ m'.p = start.p
    BY <1>4, Zenon
  <2> QED
    BY <2>1, <2>2, <2>3, <2>4, Zenon DEF StackPairs, Back
<1> QED
  BY <1>2, <1>3, <1>5, Zenon DEF StackInv

\* The cells that a call and a BRK write.
LEMMA CellsWritten ==
  ASSUME NEW mem \in Memory, NEW s \in ByteValues,
         NEW u \in ByteValues, NEW v \in ByteValues, NEW w \in ByteValues
  PROVE  LET one   == Poke(mem, Stack(s), u)
             two   == Poke(one, Stack(Dec(s)), v)
             three == Poke(two, Stack(Dec(Dec(s))), w)
         IN  /\ Peek(one, Stack(s)) = u
             /\ Peek(two, Stack(s)) = u /\ Peek(two, Stack(Dec(s))) = v
             /\ Peek(three, Stack(s)) = u /\ Peek(three, Stack(Dec(s))) = v
             /\ Peek(three, Stack(Dec(Dec(s)))) = w
<1> DEFINE a == Stack(s)
           b == Stack(Dec(s))
           c == Stack(Dec(Dec(s)))
           one == Poke(mem, a, u)
           two == Poke(one, b, v)
           three == Poke(two, c, w)
<1>1. /\ a \in Addresses /\ b \in Addresses /\ c \in Addresses
      /\ a # b /\ a # c /\ b # c
  BY StackSteps
<1> HIDE DEF a, b, c
<1>2. one \in Memory /\ Peek(one, a) = u
  BY <1>1, PokeIs
<1> HIDE DEF one
<1>3. two \in Memory /\ Peek(two, a) = u /\ Peek(two, b) = v
  BY <1>1, <1>2, PokeIs
<1> HIDE DEF two
<1>4. Peek(three, a) = u /\ Peek(three, b) = v /\ Peek(three, c) = w
  BY <1>1, <1>3, PokeIs
<1> QED
  BY <1>2, <1>3, <1>4 DEF one, two, three, a, b, c

\* The address that is stacked, and the one a return goes on at.
LEMMA WordSteps ==
  ASSUME NEW pc \in Addresses
  PROVE  /\ Word(Word(pc + 1) + 1) = Word(pc + 2) /\ Word(pc + 2) \in Addresses
         /\ Word(Word(pc + 2) + 1) = Word(pc + 3)
         /\ Hi(Word(pc + 2)) \in ByteValues /\ Lo(Word(pc + 2)) \in ByteValues
         /\ Addr(Lo(Word(pc + 2)), Hi(Word(pc + 2))) = Word(pc + 2)
<1>1. pc \in Int /\ pc + 2 \in Int
  BY InAddresses
<1>2. /\ Word(Word(pc + 1) + 1) = Word(pc + 2)
      /\ Word(Word(pc + 2) + 1) = Word(pc + 3)
  BY <1>1 DEF Word
<1>3. Word(pc + 2) \in Addresses
  BY <1>1, ByteFacts
<1> QED
  BY <1>2, <1>3, PcBytes

LEMMA FirstPush ==
  ASSUME Types, ran = <<>> => m = start
  PROVE  /\ ran = <<>> /\ Step("JSR", Jsr(Fetched)) => Called'
         /\ ran = <<>> /\ Step("BRK", Brk(Fetched)) => Broken'
         /\ ran = <<>> /\ Step("PHA", Pha(Fetched)) => Pushed(start.a)'
         /\ ran = <<>> /\ Step("PHP", Php(Fetched)) => Pushed(Saved)'
<1> SUFFICES ASSUME ran = <<>>
             PROVE  /\ Step("JSR", Jsr(Fetched)) => Called'
                    /\ Step("BRK", Brk(Fetched)) => Broken'
                    /\ Step("PHA", Pha(Fetched)) => Pushed(start.a)'
                    /\ Step("PHP", Php(Fetched)) => Pushed(Saved)'
  OBVIOUS
<1> DEFINE q == Fetched
           mem == start.mem
           s == start.s
<1>1. start \in Machine /\ m = start
  BY DEF Types
<1>2. /\ Ran(q, 1) /\ q.pc = Word(start.pc + 1) /\ q.s = s /\ q.mem = mem
      /\ q.a = start.a /\ q.p = start.p
  BY <1>1, FetchedIs
<1> HIDE DEF q
<1>3. mem \in Memory /\ s \in ByteValues /\ start.a \in ByteValues /\ start.p \in SUBSET Flags /\ start.pc \in Addresses
  BY <1>1, MachineFields
<1>4. Saved \in ByteValues
  BY <1>3, StatusByteFacts DEF Saved
<1>5. Word(q.pc + 1) = Back /\ Hi(Back) \in ByteValues /\ Lo(Back) \in ByteValues
  BY <1>2, <1>3, WordSteps DEF Back
<1>6. ASSUME Step("JSR", Jsr(q)) PROVE Called'
  <2>1. start' = start /\ m' = Jsr(q)
    BY <1>6 DEF Step
  <2>2. /\ m'.s = Dec(Dec(s))
        /\ m'.mem = Poke(Poke(mem, Stack(s), Hi(Back)), Stack(Dec(s)), Lo(Back))
    BY <1>2, <1>5, <2>1, JsrIs
  <2>3. Peek(m'.mem, Stack(s)) = Hi(Back) /\ Peek(m'.mem, Stack(Dec(s))) = Lo(Back)
    BY <1>3, <1>5, <2>2, CellsWritten
  <2> QED
    BY <2>1, <2>2, <2>3 DEF Called, Stacked, Back
<1>7. ASSUME Step("BRK", Brk(q)) PROVE Broken'
  <2>1. start' = start /\ m' = Brk(q)
    BY <1>7 DEF Step
  <2>2. /\ m'.s = Dec(Dec(Dec(s)))
        /\ m'.mem = Poke(Poke(Poke(mem, Stack(s), Hi(Back)), Stack(Dec(s)), Lo(Back)),
                         Stack(Dec(Dec(s))), Saved)
    BY <1>2, <1>5, <2>1, BrkIs DEF Saved
  <2>3. /\ Peek(m'.mem, Stack(s)) = Hi(Back) /\ Peek(m'.mem, Stack(Dec(s))) = Lo(Back)
        /\ Peek(m'.mem, Stack(Dec(Dec(s)))) = Saved
    BY <1>3, <1>4, <1>5, <2>2, CellsWritten
  <2>4. Saved' = Saved
    BY <2>1, Zenon DEF Saved
  <2> QED
    BY <2>1, <2>2, <2>3, <2>4 DEF Broken, Stacked, Back
<1>8. ASSUME Step("PHA", Pha(q)) PROVE Pushed(start.a)'
  <2>1. start' = start /\ m' = Pha(q)
    BY <1>8 DEF Step
  <2>2. m'.s = Dec(s) /\ m'.mem = Poke(mem, Stack(s), start.a)
    BY <1>2, <2>1, PushesAre
  <2>3. Peek(m'.mem, Stack(s)) = start.a
    BY <1>3, <2>2, CellsWritten
  <2> QED
    BY <2>1, <2>2, <2>3 DEF Pushed, Stacked
<1>9. ASSUME Step("PHP", Php(q)) PROVE Pushed(Saved)'
  <2>1. start' = start /\ m' = Php(q)
    BY <1>9 DEF Step
  <2>2. m'.s = Dec(s) /\ m'.mem = Poke(mem, Stack(s), Saved)
    BY <1>2, <2>1, PushesAre DEF Saved
  <2>3. Peek(m'.mem, Stack(s)) = Saved
    BY <1>3, <1>4, <2>2, CellsWritten
  <2>4. Saved' = Saved
    BY <2>1, Zenon DEF Saved
  <2> QED
    BY <2>1, <2>2, <2>3, <2>4 DEF Pushed, Stacked
<1> QED
  BY <1>6, <1>7, <1>8, <1>9 DEF q

LEMMA SecondPull ==
  ASSUME Types
  PROVE  /\ Called /\ Step("RTS", Rts(Fetched)) => m'.s = start.s /\ m'.pc = Word(start.pc + 3)
         /\ Broken /\ Step("RTI", Rti(Fetched)) => m'.s = start.s /\ m'.pc = Back /\ m'.p = start.p
         /\ Pushed(start.a) /\ Step("PLA", Pla(Fetched)) => m'.s = start.s /\ m'.a = start.a
         /\ Pushed(Saved) /\ Step("PLP", Plp(Fetched)) => m'.s = start.s /\ m'.p = start.p
<1> DEFINE q == Fetched
           s == start.s
<1>1. start \in Machine /\ m \in Machine
  BY DEF Types
<1>2. Ran(q, 1) /\ q.s = m.s /\ q.mem = m.mem
  BY <1>1, FetchedIs
<1> HIDE DEF q
<1>3. s \in ByteValues /\ start.p \in SUBSET Flags /\ start.pc \in Addresses
  BY <1>1, MachineFields
<1>4. StatusOf(Saved) = start.p
  BY <1>3, StatusByteFacts DEF Saved
<1>5. Word(Back + 1) = Word(start.pc + 3) /\ Addr(Lo(Back), Hi(Back)) = Back
  BY <1>3, WordSteps DEF Back
<1>6. /\ Inc(Dec(s)) = s
      /\ Inc(Inc(Dec(Dec(s)))) = s /\ Inc(Dec(Dec(s))) = Dec(s)
      /\ Inc(Dec(Dec(Dec(s)))) = Dec(Dec(s)) /\ Inc(Inc(Dec(Dec(Dec(s))))) = Dec(s)
      /\ Inc(Inc(Inc(Dec(Dec(Dec(s)))))) = s
  BY <1>3, StackSteps
<1> HIDE DEF s
<1>7. ASSUME Called, Step("RTS", Rts(q)) PROVE m'.s = start.s /\ m'.pc = Word(start.pc + 3)
  <2>1. m' = Rts(q)
    BY <1>7 DEF Step
  <2>2. q.s = Dec(Dec(s)) /\ Peek(q.mem, Stack(s)) = Hi(Back) /\ Peek(q.mem, Stack(Dec(s))) = Lo(Back)
    BY <1>2, <1>7 DEF Called, Stacked, s
  <2>3. /\ Rts(q).s = Inc(Inc(q.s))
        /\ Rts(q).pc = Word(Addr(Peek(q.mem, Stack(Inc(q.s))), Peek(q.mem, Stack(Inc(Inc(q.s))))) + 1)
    BY <1>2, RtsIs
  <2>4. Rts(q).s = s /\ Rts(q).pc = Word(Addr(Lo(Back), Hi(Back)) + 1)
    BY <1>6, <2>2, <2>3
  <2> QED
    BY <1>5, <2>1, <2>4 DEF s
<1>8. ASSUME Broken, Step("RTI", Rti(q)) PROVE m'.s = start.s /\ m'.pc = Back /\ m'.p = start.p
  <2>1. m' = Rti(q)
    BY <1>8 DEF Step
  <2>2. /\ q.s = Dec(Dec(Dec(s))) /\ Peek(q.mem, Stack(s)) = Hi(Back) /\ Peek(q.mem, Stack(Dec(s))) = Lo(Back)
        /\ Peek(q.mem, Stack(Dec(Dec(s)))) = Saved
    BY <1>2, <1>8 DEF Broken, Stacked, s
  <2>3. /\ Rti(q).s = Inc(Inc(Inc(q.s)))
        /\ Rti(q).p = StatusOf(Peek(q.mem, Stack(Inc(q.s))))
        /\ Rti(q).pc = Addr(Peek(q.mem, Stack(Inc(Inc(q.s)))), Peek(q.mem, Stack(Inc(Inc(Inc(q.s))))))
    BY <1>2, RtiIs
  <2>4. Rti(q).s = s /\ Rti(q).p = StatusOf(Saved) /\ Rti(q).pc = Addr(Lo(Back), Hi(Back))
    BY <1>6, <2>2, <2>3
  <2> QED
    BY <1>4, <1>5, <2>1, <2>4 DEF s
<1>9. ASSUME Pushed(start.a), Step("PLA", Pla(q)) PROVE m'.s = start.s /\ m'.a = start.a
  <2>1. m' = Pla(q)
    BY <1>9 DEF Step
  <2>2. q.s = Dec(s) /\ Peek(q.mem, Stack(s)) = start.a
    BY <1>2, <1>9 DEF Pushed, Stacked, s
  <2>3. Pla(q).s = Inc(q.s) /\ Pla(q).a = Peek(q.mem, Stack(Inc(q.s)))
    BY <1>2, PullsAre
  <2> QED
    BY <1>6, <2>1, <2>2, <2>3 DEF s
<1>10. ASSUME Pushed(Saved), Step("PLP", Plp(q)) PROVE m'.s = start.s /\ m'.p = start.p
  <2>1. m' = Plp(q)
    BY <1>10 DEF Step
  <2>2. q.s = Dec(s) /\ Peek(q.mem, Stack(s)) = Saved
    BY <1>2, <1>10 DEF Pushed, Stacked, s
  <2>3. Plp(q).s = Inc(q.s) /\ Plp(q).p = StatusOf(Peek(q.mem, Stack(Inc(q.s))))
    BY <1>2, PullsAre
  <2> QED
    BY <1>4, <1>6, <2>1, <2>2, <2>3 DEF s
<1> QED
  BY <1>7, <1>8, <1>9, <1>10, Zenon DEF q

LEMMA InitPairs == CpuInit => StackInv
<1> SUFFICES ASSUME CpuInit PROVE StackInv
  OBVIOUS
<1>1. ran = <<>> /\ start = m
  BY DEF CpuInit
<1>2. /\ <<>> # <<"JSR">> /\ <<>> # <<"BRK">> /\ <<>> # <<"PHA">> /\ <<>> # <<"PHP">>
      /\ <<>> # <<"JSR", "RTS">> /\ <<>> # <<"BRK", "RTI">> /\ <<>> # <<"PHA", "PLA">> /\ <<>> # <<"PHP", "PLP">>
  OBVIOUS
<1> QED
  BY <1>1, <1>2 DEF StackInv, StackPairs

LEMMA StepPairs ==
  ASSUME Types, StackInv, NEW name \in Names, NEW q, Step(name, q),
         name = "JSR" => q = Jsr(Fetched), name = "RTS" => q = Rts(Fetched),
         name = "BRK" => q = Brk(Fetched), name = "RTI" => q = Rti(Fetched),
         name = "PHA" => q = Pha(Fetched), name = "PLA" => q = Pla(Fetched),
         name = "PHP" => q = Php(Fetched), name = "PLP" => q = Plp(Fetched)
  PROVE  StackInv'
<1>1. ran \in Seq(Names) /\ ran' = Append(ran, name) /\ start' = start
  BY DEF Types, Step
<1>2. CASE name \notin PushOps \cup PullOps
  BY <1>1, <1>2, OthersKeepPairs
<1>3. CASE name \in PushOps
  <2>1. ran = <<>> => m = start
    BY DEF StackInv
  <2>2. ASSUME ran = <<>>, name = "JSR" PROVE Called'
    BY <2>1, <2>2, FirstPush, Zenon
  <2>3. ASSUME ran = <<>>, name = "BRK" PROVE Broken'
    BY <2>1, <2>3, FirstPush, Zenon
  <2>4. ASSUME ran = <<>>, name = "PHA" PROVE Pushed(start.a)'
    BY <2>1, <2>4, FirstPush, Zenon
  <2>5. ASSUME ran = <<>>, name = "PHP" PROVE Pushed(Saved)'
    BY <2>1, <2>5, FirstPush, Zenon
  <2> QED
    BY <1>1, <1>3, <2>2, <2>3, <2>4, <2>5, PushKeepsPairs, Zenon
<1>4. CASE name \in PullOps
  <2>1. ASSUME name = "RTS", ran = <<"JSR">> PROVE m'.s = start.s /\ m'.pc = Word(start.pc + 3)
    BY <2>1, SecondPull, Zenon DEF StackInv
  <2>2. ASSUME name = "RTI", ran = <<"BRK">> PROVE m'.s = start.s /\ m'.pc = Back /\ m'.p = start.p
    BY <2>2, SecondPull, Zenon DEF StackInv
  <2>3. ASSUME name = "PLA", ran = <<"PHA">> PROVE m'.s = start.s /\ m'.a = start.a
    BY <2>3, SecondPull, Zenon DEF StackInv
  <2>4. ASSUME name = "PLP", ran = <<"PHP">> PROVE m'.s = start.s /\ m'.p = start.p
    BY <2>4, SecondPull, Zenon DEF StackInv
  <2> QED
    BY <1>1, <1>4, <2>1, <2>2, <2>3, <2>4, PullKeepsPairs, Zenon
<1> QED
  BY <1>2, <1>3, <1>4

LEMMA NextPairs == Types /\ StackInv /\ [CpuNext]_cpuVars => StackInv'
<1> SUFFICES ASSUME Types, StackInv, [CpuNext]_cpuVars PROVE StackInv'
  OBVIOUS
<1>1. ASSUME NEW name \in ReadOps \cup StoreOps \cup UnstableOps \cup ModifyOps \cup OtherOps \cup {"JMP", "reset"},
             ran' = Append(ran, name)
      PROVE  StackInv'
  <2>1. name \in Names /\ name \notin PushOps \cup PullOps
    BY <1>1, Unpaired
  <2>2. ran \in Seq(Names)
    BY DEF Types
  <2> QED
    BY <1>1, <2>1, <2>2, OthersKeepPairs
<1>2. CASE RunRead \/ RunStore \/ RunUnstable \/ RunModify
  <2>1. \E op \in ReadOps \cup StoreOps \cup UnstableOps \cup ModifyOps : ran' = Append(ran, op)
    BY <1>2, ReadStep, StoreStep, UnstableStep, ModifyStep DEF Step
  <2> QED
    BY <1>1, <2>1
<1>3. CASE RunShift \/ RunRegister \/ RunBranch \/ RunJam
  <2>1. \E op \in OtherOps : ran' = Append(ran, op)
    BY <1>3, OtherStep DEF Step
  <2> QED
    BY <1>1, <2>1
<1>4. CASE Reset
  BY <1>1, <1>4, ResetIs
<1>5. ASSUME NEW op \in PushOps \cup PullOps, NEW q, Step(op, q),
             op = "JSR" => q = Jsr(Fetched), op = "RTS" => q = Rts(Fetched),
             op = "BRK" => q = Brk(Fetched), op = "RTI" => q = Rti(Fetched),
             op = "PHA" => q = Pha(Fetched), op = "PLA" => q = Pla(Fetched),
             op = "PHP" => q = Php(Fetched), op = "PLP" => q = Plp(Fetched)
      PROVE  StackInv'
  <2>1. op \in Names
    BY Unpaired
  <2> QED
    BY <1>5, <2>1, StepPairs, Zenon
<1>6. CASE RunJump
  <2>1. ASSUME Step("JMP", JmpAbs(Fetched)) \/ Step("JMP", JmpInd(Fetched)) PROVE StackInv'
    BY <1>1, <2>1 DEF Step
  <2>2. ASSUME Step("JSR", Jsr(Fetched)) PROVE StackInv'
    BY <1>5, <2>2 DEF PushOps
  <2>3. ASSUME Step("RTS", Rts(Fetched)) PROVE StackInv'
    BY <1>5, <2>3 DEF PullOps
  <2>4. ASSUME Step("BRK", Brk(Fetched)) PROVE StackInv'
    BY <1>5, <2>4 DEF PushOps
  <2>5. ASSUME Step("RTI", Rti(Fetched)) PROVE StackInv'
    BY <1>5, <2>5 DEF PullOps
  <2> QED
    BY <1>6, <2>1, <2>2, <2>3, <2>4, <2>5, JumpStep
<1>7. CASE RunStack
  <2>1. ASSUME Step("PHA", Pha(Fetched)) PROVE StackInv'
    BY <1>5, <2>1 DEF PushOps
  <2>2. ASSUME Step("PHP", Php(Fetched)) PROVE StackInv'
    BY <1>5, <2>2 DEF PushOps
  <2>3. ASSUME Step("PLA", Pla(Fetched)) PROVE StackInv'
    BY <1>5, <2>3 DEF PullOps
  <2>4. ASSUME Step("PLP", Plp(Fetched)) PROVE StackInv'
    BY <1>5, <2>4 DEF PullOps
  <2> QED
    BY <1>7, <2>1, <2>2, <2>3, <2>4, StackStep
<1>8. CASE UNCHANGED cpuVars
  BY <1>8 DEF cpuVars, StackInv, StackPairs, Called, Broken, Pushed, Stacked, Back, Saved
<1> QED
  BY <1>2, <1>3, <1>4, <1>6, <1>7, <1>8 DEF CpuNext

------------------------------------------------------------------------------
(***************************************************************************)
(* UnofficialAgrees.  What the second half of a combination does depends   *)
(* on the accumulator and on the flags but N and Z, which it sets: two     *)
(* machines that agree on these are left alike.                            *)
(***************************************************************************)

Rest(p) == p \ {"N", "Z"}
Agree(q, t) == q.a = t.a /\ Rest(q.p) = Rest(t.p)
Accumulated(q, a, p) == [q EXCEPT !.a = a, !.p = p]
Alike(q, t, r, u) == \E a, p : r = Accumulated(q, a, p) /\ u = Accumulated(t, a, p)

LEMMA AccumulatedIs ==
  ASSUME NEW q \in Machine, NEW a, NEW p
  PROVE  /\ Accumulated(q, a, p).a = a /\ Accumulated(q, a, p).p = p
         /\ Accumulated(q, a, p).x = q.x /\ Accumulated(q, a, p).y = q.y /\ Accumulated(q, a, p).s = q.s
BY DEF Accumulated, Machine

LEMMA AlikeIs ==
  ASSUME NEW q \in Machine, NEW t \in Machine, NEW r, NEW u, Alike(q, t, r, u)
  PROVE  r.a = u.a /\ r.p = u.p /\ r.x = q.x /\ r.y = q.y /\ r.s = q.s
<1>1. PICK a, p : r = Accumulated(q, a, p) /\ u = Accumulated(t, a, p)
  BY DEF Alike
<1> QED
  BY <1>1, AccumulatedIs

LEMMA FlagsAgree ==
  ASSUME NEW p \in SUBSET Flags, NEW u \in SUBSET Flags, Rest(p) = Rest(u), NEW v
  PROVE  NZ(p, v) = NZ(u, v)
BY DEF With, NZ, Rest

LEMMA CarriesAgree ==
  ASSUME NEW p \in SUBSET Flags, NEW u \in SUBSET Flags, Rest(p) = Rest(u), NEW v, NEW c \in BOOLEAN
  PROVE  NZ(With(p, "C", c), v) = NZ(With(u, "C", c), v)
BY DEF With, NZ, Rest

LEMMA SumFlagsAgree ==
  ASSUME NEW p \in SUBSET Flags, NEW u \in SUBSET Flags, Rest(p) = Rest(u),
         NEW v, NEW c \in BOOLEAN, NEW o \in BOOLEAN
  PROVE  /\ NZ(With(With(p, "C", c), "V", o), v) = NZ(With(With(u, "C", c), "V", o), v)
         /\ With(With(NZ(p, v), "V", o), "C", c) = With(With(NZ(u, v), "V", o), "C", c)
BY DEF With, NZ, Rest

LEMMA DecimalFlagsAgree ==
  ASSUME NEW p \in SUBSET Flags, NEW u \in SUBSET Flags, Rest(p) = Rest(u),
         NEW c \in BOOLEAN, NEW o \in BOOLEAN, NEW z \in BOOLEAN, NEW n \in BOOLEAN
  PROVE  With(With(With(With(p, "Z", z), "N", n), "V", o), "C", c)
           = With(With(With(With(u, "Z", z), "N", n), "V", o), "C", c)
BY DEF With, Rest

LEMMA AgreeFacts ==
  ASSUME NEW q \in Machine, NEW t \in Machine, Agree(q, t)
  PROVE  C(q) = C(t) /\ ("D" \in q.p <=> "D" \in t.p) /\ q.p \in SUBSET Flags /\ t.p \in SUBSET Flags
<1>1. "C" \in q.p <=> "C" \in t.p
  BY DEF Agree, Rest
<1>2. "D" \in q.p <=> "D" \in t.p
  BY DEF Agree, Rest
<1> QED
  BY <1>1, <1>2, MachineFields DEF C, Flag

LEMMA LoadsAgree ==
  ASSUME NEW q \in Machine, NEW t \in Machine, Agree(q, t), NEW v
  PROVE  Alike(q, t, LoadA(q, v), LoadA(t, v))
<1>1. NZ(q.p, v) = NZ(t.p, v)
  BY AgreeFacts, FlagsAgree DEF Agree
<1>2. LoadA(q, v) = Accumulated(q, v, NZ(q.p, v)) /\ LoadA(t, v) = Accumulated(t, v, NZ(t.p, v))
  BY DEF LoadA, Accumulated
<1> QED
  BY <1>1, <1>2 DEF Alike

LEMMA ComparesAgree ==
  ASSUME NEW q \in Machine, NEW t \in Machine, Agree(q, t), NEW v
  PROVE  Alike(q, t, Compare(q, q.a, v), Compare(t, t.a, v))
<1> DEFINE c == q.a >= v
           d == Byte(q.a + 256 - v)
           p == NZ(With(q.p, "C", c), d)
           u == NZ(With(t.p, "C", c), d)
<1>1. c \in BOOLEAN /\ t.a = q.a
  BY DEF Agree
<1>2. Compare(q, q.a, v) = [q EXCEPT !.p = p]
  BY DEF Compare
<1>3. Compare(t, q.a, v) = [t EXCEPT !.p = u]
  BY DEF Compare
<1> HIDE DEF c, d
<1>4. p = u
  BY <1>1, AgreeFacts, CarriesAgree DEF Agree
<1> HIDE DEF p, u
<1>5. [q EXCEPT !.p = p] = Accumulated(q, q.a, p) /\ [t EXCEPT !.p = u] = Accumulated(t, t.a, u)
  BY DEF Accumulated, Machine
<1> QED
  BY <1>1, <1>2, <1>3, <1>4, <1>5 DEF Alike

LEMMA BinariesAgree ==
  ASSUME NEW q \in Machine, NEW t \in Machine, Agree(q, t), NEW v
  PROVE  Alike(q, t, BinaryAdc(q, v), BinaryAdc(t, v))
<1> DEFINE sum == q.a + v + C(q)
           r == Byte(sum)
           c == sum > 255
           o == Overflows(q.a, v, r)
           p == NZ(With(With(q.p, "C", c), "V", o), r)
           u == NZ(With(With(t.p, "C", c), "V", o), r)
<1>1. c \in BOOLEAN /\ o \in BOOLEAN /\ t.a = q.a /\ C(t) = C(q)
  BY AgreeFacts DEF Agree, Overflows
<1>2. BinaryAdc(q, v) = Accumulated(q, r, p)
  BY DEF BinaryAdc, Accumulated
<1>3. BinaryAdc(t, v) = Accumulated(t, r, u)
  BY <1>1, Zenon DEF BinaryAdc, Accumulated
<1> HIDE DEF c, o, r
<1>4. q.p \in SUBSET Flags /\ t.p \in SUBSET Flags /\ Rest(q.p) = Rest(t.p)
  BY MachineFields DEF Agree
<1>5. p = u
  BY <1>1, <1>4, SumFlagsAgree
<1> HIDE DEF p, u
<1> QED
  BY <1>2, <1>3, <1>5 DEF Alike

LEMMA DecimalsAgree ==
  ASSUME NEW q \in Machine, NEW t \in Machine, Agree(q, t), NEW v
  PROVE  Alike(q, t, DecimalAdc(q, v), DecimalAdc(t, v))
<1> DEFINE low(a, k) == (a % 16) + (v % 16) + k
           digit(a, k) == IF low(a, k) > 9 THEN ((low(a, k) + 6) % 16) + 16 ELSE low(a, k)
           high(a, k) == 16 * (a \div 16) + 16 * (v \div 16) + digit(a, k)
           middle(a, k) == Byte(high(a, k))
           result(a, k) == IF high(a, k) >= \hA0 THEN high(a, k) + \h60 ELSE high(a, k)
           r(a, k) == Byte(result(a, k))
           z(a, k) == Byte(a + v + k) = 0
           n(a, k) == middle(a, k) >= 128
           o(a, k) == Overflows(a, v, middle(a, k))
           c(a, k) == result(a, k) >= 256
           flags(p, a, k) == With(With(With(With(p, "Z", z(a, k)), "N", n(a, k)), "V", o(a, k)), "C", c(a, k))
<1>1. t.a = q.a /\ C(t) = C(q)
  BY AgreeFacts DEF Agree
<1>2. \A a, k : c(a, k) \in BOOLEAN /\ o(a, k) \in BOOLEAN /\ z(a, k) \in BOOLEAN /\ n(a, k) \in BOOLEAN
  BY DEF Overflows
<1>3. DecimalAdc(q, v) = Accumulated(q, r(q.a, C(q)), flags(q.p, q.a, C(q)))
  BY Zenon DEF DecimalAdc, Accumulated
<1>4. DecimalAdc(t, v) = Accumulated(t, r(t.a, C(t)), flags(t.p, t.a, C(t)))
  BY Zenon DEF DecimalAdc, Accumulated
<1> HIDE DEF c, o, r, z, n
<1>5. flags(q.p, q.a, C(q)) = flags(t.p, q.a, C(q))
  BY <1>2, AgreeFacts, DecimalFlagsAgree DEF Agree
<1> HIDE DEF flags
<1>6. DecimalAdc(t, v) = Accumulated(t, r(q.a, C(q)), flags(q.p, q.a, C(q)))
  BY <1>1, <1>4, <1>5, Zenon
<1> QED
  BY <1>3, <1>6 DEF Alike

LEMMA DifferencesAgree ==
  ASSUME NEW q \in Machine, NEW t \in Machine, Agree(q, t), NEW v
  PROVE  Alike(q, t, DecimalSbc(q, v), DecimalSbc(t, v))
<1> DEFINE bin(a, k) == Byte(a + (255 - v) + k)
           al(a, k) == (a % 16) - (v % 16) - (1 - k)
           ah(a, k) == (a \div 16) - (v \div 16) - Flag(al(a, k) < 0)
           low(a, k) == (IF al(a, k) < 0 THEN al(a, k) - 6 ELSE al(a, k)) % 16
           high(a, k) == (IF ah(a, k) < 0 THEN ah(a, k) - 6 ELSE ah(a, k)) % 16
           r(a, k) == 16 * high(a, k) + low(a, k)
           o(a, k) == Overflows(a, 255 - v, bin(a, k))
           c(a, k) == ah(a, k) >= 0
           flags(p, a, k) == With(With(NZ(p, bin(a, k)), "V", o(a, k)), "C", c(a, k))
<1>1. t.a = q.a /\ C(t) = C(q)
  BY AgreeFacts DEF Agree
<1>2. \A a, k : c(a, k) \in BOOLEAN /\ o(a, k) \in BOOLEAN
  BY DEF Overflows
<1>3. DecimalSbc(q, v) = Accumulated(q, r(q.a, C(q)), flags(q.p, q.a, C(q)))
  BY Zenon DEF DecimalSbc, Accumulated
<1>4. DecimalSbc(t, v) = Accumulated(t, r(t.a, C(t)), flags(t.p, t.a, C(t)))
  BY Zenon DEF DecimalSbc, Accumulated
<1> HIDE DEF c, o, r, bin
<1>5. flags(q.p, q.a, C(q)) = flags(t.p, q.a, C(q))
  BY <1>2, AgreeFacts, SumFlagsAgree DEF Agree
<1> HIDE DEF flags
<1>6. DecimalSbc(t, v) = Accumulated(t, r(q.a, C(q)), flags(q.p, q.a, C(q)))
  BY <1>1, <1>4, <1>5, Zenon
<1> QED
  BY <1>3, <1>6 DEF Alike

LEMMA SumsAgree ==
  ASSUME NEW q \in Machine, NEW t \in Machine, Agree(q, t), NEW v
  PROVE  Alike(q, t, Adc(q, v), Adc(t, v)) /\ Alike(q, t, Sbc(q, v), Sbc(t, v))
BY AgreeFacts, BinariesAgree, DecimalsAgree, DifferencesAgree DEF Adc, Sbc

\* The first half: on the same byte and flags.
LEMMA PartsAre ==
  /\ DOMAIN Parts = {"SLO", "RLA", "SRE", "RRA", "DCP", "ISC"}
  /\ Parts["SLO"] = <<"ASL", "ORA">> /\ Parts["RLA"] = <<"ROL", "AND">> /\ Parts["SRE"] = <<"LSR", "EOR">>
  /\ Parts["RRA"] = <<"ROR", "ADC">> /\ Parts["DCP"] = <<"DEC", "CMP">> /\ Parts["ISC"] = <<"INC", "SBC">>
BY DEF Parts

LEMMA ShiftsAgree ==
  ASSUME NEW q \in Machine, NEW t \in Machine, q.p = t.p, NEW v \in ByteValues, NEW op \in DOMAIN Parts
  PROVE  LET r == Shift(q, v, op)
             first == Shift(t, v, Parts[op][1])
         IN  r.byte = first.byte /\ Rest(r.p) = Rest(first.p)
<1>1. C(q) = C(t) /\ q.p \in SUBSET Flags
  BY MachineFields DEF C
<1>2. ASSUME NEW p, NEW b PROVE Rest(NZ(p, b)) = Rest(p)
  BY DEF Rest, NZ, With
<1>3. CASE op = "SLO"
  <2>1. Parts[op][1] = "ASL"
    BY <1>3, PartsAre
  <2> QED
    BY <1>1, <1>3, <2>1 DEF Shift
<1>4. CASE op = "RLA"
  <2>1. Parts[op][1] = "ROL"
    BY <1>4, PartsAre
  <2> QED
    BY <1>1, <1>4, <2>1 DEF Shift
<1>5. CASE op = "SRE"
  <2>1. Parts[op][1] = "LSR"
    BY <1>5, PartsAre
  <2> QED
    BY <1>1, <1>5, <2>1 DEF Shift
<1>6. CASE op = "RRA"
  <2>1. Parts[op][1] = "ROR"
    BY <1>6, PartsAre
  <2> QED
    BY <1>1, <1>6, <2>1 DEF Shift
<1>7. CASE op = "DCP"
  <2>1. Parts[op][1] = "DEC"
    BY <1>7, PartsAre
  <2>2. Shift(q, v, op) = [byte |-> Dec(v), p |-> q.p]
    BY <1>7 DEF Shift
  <2>3. Shift(t, v, "DEC") = [byte |-> Dec(v), p |-> NZ(t.p, Dec(v))]
    BY DEF Shift
  <2> QED
    BY <1>2, <2>1, <2>2, <2>3
<1>8. CASE op = "ISC"
  <2>1. Parts[op][1] = "INC"
    BY <1>8, PartsAre
  <2>2. Shift(q, v, op) = [byte |-> Inc(v), p |-> q.p]
    BY <1>8 DEF Shift
  <2>3. Shift(t, v, "INC") = [byte |-> Inc(v), p |-> NZ(t.p, Inc(v))]
    BY DEF Shift
  <2> QED
    BY <1>2, <2>1, <2>2, <2>3
<1> QED
  BY <1>3, <1>4, <1>5, <1>6, <1>7, <1>8, PartsAre

\* The second half: on machines that agree.
LEMMA SecondsAgree ==
  ASSUME NEW q \in Machine, NEW t \in Machine, Agree(q, t), NEW v, NEW op \in DOMAIN Parts
  PROVE  Alike(q, t, Combined(op, q, v), Consume(Parts[op][2], t, v))
<1>1. q.a = t.a
  BY DEF Agree
<1>2. CASE op = "SLO"
  <2>1. Parts[op][2] = "ORA"
    BY <1>2, PartsAre
  <2>2. Combined("SLO", q, v) = LoadA(q, Or(t.a, v)) /\ Consume("ORA", t, v) = LoadA(t, Or(t.a, v))
    BY <1>1 DEF Combined, Consume
  <2> QED
    BY <1>2, <2>1, <2>2, LoadsAgree
<1>3. CASE op = "RLA"
  <2>1. Parts[op][2] = "AND"
    BY <1>3, PartsAre
  <2>2. Combined("RLA", q, v) = LoadA(q, And(t.a, v)) /\ Consume("AND", t, v) = LoadA(t, And(t.a, v))
    BY <1>1 DEF Combined, Consume
  <2> QED
    BY <1>3, <2>1, <2>2, LoadsAgree
<1>4. CASE op = "SRE"
  <2>1. Parts[op][2] = "EOR"
    BY <1>4, PartsAre
  <2>2. Combined("SRE", q, v) = LoadA(q, Xor(t.a, v)) /\ Consume("EOR", t, v) = LoadA(t, Xor(t.a, v))
    BY <1>1 DEF Combined, Consume
  <2> QED
    BY <1>4, <2>1, <2>2, LoadsAgree
<1>5. CASE op = "RRA"
  <2>1. Parts[op][2] = "ADC"
    BY <1>5, PartsAre
  <2>2. Combined("RRA", q, v) = Adc(q, v) /\ Consume("ADC", t, v) = Adc(t, v)
    BY DEF Combined, Consume
  <2> QED
    BY <1>5, <2>1, <2>2, SumsAgree
<1>6. CASE op = "DCP"
  <2>1. Parts[op][2] = "CMP"
    BY <1>6, PartsAre
  <2>2. Combined("DCP", q, v) = Compare(q, q.a, v) /\ Consume("CMP", t, v) = Compare(t, t.a, v)
    BY DEF Combined, Consume
  <2> QED
    BY <1>6, <2>1, <2>2, ComparesAgree
<1>7. CASE op = "ISC"
  <2>1. Parts[op][2] = "SBC"
    BY <1>7, PartsAre
  <2>2. Combined("ISC", q, v) = Sbc(q, v) /\ Consume("SBC", t, v) = Sbc(t, v)
    BY DEF Combined, Consume
  <2> QED
    BY <1>7, <2>1, <2>2, SumsAgree
<1> QED
  BY <1>2, <1>3, <1>4, <1>5, <1>6, <1>7, PartsAre

LEMMA ClaimKeeps ==
  ASSUME NEW q \in Machine, NEW mode, NEW accesses, NEW always \in BOOLEAN
  PROVE  /\ Same(q, Claim(q, mode, accesses, always))
         /\ Claim(q, mode, accesses, always).ea = q.ea /\ Claim(q, mode, accesses, always).data = q.data
<1> DEFINE n == 1 + OperandCycles(mode) + accesses
                  + Flag(mode \in {"absx", "absy", "indy"} /\ (q.crossed \/ always))
<1>1. Claim(q, mode, accesses, always) = [q EXCEPT !.claimed = n]
  BY DEF Claim
<1> HIDE DEF n
<1> QED
  BY <1>1 DEF Same, Machine

LEMMA CombinesAs ==
  ASSUME NEW q, Ran(q, 1), NEW op \in DOMAIN Parts, NEW mode \in MemoryModes, NEW t \in Machine, Same(t, q)
  PROVE  LET res    == ModifyInstruction(q, op, mode)
             first  == Shift(t, Peek(t.mem, res.ea), Parts[op][1])
             second == Consume(Parts[op][2], [t EXCEPT !.p = first.p], first.byte)
         IN  /\ res.a = second.a /\ res.p = second.p /\ res.x = t.x /\ res.y = t.y /\ res.s = t.s
             /\ Peek(res.mem, res.ea) = first.byte
<1> DEFINE at == Operand(q, mode, TRUE)
           k == OperandCycles(mode)
           f == Flag(mode \in IndexedByReads /\ (at.crossed \/ TRUE))
           got == Read(at, at.ea)
           r == Shift(got, got.data, op)
           w1 == Write(got, got.ea, got.data)
           w2 == Write(w1, got.ea, r.byte)
           set == [w2 EXCEPT !.p = r.p]
           done == Combined(op, set, r.byte)
           first == Shift(t, Peek(t.mem, at.ea), Parts[op][1])
           then == [t EXCEPT !.p = first.p]
           second == Consume(Parts[op][2], then, first.byte)
           res == Claim(done, mode, 3, TRUE)
<1>1. op \in ModifyOps /\ Parts[op][1] \in ModifyOps
  BY PartsAre DEF ModifyOps
<1>2. /\ Ran(at, 1 + k + f) /\ k \in Nat /\ f \in Nat /\ at.ea \in Addresses
      /\ Same(q, at) /\ at \in Machine
  BY PlaceIs
<1>3. ModifyInstruction(q, op, mode) = res
  BY DEF ModifyInstruction
<1> HIDE DEF at
<1>4. 1 + k + f \in Nat /\ 1 + k + f + 1 \in Nat /\ 1 + k + f + 1 + 1 \in Nat
  BY <1>2
<1>5. /\ Ran(got, 1 + k + f + 1) /\ Kept(at, got) /\ got.s = at.s /\ got.mem = at.mem
      /\ got.data = Peek(at.mem, at.ea)
  BY <1>2, <1>4, ReadIs
<1> HIDE DEF got, k, f
<1>6. got \in Machine /\ got.data \in ByteValues /\ got.mem \in Memory
  BY <1>5, MachineFields DEF Ran
<1>7. got.ea = at.ea /\ got.p = t.p /\ got.data = Peek(t.mem, at.ea) /\ Same(t, got)
  BY <1>2, <1>5 DEF Kept, Same
<1>8. r.byte \in ByteValues /\ r.p \in SUBSET Flags
  BY <1>1, <1>6, ShiftIs
<1>9. r.byte = first.byte /\ Rest(r.p) = Rest(first.p) /\ first.p \in SUBSET Flags
  <2>1. first = Shift(t, got.data, Parts[op][1])
    BY <1>7
  <2> HIDE DEF first
  <2>2. r.byte = first.byte /\ Rest(r.p) = Rest(first.p)
    BY <1>6, <1>7, <2>1, ShiftsAgree
  <2>3. first.p \in SUBSET Flags
    BY <1>1, <1>6, <2>1, ShiftIs
  <2> QED
    BY <2>2, <2>3
<1> HIDE DEF r, first
<1>10. Ran(w1, 1 + k + f + 1 + 1) /\ Kept(got, w1) /\ w1.s = got.s /\ w1.mem = Poke(got.mem, got.ea, got.data)
  BY <1>2, <1>4, <1>5, <1>6, <1>7, WriteIs
<1> HIDE DEF w1
<1>11. /\ Ran(w2, 1 + k + f + 1 + 1 + 1) /\ Kept(w1, w2) /\ w2.s = w1.s
       /\ w2.mem = Poke(w1.mem, got.ea, r.byte)
  BY <1>2, <1>4, <1>7, <1>8, <1>10, WriteIs
<1> HIDE DEF w2
<1>12. w1.mem \in Memory /\ w2 \in Machine /\ got.ea \in Addresses
  BY <1>2, <1>7, <1>10, <1>11, MachineFields DEF Ran
<1>13. Peek(w2.mem, at.ea) = first.byte
  BY <1>7, <1>8, <1>9, <1>11, <1>12, PokeIs
<1>14. w2.a = t.a /\ w2.x = t.x /\ w2.y = t.y /\ w2.s = t.s /\ w2.ea = at.ea
  BY <1>7, <1>10, <1>11 DEF Kept, Same
<1>15. /\ set \in Machine /\ set.p = r.p /\ set.a = w2.a /\ set.x = w2.x /\ set.y = w2.y /\ set.s = w2.s
       /\ set.mem = w2.mem /\ set.ea = w2.ea
  BY <1>8, <1>12 DEF Machine
<1> HIDE DEF set
<1>16. then \in Machine /\ then.p = first.p /\ then.a = t.a
  BY <1>9 DEF Machine
<1> HIDE DEF then
<1>17. Agree(set, then)
  BY <1>9, <1>14, <1>15, <1>16 DEF Agree
<1>18. Alike(set, then, done, second)
  BY <1>9, <1>15, <1>16, <1>17, SecondsAgree
<1>19. OnRegisters(set, done)
  BY <1>8, <1>15, CombinedIs
<1> HIDE DEF done, second
<1>20. done.a = second.a /\ done.p = second.p /\ done.x = t.x /\ done.y = t.y /\ done.s = t.s
  BY <1>14, <1>15, <1>16, <1>18, AlikeIs
<1>21. done.mem = w2.mem /\ done.ea = at.ea /\ done \in Machine
  BY <1>14, <1>15, <1>19 DEF OnRegisters
<1>22. Same(done, res) /\ res.ea = at.ea
  <2>1. Same(done, res) /\ res.ea = done.ea
    BY <1>21, ClaimKeeps
  <2> HIDE DEF res
  <2> QED
    BY <1>21, <2>1
<1> HIDE DEF res
<1>23. /\ res.a = second.a /\ res.p = second.p /\ res.x = t.x /\ res.y = t.y /\ res.s = t.s
       /\ Peek(res.mem, res.ea) = first.byte
  BY <1>13, <1>20, <1>21, <1>22 DEF Same
<1>24. first = Shift(t, Peek(t.mem, res.ea), Parts[op][1])
  BY <1>22 DEF first
<1>25. second = Consume(Parts[op][2], [t EXCEPT !.p = first.p], first.byte)
  BY DEF second, then
<1> QED
  BY <1>3, <1>23, <1>24, <1>25

\* Nothing has run yet on the machine at first.
UnofficialInv == (ran = <<>> => m = start) /\ UnofficialAgrees

LEMMA NoParts ==
  \A name \in ReadOps \cup StoreOps \cup UnstableOps \cup OtherOps \cup StackOps \cup {"reset"} : name \notin DOMAIN Parts
<1>1. \A name \in ReadOps : name \notin DOMAIN Parts
  BY PartsAre DEF ReadOps
<1>2. \A name \in StoreOps \cup UnstableOps : name \notin DOMAIN Parts
  BY PartsAre DEF StoreOps, UnstableOps
<1>3. \A name \in OtherOps : name \notin DOMAIN Parts
  BY PartsAre DEF OtherOps, RegisterOps
<1>4. \A name \in StackOps \cup {"reset"} : name \notin DOMAIN Parts
  BY PartsAre DEF StackOps
<1> QED
  BY <1>1, <1>2, <1>3, <1>4

\* A record of one instruction that a step ends.
LEMMA EndingOne ==
  ASSUME NEW log \in Seq(Names), NEW name \in Names, Len(Append(log, name)) = 1
  PROVE  log = <<>> /\ Append(log, name)[1] = name
<1>1. Len(Append(log, name)) = Len(log) + 1 /\ Append(log, name)[Len(log) + 1] = name /\ Len(log) \in Nat
  OBVIOUS
<1>2. \A n \in Nat : n + 1 = 1 => n = 0
  OBVIOUS
<1>3. Len(log) = 0
  BY <1>1, <1>2, Zenon
<1> QED
  BY <1>1, <1>3

LEMMA NextUnofficial == Types /\ UnofficialInv /\ [CpuNext]_cpuVars => UnofficialInv'
<1> SUFFICES ASSUME Types, UnofficialInv, [CpuNext]_cpuVars PROVE UnofficialInv'
  OBVIOUS
<1>1. ran \in Seq(Names) /\ start \in Machine /\ m \in Machine
  BY DEF Types
<1>2. ASSUME NEW name \in Names, name \notin DOMAIN Parts, ran' = Append(ran, name)
      PROVE  UnofficialInv'
  <2>1. Append(ran, name) # <<>>
    BY <1>1, Ending
  <2>2. Len(ran') = 1 => ran'[1] = name
    BY <1>1, <1>2, EndingOne
  <2> QED
    BY <1>2, <2>1, <2>2, Zenon DEF UnofficialInv, UnofficialAgrees
<1>3. CASE RunModify
  <2>1. PICK op \in ModifyOps, mode \in MemoryModes : Step(op, ModifyInstruction(Fetched, op, mode))
    BY <1>3, ModifyStep
  <2>2. m' = ModifyInstruction(Fetched, op, mode) /\ ran' = Append(ran, op) /\ start' = start
    BY <2>1 DEF Step
  <2>3. op \in Names
    BY DEF Names
  <2>4. CASE op \in DOMAIN Parts /\ ran = <<>>
    <3>1. Ran(Fetched, 1) /\ Same(start, Fetched)
      BY <1>1, <2>4, FetchedIs DEF UnofficialInv, Same
    <3> DEFINE first == Shift(start, Peek(start.mem, m'.ea), Parts[op][1])
               second == Consume(Parts[op][2], [start EXCEPT !.p = first.p], first.byte)
    <3>2. /\ m'.a = second.a /\ m'.p = second.p /\ m'.x = start.x /\ m'.y = start.y /\ m'.s = start.s
          /\ Peek(m'.mem, m'.ea) = first.byte
      BY <1>1, <2>2, <2>4, <3>1, CombinesAs
    <3>3. ran' = <<op>> /\ ran'[1] = op /\ ran' # <<>>
      BY <2>2, <2>4
    <3>4. UnofficialAgrees'
      <4> DEFINE one == Shift(start', Peek(start'.mem, m'.ea), Parts[ran'[1]][1])
                 two == Consume(Parts[ran'[1]][2], [start' EXCEPT !.p = one.p], one.byte)
      <4>1. one = first
        BY <2>2, <3>3, Zenon
      <4> HIDE DEF one, first
      <4>2. two = second
        BY <2>2, <3>3, <4>1, Zenon
      <4> HIDE DEF two, second
      <4>3. <<m'.a, m'.x, m'.y, m'.s, m'.p, Peek(m'.mem, m'.ea)>>
              = <<two.a, start'.x, start'.y, start'.s, two.p, one.byte>>
        BY <2>2, <3>2, <4>1, <4>2
      <4> QED
        BY <4>3 DEF UnofficialAgrees, one, two
    <3> QED
      BY <3>3, <3>4, Zenon DEF UnofficialInv
  <2>5. CASE op \in DOMAIN Parts /\ ran # <<>>
    <3>1. ran' # <<>> /\ Len(ran') # 1
      BY <1>1, <2>2, <2>3, <2>5, Ending, EndingOne
    <3> QED
      BY <3>1, Zenon DEF UnofficialInv, UnofficialAgrees
  <2> QED
    BY <1>2, <2>2, <2>3, <2>4, <2>5, Zenon
<1>4. ASSUME NEW name \in ReadOps \cup StoreOps \cup UnstableOps \cup OtherOps \cup StackOps \cup {"reset"},
             ran' = Append(ran, name)
      PROVE  UnofficialInv'
  <2>1. name \in Names /\ name \notin DOMAIN Parts
    BY NoParts DEF Names
  <2> QED
    BY <1>2, <1>4, <2>1, Zenon
<1>5. CASE RunRead \/ RunStore \/ RunUnstable
  <2>1. \E op \in ReadOps \cup StoreOps \cup UnstableOps : ran' = Append(ran, op)
    BY <1>5, ReadStep, StoreStep, UnstableStep DEF Step
  <2> QED
    BY <1>4, <2>1
<1>6. CASE RunShift \/ RunRegister \/ RunBranch \/ RunJam
  <2>1. \E op \in OtherOps : ran' = Append(ran, op)
    BY <1>6, OtherStep DEF Step
  <2> QED
    BY <1>4, <2>1
<1>7. CASE RunJump \/ RunStack
  <2>1. \E op \in StackOps : ran' = Append(ran, op)
    BY <1>7, JumpStep, StackStep DEF Step, StackOps
  <2> QED
    BY <1>4, <2>1
<1>8. CASE Reset
  BY <1>4, <1>8, ResetIs
<1>9. CASE UNCHANGED cpuVars
  BY <1>9, Zenon DEF cpuVars, UnofficialInv, UnofficialAgrees
<1> QED
  BY <1>3, <1>5, <1>6, <1>7, <1>8, <1>9 DEF CpuNext

------------------------------------------------------------------------------
(***************************************************************************)
(* SumsExact.  The sums are arithmetic on the digits of a byte; a machine  *)
(* on which ADC or SBC is the first to run has the registers and flags of  *)
(* the one at first when the operand arrives.                              *)
(***************************************************************************)

\* Binary: the flags of a sum, and of a difference as the sum of a complement.
LEMMA SumFlags ==
  ASSUME NEW p, NEW c \in BOOLEAN, NEW o \in BOOLEAN, NEW r
  PROVE  LET new == NZ(With(With(p, "C", c), "V", o), r)
         IN  ("C" \in new <=> c) /\ ("V" \in new <=> o) /\ ("N" \in new <=> r >= 128)
BY DEF NZ, With

LEMMA SignedSum ==
  ASSUME NEW a \in ByteValues, NEW v \in ByteValues, NEW c \in {0, 1}
  PROVE  LET r == Byte(a + v + c)
         IN  ((a >= 128) # (r >= 128) /\ (v >= 128) # (r >= 128)) <=> Signed(a) + Signed(v) + c \notin -128 .. 127
<1>1. a \in Int /\ 0 <= a /\ a <= 255 /\ v \in Int /\ 0 <= v /\ v <= 255
  BY InByteValues
<1>2. Byte(a + v + c) = IF a + v + c > 255 THEN a + v + c - 256 ELSE a + v + c
  BY <1>1 DEF Byte
<1> QED
  BY <1>1, <1>2 DEF Signed

LEMMA BinarySums ==
  ASSUME NEW q \in Machine, NEW v \in ByteValues
  PROVE  LET r == BinaryAdc(q, v)
         IN  /\ r.a = (q.a + v + C(q)) % 256
             /\ "C" \in r.p <=> q.a + v + C(q) > 255
             /\ "V" \in r.p <=> Signed(q.a) + Signed(v) + C(q) \notin -128 .. 127
             /\ "N" \in r.p <=> r.a >= 128
<1> DEFINE sum == q.a + v + C(q)
           r == Byte(sum)
           c == sum > 255
           o == Overflows(q.a, v, r)
           p == NZ(With(With(q.p, "C", c), "V", o), r)
<1>1. q.a \in ByteValues /\ C(q) \in {0, 1} /\ q.a + v + C(q) \in Int
  BY MachineFields, InByteValues DEF C, Flag
<1>2. r \in ByteValues
  BY <1>1, ByteFacts
<1>3. o <=> Signed(q.a) + Signed(v) + C(q) \notin -128 .. 127
  <2>1. o <=> (q.a >= 128) # (r >= 128) /\ (v >= 128) # (r >= 128)
    BY <1>1, <1>2, OverflowsIs
  <2> HIDE DEF o
  <2> QED
    BY <1>1, <2>1, SignedSum
<1>4. c \in BOOLEAN /\ o \in BOOLEAN
  BY DEF Overflows
<1>5. BinaryAdc(q, v) = Accumulated(q, r, p)
  BY DEF BinaryAdc, Accumulated
<1>6. r = sum % 256 /\ (c <=> sum > 255)
  BY DEF Byte
<1> HIDE DEF c, o, r, sum
<1>7. ("C" \in p <=> c) /\ ("V" \in p <=> o) /\ ("N" \in p <=> r >= 128)
  BY <1>4, SumFlags
<1> HIDE DEF p
<1>8. BinaryAdc(q, v).a = r /\ BinaryAdc(q, v).p = p
  BY <1>5, AccumulatedIs
<1>9. /\ BinaryAdc(q, v).a = sum % 256
      /\ "C" \in BinaryAdc(q, v).p <=> sum > 255
      /\ "V" \in BinaryAdc(q, v).p <=> Signed(q.a) + Signed(v) + C(q) \notin -128 .. 127
      /\ "N" \in BinaryAdc(q, v).p <=> BinaryAdc(q, v).a >= 128
  BY <1>3, <1>6, <1>7, <1>8
<1> QED
  BY <1>9 DEF sum

LEMMA BinaryDifferences ==
  ASSUME NEW q \in Machine, NEW v \in ByteValues
  PROVE  LET r == BinaryAdc(q, 255 - v)
         IN  /\ r.a = (q.a - v - (1 - C(q))) % 256
             /\ "C" \in r.p <=> q.a - v - (1 - C(q)) >= 0
             /\ "V" \in r.p <=> Signed(q.a) - Signed(v) - (1 - C(q)) \notin -128 .. 127
             /\ "N" \in r.p <=> r.a >= 128
<1> DEFINE a == q.a
           c == C(q)
           r == BinaryAdc(q, 255 - v)
<1>1. a \in Int /\ 0 <= a /\ a <= 255 /\ c \in {0, 1} /\ v \in Int /\ 0 <= v /\ v <= 255
  BY MachineFields, InByteValues DEF C, Flag
<1>2. 255 - v \in ByteValues
  BY <1>1, InByteValues
<1>3. /\ r.a = (a + (255 - v) + c) % 256
      /\ "C" \in r.p <=> a + (255 - v) + c > 255
      /\ "V" \in r.p <=> Signed(a) + Signed(255 - v) + c \notin -128 .. 127
      /\ "N" \in r.p <=> r.a >= 128
  BY <1>2, BinarySums
<1> HIDE DEF a, c, r
<1>4. (a + (255 - v) + c) % 256 = (a - v - (1 - c)) % 256
  BY <1>1
<1>5. a + (255 - v) + c > 255 <=> a - v - (1 - c) >= 0
  BY <1>1
<1>6. Signed(a) + Signed(255 - v) + c = Signed(a) - Signed(v) - (1 - c)
  BY <1>1 DEF Signed
<1>7. /\ r.a = (a - v - (1 - c)) % 256
      /\ "C" \in r.p <=> a - v - (1 - c) >= 0
      /\ "V" \in r.p <=> Signed(a) - Signed(v) - (1 - c) \notin -128 .. 127
      /\ "N" \in r.p <=> r.a >= 128
  BY <1>3, <1>4, <1>5, <1>6
<1> QED
  BY <1>7 DEF a, c, r

\* Decimal: a byte of two decimal digits, and its number.
Digits(n) == n % 16 < 10 /\ n \div 16 < 10

LEMMA DigitsAre ==
  ASSUME NEW h \in 0 .. 9, NEW l \in 0 .. 9
  PROVE  /\ (16 * h + l) % 16 = l /\ (16 * h + l) \div 16 = h
         /\ Decimal(16 * h + l) = 10 * h + l
         /\ 16 * h + l \in 0 .. 153
<1>1. (16 * h + l) % 16 = l /\ (16 * h + l) \div 16 = h
  OBVIOUS
<1> QED
  BY <1>1 DEF Decimal

LEMMA DigitFacts ==
  ASSUME NEW n \in ByteValues, Digits(n)
  PROVE  n % 16 \in 0 .. 9 /\ n \div 16 \in 0 .. 9 /\ Decimal(n) = 10 * (n \div 16) + (n % 16)
<1>1. n \in Int /\ 0 <= n
  BY InByteValues
<1> QED
  BY <1>1 DEF Digits, Decimal

LEMMA DecimalSums ==
  ASSUME NEW q \in Machine, NEW v \in ByteValues, Digits(q.a), Digits(v)
  PROVE  LET r   == DecimalAdc(q, v)
             sum == Decimal(q.a) + Decimal(v) + C(q)
         IN  Decimal(r.a) = sum % 100 /\ r.a % 16 < 10 /\ ("C" \in r.p <=> sum >= 100)
<1> DEFINE low == (q.a % 16) + (v % 16) + C(q)
           digit == IF low > 9 THEN ((low + 6) % 16) + 16 ELSE low
           high == 16 * (q.a \div 16) + 16 * (v \div 16) + digit
           middle == Byte(high)
           result == IF high >= \hA0 THEN high + \h60 ELSE high
           z == Byte(q.a + v + C(q)) = 0
           n == middle >= 128
           o == Overflows(q.a, v, middle)
           c == result >= 256
           p == With(With(With(With(q.p, "Z", z), "N", n), "V", o), "C", c)
           al == q.a % 16
           ah == q.a \div 16
           vl == v % 16
           vh == v \div 16
           k == C(q)
           sum == Decimal(q.a) + Decimal(v) + C(q)
           l == IF low > 9 THEN low - 10 ELSE low
           h == IF low > 9 THEN ah + vh + 1 ELSE ah + vh
           top == IF h >= 10 THEN h - 10 ELSE h
<1>1. q.a \in ByteValues /\ k \in {0, 1}
  BY MachineFields DEF C, Flag
<1>2. /\ al \in 0 .. 9 /\ ah \in 0 .. 9 /\ vl \in 0 .. 9 /\ vh \in 0 .. 9
      /\ sum = 10 * ah + al + (10 * vh + vl) + k
  BY <1>1, DigitFacts
<1>3. DecimalAdc(q, v) = Accumulated(q, Byte(result), p)
  BY Zenon DEF DecimalAdc, Accumulated
<1>4. low = al + vl + k /\ high = 16 * ah + 16 * vh + digit
  OBVIOUS
<1> HIDE DEF al, ah, vl, vh, k, z, n, o, sum
<1>5. low \in 0 .. 19
  BY <1>1, <1>2, <1>4
<1> HIDE DEF low
<1>6. digit = IF low > 9 THEN low + 6 ELSE low
  BY <1>5
<1> HIDE DEF digit
<1>7. l \in 0 .. 9 /\ h \in 0 .. 19 /\ high = 16 * h + l /\ sum = 10 * h + l
  BY <1>1, <1>2, <1>4, <1>5, <1>6
<1> HIDE DEF l, h, high
<1>8. result = IF h >= 10 THEN 16 * h + l + 96 ELSE 16 * h + l
  BY <1>7
<1> HIDE DEF result
<1>9. top \in 0 .. 9 /\ Byte(result) = 16 * top + l /\ (c <=> h >= 10)
  BY <1>7, <1>8 DEF Byte
<1>10. sum % 100 = 10 * top + l /\ (sum >= 100 <=> h >= 10)
  BY <1>7
<1> HIDE DEF top, c
<1>11. Decimal(Byte(result)) = 10 * top + l /\ Byte(result) % 16 < 10
  BY <1>7, <1>9, DigitsAre
<1>12. "C" \in p <=> c
  BY DEF With
<1> HIDE DEF p
<1>13. DecimalAdc(q, v).a = Byte(result) /\ DecimalAdc(q, v).p = p
  BY <1>3, AccumulatedIs
<1>14. /\ Decimal(DecimalAdc(q, v).a) = sum % 100 /\ DecimalAdc(q, v).a % 16 < 10
       /\ "C" \in DecimalAdc(q, v).p <=> sum >= 100
  BY <1>9, <1>10, <1>11, <1>12, <1>13
<1> QED
  BY <1>14 DEF sum

LEMMA DecimalDifferences ==
  ASSUME NEW q \in Machine, NEW v \in ByteValues, Digits(q.a), Digits(v)
  PROVE  LET r    == DecimalSbc(q, v)
             diff == Decimal(q.a) - Decimal(v) - (1 - C(q))
         IN  Decimal(r.a) = diff % 100 /\ r.a % 16 < 10 /\ ("C" \in r.p <=> diff >= 0)
<1> DEFINE bin == Byte(q.a + (255 - v) + C(q))
           al == (q.a % 16) - (v % 16) - (1 - C(q))
           ah == (q.a \div 16) - (v \div 16) - Flag(al < 0)
           low == (IF al < 0 THEN al - 6 ELSE al) % 16
           high == (IF ah < 0 THEN ah - 6 ELSE ah) % 16
           o == Overflows(q.a, 255 - v, bin)
           c == ah >= 0
           p == With(With(NZ(q.p, bin), "V", o), "C", c)
           r == 16 * high + low
           diff == Decimal(q.a) - Decimal(v) - (1 - C(q))
           k == C(q)
           a0 == q.a % 16
           a1 == q.a \div 16
           v0 == v % 16
           v1 == v \div 16
<1>1. q.a \in ByteValues /\ k \in {0, 1}
  BY MachineFields DEF C, Flag
<1>2. /\ a0 \in 0 .. 9 /\ a1 \in 0 .. 9 /\ v0 \in 0 .. 9 /\ v1 \in 0 .. 9
      /\ diff = 10 * a1 + a0 - (10 * v1 + v0) - (1 - k)
  BY <1>1, DigitFacts
<1>3. DecimalSbc(q, v) = Accumulated(q, r, p)
  BY Zenon DEF DecimalSbc, Accumulated
<1>4. al = a0 - v0 - (1 - k) /\ ah = a1 - v1 - (IF al < 0 THEN 1 ELSE 0)
  BY DEF Flag
<1> HIDE DEF a0, a1, v0, v1, k, diff, bin, o
<1>5. al \in -10 .. 9
  BY <1>1, <1>2, <1>4
<1> HIDE DEF al
<1>6. ah \in -10 .. 9 /\ low = IF al < 0 THEN al + 10 ELSE al
  BY <1>2, <1>4, <1>5
<1> HIDE DEF ah, low
<1>7. low \in 0 .. 9 /\ high = IF ah < 0 THEN ah + 10 ELSE ah
  BY <1>5, <1>6
<1> HIDE DEF high
<1>8. high \in 0 .. 9 /\ diff = 10 * ah + low
  BY <1>1, <1>2, <1>4, <1>5, <1>6, <1>7
<1>9. diff % 100 = 10 * high + low /\ (diff >= 0 <=> ah >= 0)
  BY <1>6, <1>7, <1>8
<1>10. Decimal(r) = 10 * high + low /\ r % 16 < 10
  BY <1>7, <1>8, DigitsAre
<1>11. c <=> diff >= 0
  BY <1>9
<1> HIDE DEF c
<1>12. "C" \in p <=> c
  BY DEF With
<1> HIDE DEF p, r
<1>13. DecimalSbc(q, v).a = r /\ DecimalSbc(q, v).p = p
  BY <1>3, AccumulatedIs
<1>14. /\ Decimal(DecimalSbc(q, v).a) = diff % 100 /\ DecimalSbc(q, v).a % 16 < 10
       /\ "C" \in DecimalSbc(q, v).p <=> diff >= 0
  BY <1>9, <1>10, <1>11, <1>12, <1>13
<1> QED
  BY <1>14 DEF diff

\* What SumsExact says of a sum or difference of v on the machine at first,
\* that left the accumulator a and the flags p.
SumIs(first, a, p, v) ==
  IF "D" \in first.p
  THEN Digits(first.a) /\ Digits(v) =>
         /\ Decimal(a) = (Decimal(first.a) + Decimal(v) + C(first)) % 100 /\ a % 16 < 10
         /\ "C" \in p <=> Decimal(first.a) + Decimal(v) + C(first) >= 100
  ELSE /\ a = (first.a + v + C(first)) % 256
       /\ "C" \in p <=> first.a + v + C(first) > 255
       /\ "V" \in p <=> Signed(first.a) + Signed(v) + C(first) \notin -128 .. 127
       /\ "N" \in p <=> a >= 128
DifferenceIs(first, a, p, v) ==
  IF "D" \in first.p
  THEN Digits(first.a) /\ Digits(v) =>
         /\ Decimal(a) = (Decimal(first.a) - Decimal(v) - (1 - C(first))) % 100 /\ a % 16 < 10
         /\ "C" \in p <=> Decimal(first.a) - Decimal(v) - (1 - C(first)) >= 0
  ELSE /\ a = (first.a - v - (1 - C(first))) % 256
       /\ "C" \in p <=> first.a - v - (1 - C(first)) >= 0
       /\ "V" \in p <=> Signed(first.a) - Signed(v) - (1 - C(first)) \notin -128 .. 127
       /\ "N" \in p <=> a >= 128

LEMMA SumsAre ==
  ASSUME NEW q \in Machine, q.a = start.a, q.p = start.p, NEW v \in ByteValues
  PROVE  SumIs(start, Adc(q, v).a, Adc(q, v).p, v) /\ DifferenceIs(start, Sbc(q, v).a, Sbc(q, v).p, v)
<1>1. C(q) = C(start)
  BY DEF C
<1>2. CASE "D" \in start.p
  <2>1. Adc(q, v) = DecimalAdc(q, v) /\ Sbc(q, v) = DecimalSbc(q, v)
    BY <1>2 DEF Adc, Sbc
  <2> DEFINE r == Adc(q, v)
             u == Sbc(q, v)
  <2>2. ASSUME Digits(q.a), Digits(v)
        PROVE  /\ Decimal(r.a) = (Decimal(q.a) + Decimal(v) + C(q)) % 100 /\ r.a % 16 < 10
               /\ "C" \in r.p <=> Decimal(q.a) + Decimal(v) + C(q) >= 100
               /\ Decimal(u.a) = (Decimal(q.a) - Decimal(v) - (1 - C(q))) % 100 /\ u.a % 16 < 10
               /\ "C" \in u.p <=> Decimal(q.a) - Decimal(v) - (1 - C(q)) >= 0
    BY <2>1, <2>2, DecimalSums, DecimalDifferences, ZenonT(60)
  <2> HIDE DEF r, u
  <2> SUFFICES SumIs(start, r.a, r.p, v) /\ DifferenceIs(start, u.a, u.p, v)
    BY DEF r, u
  <2> QED
    BY <1>1, <1>2, <2>2, Zenon DEF SumIs, DifferenceIs
<1>3. CASE "D" \notin start.p
  <2>1. Adc(q, v) = BinaryAdc(q, v) /\ Sbc(q, v) = BinaryAdc(q, 255 - v)
    BY <1>3 DEF Adc, Sbc
  <2> DEFINE r == Adc(q, v)
             u == Sbc(q, v)
             w == BinaryAdc(q, v)
             x == BinaryAdc(q, 255 - v)
  <2>2. /\ w.a = (q.a + v + C(q)) % 256
        /\ "C" \in w.p <=> q.a + v + C(q) > 255
        /\ "V" \in w.p <=> Signed(q.a) + Signed(v) + C(q) \notin -128 .. 127
        /\ "N" \in w.p <=> w.a >= 128
    BY BinarySums
  <2>3. /\ x.a = (q.a - v - (1 - C(q))) % 256
        /\ "C" \in x.p <=> q.a - v - (1 - C(q)) >= 0
        /\ "V" \in x.p <=> Signed(q.a) - Signed(v) - (1 - C(q)) \notin -128 .. 127
        /\ "N" \in x.p <=> x.a >= 128
    BY BinaryDifferences
  <2>4. r = w /\ u = x
    BY <2>1
  <2> HIDE DEF r, u, w, x
  <2> SUFFICES SumIs(start, r.a, r.p, v) /\ DifferenceIs(start, u.a, u.p, v)
    BY DEF r, u
  <2>5. SumIs(start, r.a, r.p, v)
    BY <1>1, <1>3, <2>2, <2>4, ZenonT(60) DEF SumIs
  <2>6. DifferenceIs(start, u.a, u.p, v)
    BY <1>1, <1>3, <2>3, <2>4, ZenonT(60) DEF DifferenceIs
  <2> QED
    BY <2>5, <2>6
<1> QED
  BY <1>2, <1>3

\* An instruction that reads has the operand on the bus to the end.
LEMMA ReadsAs ==
  ASSUME NEW q, Ran(q, 1), NEW op \in {"ADC", "SBC"}, NEW mode \in Modes
  PROVE  LET got == Got(q, mode)
             res == ReadInstruction(q, op, mode)
         IN  /\ got \in Machine /\ got.data \in ByteValues /\ Same(q, got) /\ res.data = got.data
             /\ op = "ADC" => res.a = Adc(got, got.data).a /\ res.p = Adc(got, got.data).p
             /\ op = "SBC" => res.a = Sbc(got, got.data).a /\ res.p = Sbc(got, got.data).p
<1> DEFINE got == Got(q, mode)
           done == Consume(op, got, got.data)
           res == Claim(done, mode, 1, FALSE)
<1>1. op \in ReadOps
  BY DEF ReadOps
<1>2. got \in Machine /\ got.data \in ByteValues /\ Same(q, got)
  BY GotIs, MachineFields DEF Ran
<1>3. ReadInstruction(q, op, mode) = res
  BY DEF ReadInstruction, Got
<1> HIDE DEF got
<1>4. OnRegisters(got, done)
  BY <1>1, <1>2, ConsumeIs
<1>5. (op = "ADC" => done = Adc(got, got.data)) /\ (op = "SBC" => done = Sbc(got, got.data))
  BY DEF Consume
<1> HIDE DEF done
<1>6. done \in Machine /\ done.data = got.data
  BY <1>4 DEF OnRegisters
<1>7. Same(done, res) /\ res.data = done.data
  BY <1>6, ClaimKeeps
<1> HIDE DEF res
<1>8. res.a = done.a /\ res.p = done.p /\ res.data = got.data
  BY <1>6, <1>7 DEF Same
<1> QED
  BY <1>2, <1>3, <1>5, <1>8 DEF got

SumsInv == (ran = <<>> => m = start) /\ SumsExact

LEMMA NextSums == Types /\ SumsInv /\ [CpuNext]_cpuVars => SumsInv'
<1> SUFFICES ASSUME Types, SumsInv, [CpuNext]_cpuVars PROVE SumsInv'
  OBVIOUS
<1>1. ran \in Seq(Names) /\ start \in Machine /\ m \in Machine
  BY DEF Types
<1>2. ASSUME NEW name \in Names, ran' = Append(ran, name), name = "ADC" \/ name = "SBC" => ran # <<>>
      PROVE  SumsInv'
  <2>1. Append(ran, name) # <<>> /\ Append(ran, name) # <<"ADC">> /\ Append(ran, name) # <<"SBC">>
    BY <1>1, <1>2, Ending
  <2>2. SumsExact'
    BY <1>2, <2>1, Zenon DEF SumsExact
  <2> QED
    BY <1>2, <2>1, <2>2, Zenon DEF SumsInv
<1>3. CASE RunRead
  <2>1. PICK op \in ReadOps, mode \in Modes : Step(op, ReadInstruction(Fetched, op, mode))
    BY <1>3, ReadStep
  <2>2. m' = ReadInstruction(Fetched, op, mode) /\ ran' = Append(ran, op) /\ start' = start
    BY <2>1 DEF Step
  <2>3. op \in Names
    BY DEF Names
  <2>4. CASE op \in {"ADC", "SBC"} /\ ran = <<>>
    <3> DEFINE got == Got(Fetched, mode)
    <3>1. Ran(Fetched, 1) /\ Fetched.a = start.a /\ Fetched.p = start.p
      BY <1>1, <2>4, FetchedIs DEF SumsInv
    <3>2. /\ got \in Machine /\ got.data \in ByteValues /\ Same(Fetched, got) /\ m'.data = got.data
          /\ op = "ADC" => m'.a = Adc(got, got.data).a /\ m'.p = Adc(got, got.data).p
          /\ op = "SBC" => m'.a = Sbc(got, got.data).a /\ m'.p = Sbc(got, got.data).p
      BY <2>2, <2>4, <3>1, ReadsAs
    <3> HIDE DEF got
    <3>3. got.a = start.a /\ got.p = start.p
      BY <3>1, <3>2 DEF Same
    <3>4. /\ SumIs(start, Adc(got, got.data).a, Adc(got, got.data).p, got.data)
          /\ DifferenceIs(start, Sbc(got, got.data).a, Sbc(got, got.data).p, got.data)
      BY <3>2, <3>3, SumsAre
    <3>5. ran' = <<op>> /\ ran' # <<>>
      BY <2>2, <2>4
    <3>6. <<"ADC">> # <<"SBC">>
      OBVIOUS
    <3>7. CASE op = "ADC"
      <4>1. SumIs(start', m'.a, m'.p, m'.data)
        BY <2>2, <3>2, <3>4, <3>7, Zenon
      <4>2. ran' = <<"ADC">>
        BY <3>5, <3>7
      <4>3. SumsExact'
        BY <3>6, <4>1, <4>2, Zenon DEF SumsExact, SumIs, Digits
      <4> QED
        BY <3>5, <4>3, Zenon DEF SumsInv
    <3>8. CASE op = "SBC"
      <4>1. DifferenceIs(start', m'.a, m'.p, m'.data)
        BY <2>2, <3>2, <3>4, <3>8, Zenon
      <4>2. ran' = <<"SBC">>
        BY <3>5, <3>8
      <4>3. SumsExact'
        BY <3>6, <4>1, <4>2, Zenon DEF SumsExact, DifferenceIs, Digits
      <4> QED
        BY <3>5, <4>3, Zenon DEF SumsInv
    <3> QED
      BY <2>4, <3>7, <3>8
  <2> QED
    BY <1>2, <2>2, <2>3, <2>4
<1>4. CASE RunStore \/ RunUnstable \/ RunModify
  <2>1. \E op \in StoreOps \cup UnstableOps \cup ModifyOps : ran' = Append(ran, op)
    BY <1>4, StoreStep, UnstableStep, ModifyStep DEF Step
  <2>2. \A op \in StoreOps \cup UnstableOps \cup ModifyOps : op \in Names /\ op # "ADC" /\ op # "SBC"
    BY DEF StoreOps, UnstableOps, ModifyOps, Names
  <2> QED
    BY <1>2, <2>1, <2>2, Zenon
<1>5. CASE RunShift \/ RunRegister \/ RunBranch \/ RunJam
  <2>1. \E op \in OtherOps : ran' = Append(ran, op)
    BY <1>5, OtherStep DEF Step
  <2>2. \A op \in OtherOps : op \in Names /\ op # "ADC" /\ op # "SBC"
    BY DEF OtherOps, RegisterOps, Names
  <2> QED
    BY <1>2, <2>1, <2>2, Zenon
<1>6. CASE RunJump \/ RunStack
  <2>1. \E op \in StackOps : ran' = Append(ran, op)
    BY <1>6, JumpStep, StackStep DEF Step, StackOps
  <2>2. \A op \in StackOps : op \in Names /\ op # "ADC" /\ op # "SBC"
    BY DEF StackOps, Names
  <2> QED
    BY <1>2, <2>1, <2>2, Zenon
<1>7. CASE Reset
  <2>1. ran' = Append(ran, "reset") /\ "reset" \in Names /\ "reset" # "ADC" /\ "reset" # "SBC"
    BY <1>7, ResetIs DEF Names
  <2> QED
    BY <1>2, <2>1, Zenon
<1>8. CASE UNCHANGED cpuVars
  BY <1>8, ZenonT(60) DEF cpuVars, SumsInv, SumsExact
<1> QED
  BY <1>3, <1>4, <1>5, <1>6, <1>7, <1>8 DEF CpuNext

------------------------------------------------------------------------------
(* The theorems.                                                           *)

\* Every register, address and byte of memory stays what its type in the code
\* holds, whatever runs and wherever (cpu.rs 14-73, 90-188).
THEOREM CpuTypes == ASSUME CpuAssumption PROVE CpuSpec => []Types
<1>1. CpuInit => Types
  BY InitTypes
<1>2. Types /\ [CpuNext]_cpuVars => Types'
  BY NextTypes
<1> QED
  BY <1>1, <1>2, PTL DEF CpuSpec

\* No instruction pads: it makes an access in every cycle that its arm of the
\* dispatch claims (cpu.rs 90-113, 365-1772).
THEOREM CpuCyclesExact == ASSUME CpuAssumption PROVE CpuSpec => []CyclesExact
<1>1. CpuInit => Types /\ CyclesExact
  BY InitTypes DEF CpuInit, CyclesExact
<1>2. Types /\ [CpuNext]_cpuVars => Types'
  BY NextTypes
<1>3. Types /\ CyclesExact /\ [CpuNext]_cpuVars => CyclesExact'
  BY NextCycles
<1> QED
  BY <1>1, <1>2, <1>3, PTL DEF CpuSpec

\* What is stacked comes back, for every stack pointer, memory, status and
\* program (cpu.rs 594-630, 1186-1256).
THEOREM CpuStackPairs == ASSUME CpuAssumption PROVE CpuSpec => []StackPairs
<1>1. CpuInit => Types /\ StackInv
  BY InitTypes, InitPairs
<1>2. Types /\ [CpuNext]_cpuVars => Types'
  BY NextTypes
<1>3. Types /\ StackInv /\ [CpuNext]_cpuVars => StackInv'
  BY NextPairs
<1>4. StackInv => StackPairs
  BY Zenon DEF StackInv
<1> QED
  BY <1>1, <1>2, <1>3, <1>4, PTL DEF CpuSpec

\* Sums and differences are right, in decimal mode for every two numbers of two
\* digits and in binary mode for every two bytes, in every addressing mode
\* (cpu.rs 789-885, 1819-1898).
THEOREM CpuSumsExact == ASSUME CpuAssumption PROVE CpuSpec => []SumsExact
<1>1. CpuInit => Types /\ SumsInv
  <2> SUFFICES ASSUME CpuInit PROVE Types /\ SumsInv
    OBVIOUS
  <2>1. ran = <<>> /\ start = m
    BY DEF CpuInit
  <2>2. ran # <<"ADC">> /\ ran # <<"SBC">>
    BY <2>1
  <2>3. SumsExact
    BY <2>2, Zenon DEF SumsExact
  <2> QED
    BY <2>1, <2>3, InitTypes DEF SumsInv
<1>2. Types /\ [CpuNext]_cpuVars => Types'
  BY NextTypes
<1>3. Types /\ SumsInv /\ [CpuNext]_cpuVars => SumsInv'
  BY NextSums
<1>4. SumsInv => SumsExact
  BY Zenon DEF SumsInv
<1> QED
  BY <1>1, <1>2, <1>3, <1>4, PTL DEF CpuSpec

\* An undocumented combination leaves the registers, the flags and the memory as
\* its two documented halves do, for every byte, accumulator and status, in every
\* addressing mode (cpu.rs 1404-1625, 2002-2065).
THEOREM CpuUnofficialAgrees == ASSUME CpuAssumption PROVE CpuSpec => []UnofficialAgrees
<1>1. CpuInit => Types /\ UnofficialInv
  <2> SUFFICES ASSUME CpuInit PROVE Types /\ UnofficialInv
    OBVIOUS
  <2>1. ran = <<>> /\ start = m
    BY DEF CpuInit
  <2>2. Len(ran) # 1
    BY <2>1
  <2>3. UnofficialAgrees
    BY <2>2, Zenon DEF UnofficialAgrees
  <2> QED
    BY <2>1, <2>3, InitTypes DEF UnofficialInv
<1>2. Types /\ [CpuNext]_cpuVars => Types'
  BY NextTypes
<1>3. Types /\ UnofficialInv /\ [CpuNext]_cpuVars => UnofficialInv'
  BY NextUnofficial
<1>4. UnofficialInv => UnofficialAgrees
  BY Zenon DEF UnofficialInv
<1> QED
  BY <1>1, <1>2, <1>3, <1>4, PTL DEF CpuSpec
==============================================================================
