------------------------------- MODULE DpcPlus -------------------------------
(***************************************************************************)
(* BankDpcPlus of crates/rusty2600-cart/src/lib.rs: banks of 4K with a     *)
(* window of registers in front, fetchers over 4K of data RAM, a 32-bit    *)
(* random number, three music fetchers, and services that copy, fill or    *)
(* run the ARM.  The random number is the set of its bits.  A music        *)
(* fetcher's count and frequency are in units of 2^27, of which only the   *)
(* count's top five bits are ever looked at.                               *)
(***************************************************************************)
EXTENDS Bytes, Sequences, FiniteSetsExt

DataSize == 4096
Cells(ram, i) == IF i \in DOMAIN ram THEN ram[i] ELSE 0
Put(ram, i, v) == [j \in DOMAIN ram \cup {i} |-> IF j = i THEN v ELSE ram[j]]

------------------------------------------------------------------------------
(* Fetchers.                                                               *)

Fetcher == [low |-> 0, hi |-> 0, top |-> 0, bottom |-> 0]
FetcherInc(f) == [f EXCEPT !.low = Inc(@), !.hi = IF f.low = 255 THEN Inc(@) ELSE @]
FetcherDec(f) == [f EXCEPT !.low = Dec(@), !.hi = IF f.low = 0 THEN Dec(@) ELSE @]
FetcherAddr(f) == Addr(f.low, f.hi) % DataSize

\* is_window: low has left the stretch from bottom up to top, round the byte.
IsWindow(f) == Byte(f.top - f.low) > Byte(f.top - f.bottom)

\* The fetcher with a fraction: it moves on when the fraction overflows.
Frac == [low |-> 0, hi |-> 0, increment |-> 0, count |-> 0]

BugFracInc(f) ==
  LET moves == f.count + f.increment > 256
  IN [f EXCEPT !.count = Byte(f.count + f.increment),
               !.low = IF moves THEN Inc(@) ELSE @,
               !.hi = IF moves /\ f.low = 255 THEN (@ + 1) % 16 ELSE @]

FracInc(f) ==
  LET moves == f.count + f.increment > 255
  IN [f EXCEPT !.count = Byte(f.count + f.increment),
               !.low = IF moves THEN Inc(@) ELSE @,
               !.hi = IF moves /\ f.low = 255 THEN (@ + 1) % 16 ELSE @]

Music == [waveform |-> 0, freq |-> 0, count |-> 0]

------------------------------------------------------------------------------
(* The random number, as the set of its 32 bits.                           *)

Magic == {1, 2, 3, 4, 8, 9, 11, 13, 15, 16, 18, 19, 21, 23, 28}    \* 0x10ADAB1E
Seed == {2, 6, 12, 14, 16, 17, 22, 24, 25, 27, 29}                 \* "DPC+"
RotateRight(S) == {(i + 21) % 32 : i \in S}
RotateLeft(S) == {(i + 11) % 32 : i \in S}

RngNext(S) == IF 10 \in S THEN SymDiff(Magic, RotateRight(S)) ELSE RotateRight(S)

\* prev: with the top bit set, the upper part is Magic AND S where the
\* inverse of RngNext has Magic XOR S.
RngPrev(S) ==
  IF 31 \in S
  THEN {i + 11 : i \in {j \in Magic \cap S : j <= 20}}
       \cup {i - 21 : i \in {j \in SymDiff(Magic, S) : j >= 21}}
  ELSE RotateLeft(S)

RngByte(S, k) == OfBits({i - 8 * k : i \in S \cap (8 * k .. 8 * k + 7)}, 8)
RngSetByte(S, k, v) == (S \ (8 * k .. 8 * k + 7)) \cup {i + 8 * k : i \in Bits(v, 8)}

------------------------------------------------------------------------------

\* rom is the data ROM, freqs the table of frequencies: the cells that are not 0.
\* The data RAM starts as a copy of the data ROM.  flash is what the ARM has
\* written over the banks.
NewDpcPlus(banks, rom, freqs) ==
  [kind |-> "DPC+", banks |-> banks, bank |-> 0, rom |-> rom, freqs |-> freqs, data |-> rom, flash |-> [i \in {} |-> 0],
   f |-> [i \in 0 .. 7 |-> Fetcher], frac |-> [i \in 0 .. 7 |-> Frac],
   music |-> [m \in 0 .. 2 |-> Music], rng |-> Seed,
   fast |-> FALSE, lda |-> FALSE, parameters |-> <<>>, beats |-> 0]

\* What every board of the kind is like; the cells and the fetchers of graphics
\* may be any.
Fracs == [low : 0 .. 255, hi : 0 .. 15, increment : 0 .. 255, count : 0 .. 255]
Musics(top) == [waveform : Nat, freq : Nat, count : 0 .. top]
IsDpcPlus(b) ==
  /\ b \in [kind : {"DPC+"}, banks : {b.banks}, bank : {b.bank}, rom : {b.rom}, freqs : {b.freqs},
            data : {b.data}, flash : {b.flash}, f : {b.f}, frac : [0 .. 7 -> Fracs],
            music : [0 .. 2 -> Musics(31)], rng : {b.rng}, fast : BOOLEAN, lda : BOOLEAN,
            parameters : {b.parameters}, beats : 0 .. 58]
  /\ \A i \in DOMAIN b.freqs : b.freqs[i] \in Nat

IsHotspot(addr) == addr \in \h1FF6 .. \h1FFB
Bankswitch(b, addr) == [b EXCEPT !.bank = addr - \h1FF6]

DataAt(b, i) == Cells(b.data, i)

\* read_register: <<the board after it, the byte>>.
ReadRegister(b, a) ==
  LET i == a % 8
  IN CASE a = 0 -> <<[b EXCEPT !.rng = RngNext(@)], RngByte(RngNext(b.rng), 0)>>
       [] a = 1 -> <<[b EXCEPT !.rng = RngPrev(@)], RngByte(RngPrev(b.rng), 0)>>
       [] a \in 2 .. 4 -> <<b, RngByte(b.rng, a - 1)>>
       [] a = 5 ->
            LET wave(m) == DataAt(b, (b.music[m].waveform * 32 + b.music[m].count) % DataSize)
            IN <<b, Byte(wave(0) + wave(1) + wave(2))>>
       [] a \in \h08 .. \h0F -> <<[b EXCEPT !.f[i] = FetcherInc(@)], DataAt(b, FetcherAddr(b.f[i]))>>
       [] a \in \h10 .. \h17 ->
            <<[b EXCEPT !.f[i] = FetcherInc(@)],
              IF IsWindow(b.f[i]) THEN DataAt(b, FetcherAddr(b.f[i])) ELSE 0>>
       [] a \in \h18 .. \h1F ->
            <<[b EXCEPT !.frac[i] = FracInc(@)], DataAt(b, Addr(b.frac[i].low, b.frac[i].hi) % DataSize)>>
       [] a \in \h20 .. \h23 -> <<b, IF IsWindow(b.f[i]) THEN 255 ELSE 0>>
       [] OTHER -> <<b, 0>>

\* The byte of the current bank, where code is the image's.
BankByte(b, addr, code) ==
  LET at == b.bank * 4096 + Offset(addr) IN IF at \in DOMAIN b.flash THEN b.flash[at] ELSE code

\* cpu_read: the board and the byte.  After an LDA # a small operand names a
\* register.
DpcPlusRead(b, addr, code) ==
  LET byte == BankByte(b, addr, code)
  IN CASE IsHotspot(addr) -> <<Bankswitch(b, addr), 0>>
       [] Offset(addr) < \h80 -> ReadRegister(b, Offset(addr))
       [] OTHER ->
            IF b.fast /\ b.lda /\ byte < \h28 THEN ReadRegister([b EXCEPT !.lda = FALSE], byte)
            ELSE <<[b EXCEPT !.lda = b.fast /\ byte = \hA9], byte>>

------------------------------------------------------------------------------
(* The services behind register 5A.  Both block services take exactly four *)
(* parameters: a source or a value, the fetcher, how many.                 *)

\* Service 1: bytes of the data ROM, as far as it has them, behind the fetcher.
\* The source counts from the start of the banks; one inside them is 0.
CopyToFetcher(b) ==
  LET p    == b.parameters
      at   == FetcherAddr(b.f[p[3] % 8])
      over == Addr(p[1], p[2]) - b.banks * 4096
      from == IF over > 0 THEN over ELSE 0
      to   == {(at + i) % DataSize : i \in {j \in 0 .. p[4] - 1 : from + j < DataSize}}
  IN [j \in DOMAIN b.data \cup to |->
        IF j \in to THEN Cells(b.rom, from + ((j + DataSize - at) % DataSize)) ELSE b.data[j]]

\* Service 2: both halves of the pointer step, so the cells lie on a diagonal.
FillFetcher(b) ==
  LET f  == b.f[b.parameters[3] % 8]
      to == {Addr(Byte(f.low + i), Byte(f.hi + i)) % DataSize : i \in 0 .. b.parameters[4] - 1}
  IN [j \in DOMAIN b.data \cup to |-> IF j \in to THEN b.parameters[1] ELSE b.data[j]]

Service(b, data) ==
  [b EXCEPT !.data = IF Len(b.parameters) = 4 THEN data ELSE @, !.parameters = <<>>]

------------------------------------------------------------------------------
(* The ARM.  Its memory is a row of segments; what its program is for is   *)
(* what it stores there.                                                   *)

Sram == 2^30
Segment(name, origin, size) == [name |-> name, origin |-> origin, size |-> size]

\* ThumbMemory::map: the first segment with the address, or none.
Mapped(segments, addr) ==
  SelectSeq(segments, LAMBDA g : addr \in g.origin .. g.origin + g.size - 1)

\* A store that no segment takes is a fault, and ends the program.
Obeyed(segments, stores) ==
  LET faults == {i \in DOMAIN stores : Mapped(segments, stores[i].addr) = <<>>}
  IN SubSeq(stores, 1, IF faults = {} THEN Len(stores) ELSE Min(faults) - 1)

DpcPlusSegments(b) ==
  LET driver == 3072
      freq   == 1024
      banks  == driver + 4096 * b.banks
  IN <<Segment("driver", 0, driver), Segment("banks", driver, banks - driver),
       Segment("data ROM", banks, DataSize), Segment("freq ROM", banks + DataSize, freq),
       Segment("driver", Sram, driver), Segment("data", Sram + driver, DataSize),
       Segment("freq", Sram + driver + DataSize, freq)>>

\* Nothing keeps a store out of the flash.
DpcPlusStore(b, s) ==
  LET g == Head(Mapped(DpcPlusSegments(b), s.addr))
      i == s.addr - g.origin
  IN CASE g.name = "banks" -> [b EXCEPT !.flash = Put(@, i, s.v)]
       [] g.name = "data ROM" -> [b EXCEPT !.rom = Put(@, i, s.v)]
       [] g.name = "data" -> [b EXCEPT !.data = Put(@, i, s.v)]
       [] g.name = "freq" /\ i % 4 = 3 -> [b EXCEPT !.freqs = Put(@, i \div 4, s.v \div 8)]
       [] OTHER -> b

\* run_arm: the program runs to its end before the 6507 goes on.
RunArm(b, stores) ==
  LET obeyed == Obeyed(DpcPlusSegments(b), stores)
      after[i \in 0 .. Len(obeyed)] == IF i = 0 THEN b ELSE DpcPlusStore(after[i - 1], obeyed[i])
  IN after[Len(obeyed)]

------------------------------------------------------------------------------

\* What a write does to a fetcher with a fraction, to one of graphics, and to
\* the cell that one points at.
WriteFrac(f, a, v) ==
  CASE a \in \h28 .. \h2F -> [f EXCEPT !.low = v, !.count = 0]
    [] a \in \h30 .. \h37 -> [f EXCEPT !.hi = v % 16]
    [] a \in \h38 .. \h3F -> [f EXCEPT !.increment = v, !.count = 0]
WriteFetcher(f, a, v) ==
  CASE a \in \h40 .. \h47 -> [f EXCEPT !.top = v]
    [] a \in \h48 .. \h4F -> [f EXCEPT !.bottom = v]
    [] a \in \h50 .. \h57 -> [f EXCEPT !.low = v]
    [] a \in \h68 .. \h6F -> [f EXCEPT !.hi = v]
StoreThrough(b, i, at, next, v) ==
  [b EXCEPT !.f[i] = next, !.data = Put(@, FetcherAddr(at), v)]

\* write_register, but for register 5A.
WriteDpcPlus(b, a, v) ==
  LET i == a % 8
      f == b.f[i]
  IN CASE a \in \h28 .. \h3F -> [b EXCEPT !.frac[i] = WriteFrac(@, a, v)]
       [] a \in \h40 .. \h57 \cup \h68 .. \h6F -> [b EXCEPT !.f[i] = WriteFetcher(@, a, v)]
       [] a = \h58 -> [b EXCEPT !.fast = v = 0]
       [] a = \h59 -> IF Len(b.parameters) < 4 THEN [b EXCEPT !.parameters = Append(@, v)] ELSE b
       [] a \in \h5D .. \h5F -> [b EXCEPT !.music[a - \h5D].waveform = v % 128]
       [] a \in \h60 .. \h67 -> StoreThrough(b, i, FetcherDec(f), FetcherDec(f), v)
       [] a = \h70 -> [b EXCEPT !.rng = Seed]
       [] a \in \h71 .. \h74 -> [b EXCEPT !.rng = RngSetByte(@, a - \h71, v)]
       [] a \in \h75 .. \h77 -> [b EXCEPT !.music[a - \h75].freq = Cells(b.freqs, v)]
       [] a \in \h78 .. \h7F -> StoreThrough(b, i, f, FetcherInc(f), v)
       [] OTHER -> b

\* cpu_write, where the ARM's program stores when it is called.
DpcPlusWrite(b, addr, v, stores) ==
  LET a == Offset(addr)
  IN CASE IsHotspot(addr) -> Bankswitch(b, addr)
       [] a = \h5A /\ v = 0 -> [b EXCEPT !.parameters = <<>>]
       [] a = \h5A /\ v = 1 -> Service(b, CopyToFetcher(b))
       [] a = \h5A /\ v = 2 -> Service(b, FillFetcher(b))
       [] a = \h5A /\ v \in {254, 255} -> RunArm(b, stores)
       [] a \in \h28 .. \h7F \ {\h5A} -> WriteDpcPlus(b, a, v)
       [] OTHER -> b

\* tick: the music fetchers move on once in 59 CPU cycles.
MusicDivide == 59
MusicStep(m) == [m EXCEPT !.count = (@ + m.freq) % 32]

MusicTick(b) ==
  IF b.beats + 1 < MusicDivide THEN [b EXCEPT !.beats = @ + 1]
  ELSE [b EXCEPT !.beats = 0, !.music = [m \in 0 .. 2 |-> MusicStep(@[m])]]

==============================================================================
