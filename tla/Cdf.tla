--------------------------------- MODULE Cdf ---------------------------------
(***************************************************************************)
(* BankCdf of crates/rusty2600-cart/src/lib.rs: seven banks whose program  *)
(* reads its data streams through the operands of LDA # and JMP, with an   *)
(* ARM that moves the streams.  A stream's pointer is an index into the    *)
(* data RAM and a fraction of 256ths; a music fetcher's count and          *)
(* frequency are in units of 2^20.  The pointers live in the driver RAM,   *)
(* where the ARM writes them too: a map of those that are not 0.           *)
(***************************************************************************)
EXTENDS DpcPlus

Comm == 32       \* DS_COMM, the stream the 6507 writes to
Jump == 33       \* DS_JMP, the first stream of jump targets

\* CdfVersion::detect: what tells the four versions apart.
Version(kind) ==
  [plus      |-> kind = "CDFJ+",
   amplitude |-> IF kind \in {"CDF0", "CDF1"} THEN 34 ELSE 35,
   jumpLows  |-> IF kind \in {"CDF0", "CDF1"} THEN {0} ELSE {0, 1},
   indices   |-> IF kind = "CDFJ+" THEN 65536 ELSE 4096,
   dspKeeps  |-> IF kind = "CDFJ+" THEN 256 ELSE 16,
   dataSize  |-> IF kind = "CDFJ+" THEN 30 * 1024 ELSE 4096,
   streams   |-> IF kind \in {"CDF0", "CDF1"} THEN 34 ELSE 35,
   fetchers  |-> CASE kind = "CDF0" -> \h6E0 [] kind = "CDF1" -> \hA0 [] OTHER -> \h98]

\* What CDFJ+ finds in the driver's code: LDX # and LDY # as triggers, and the
\* operand of the first stream.
Features(ldx, ldy, offset) == [ldx |-> ldx, ldy |-> ldy, offset |-> offset]
NoFeatures == Features(FALSE, FALSE, 0)

CdfMusic == [waveform |-> 27, freq |-> 0, count |-> 0]

NewCdf(kind, features, rom) ==
  [kind |-> kind, features |-> features, rom |-> rom, bank |-> 0,
   data |-> [i \in {} |-> 0], pointer |-> [r \in {} |-> 0], increment |-> [r \in {} |-> 0],
   base |-> [m \in 0 .. 2 |-> 0], music |-> [m \in 0 .. 2 |-> CdfMusic],
   fast |-> FALSE, sample |-> FALSE, load |-> 0, jmp |-> 0, beats |-> 0]

\* What every board of the family is like; the cells, the streams and the bases
\* of the waves may be any.
CdfKinds == {"CDF0", "CDF1", "CDFJ", "CDFJ+"}
IsCdf(b) == b.kind \in CdfKinds
IsCdfBoard(b) ==
  b \in [kind : CdfKinds, features : {b.features}, rom : {b.rom}, bank : {b.bank}, data : {b.data},
         pointer : {b.pointer}, increment : {b.increment}, base : {b.base},
         music : [0 .. 2 -> Musics(4095)], fast : BOOLEAN, sample : BOOLEAN, load : {b.load},
         jmp : {b.jmp}, beats : 0 .. 58]

\* bank_window_offset: before CDFJ+ the banks follow 2K of the ARM's.
BankOffset(b) == b.bank * 4096 + IF Version(b.kind).plus THEN 0 ELSE 2048

\* bankswitch: linear on CDFJ+; before it, both ends select the last bank.
IsCdfHotspot(addr) == addr \in \h1FF4 .. \h1FFB
CdfBankswitch(b, addr) ==
  [b EXCEPT !.bank = CASE Version(b.kind).plus -> addr - \h1FF4
                       [] ~ Version(b.kind).plus /\ addr \in {\h1FF4, \h1FFB} -> 6
                       [] OTHER -> addr - \h1FF5]

------------------------------------------------------------------------------
(* Streams.                                                                *)

Index(b, reg) == Cells(b.pointer, reg) \div 256
Moved(b, reg, by) ==
  [b EXCEPT !.pointer = Put(@, reg, (Cells(@, reg) + by) % (256 * Version(b.kind).indices))]

StreamByte(b, reg) == Cells(b.data, Index(b, reg))

\* stream_data: <<the board, the byte>>.
StreamData(b, reg) == <<Moved(b, reg, Cells(b.increment, reg)), StreamByte(b, reg)>>

\* A jump's operand: one whole byte on.  Outside the data RAM nothing moves.
JumpByte(b, reg) ==
  IF Index(b, reg) < Version(b.kind).dataSize THEN <<Moved(b, reg, 256), StreamByte(b, reg)>>
  ELSE <<b, 0>>

\* The sum of the three waves, or half a sample.
Wave(b, m) == Cells(b.data, b.base[m] + b.music[m].count \div 2^(b.music[m].waveform - 20))
Sample(b) ==
  LET count == b.music[0].count
      twice == IF Version(b.kind).plus THEN count * 256 ELSE count
      byte  == Cells(b.data, b.base[0] + twice \div 2)
  IN IF twice % 2 = 0 THEN byte \div 16 ELSE byte
Amplitude(b) == IF b.sample THEN Sample(b) ELSE Byte(Wave(b, 0) + Wave(b, 1) + Wave(b, 2))

------------------------------------------------------------------------------
(* cpu_read: <<the board, the byte>>.                                      *)

RomAt(b, a) == Cells(b.rom, BankOffset(b) + a)

\* A JMP whose operand names the stream, for the two reads that follow it; at
\* the first of them the byte before must be the JMP.
BugAnyJump(b, a) == b.fast /\ b.jmp > 0
Jumping(b, a) == b.fast /\ b.jmp > 0 /\ (b.jmp = 2 => RomAt(b, a - 1) = \h4C)

JumpRead(b, a) ==
  LET left == b.jmp - 1
  IN JumpByte([b EXCEPT !.jmp = left], RomAt(b, a - 1 + left) + Jump)

\* What the byte of an instruction arms.
ArmsJump(b, a) ==
  /\ RomAt(b, a) = \h4C
  /\ RomAt(b, (a + 1) % 4096) \in Version(b.kind).jumpLows
  /\ RomAt(b, (a + 2) % 4096) = 0
ArmsLoad(b, byte) ==
  \/ byte = \hA9
  \/ byte = \hA2 /\ b.features.ldx
  \/ byte = \hA0 /\ b.features.ldy

PlainRead(b, a) ==
  <<[b EXCEPT !.jmp = IF b.fast /\ ArmsJump(b, a) THEN 2 ELSE @,
              !.load = IF b.fast /\ ArmsLoad(b, RomAt(b, a)) THEN 2 ELSE @],
    RomAt(b, a)>>

LoadRead(b, a) ==
  LET operand == RomAt(b, a)
      first   == b.features.offset
      taken   == [b EXCEPT !.load = @ - 1]
  IN CASE operand \in first .. Byte(first + Comm) -> StreamData(taken, operand - first)
       [] operand = Byte(Version(b.kind).amplitude + first) -> <<taken, Amplitude(b)>>
       [] OTHER -> PlainRead(taken, a)

CdfRead(b, addr) ==
  LET a == Offset(addr)
      c == [b EXCEPT !.jmp = IF b.fast THEN 0 ELSE @]
  IN IF IsCdfHotspot(addr) THEN <<CdfBankswitch(b, addr), 0>>
     ELSE IF Jumping(b, a) THEN JumpRead(b, a)
     ELSE IF c.fast /\ c.load > 0 THEN LoadRead(c, a)
     ELSE PlainRead(c, a)

------------------------------------------------------------------------------
(* cpu_write, the ARM and the clock.                                       *)

\* service_arm_interrupt: the driver's four calls, for music fetcher s.m; any
\* other fetcher ends the ARM's program.
ArmService(music, s) ==
  CASE s.call = "set_note" /\ s.m \in 0 .. 2      -> [music EXCEPT ![s.m].freq = s.v]
    [] s.call = "reset_wave" /\ s.m \in 0 .. 2    -> [music EXCEPT ![s.m].count = 0]
    [] s.call = "set_wave_size" /\ s.m \in 0 .. 2 -> [music EXCEPT ![s.m].waveform = s.v]
    [] OTHER -> music

\* CdfArmMemory, of the smallest image.
CdfSegments(b) ==
  LET plus == Version(b.kind).plus
  IN <<Segment("data", Sram + 2048, Version(b.kind).dataSize),
       Segment("variables", Sram + \h1800, IF plus THEN 0 ELSE 2048),
       Segment("custom", 2048, 7 * 4096 + IF plus THEN 0 ELSE 2048),
       Segment("driver", Sram, 2048), Segment("driver ROM", 0, 2048)>>

\* The driver RAM holds the words of the streams, pointers before increments, and
\* then the bases of the waves; a word is in the units of this module.
CdfStore(b, s) ==
  LET g == Head(Mapped(CdfSegments(b), s.addr))
      i == s.addr - g.origin
      n == Version(b.kind).streams
      w == (i - Version(b.kind).fetchers) \div 4
  IN CASE g.name = "data" -> [b EXCEPT !.data = Put(@, i, s.v)]
       [] g.name = "custom" -> [b EXCEPT !.rom = Put(@, i, s.v)]
       [] g.name = "driver" /\ w \in 0 .. n - 1 -> [b EXCEPT !.pointer = Put(@, w, s.v)]
       [] g.name = "driver" /\ w \in n .. 2 * n - 1 -> [b EXCEPT !.increment = Put(@, w - n, s.v)]
       [] g.name = "driver" /\ w \in 2 * n .. 2 * n + 2 -> [b EXCEPT !.base[w - 2 * n] = s.v]
       [] OTHER -> b

\* run_arm: a program that stores, and then asks for one service.
CdfRunArm(b, s) ==
  LET obeyed == Obeyed(CdfSegments(b), s.stores)
      after[i \in 0 .. Len(obeyed)] == IF i = 0 THEN b ELSE CdfStore(after[i - 1], obeyed[i])
  IN [after[Len(obeyed)] EXCEPT !.music = IF obeyed = s.stores THEN ArmService(@, s) ELSE @]

\* DSPTR: a byte at a time, the last one the low byte of the index.
SetPointer(b, v) ==
  [b EXCEPT !.pointer = Put(@, Comm, 256 * ((Index(b, Comm) % Version(b.kind).dspKeeps) * 256 + v))]

DsWrite(b, v) ==
  IF Index(b, Comm) < Version(b.kind).dataSize
  THEN Moved([b EXCEPT !.data = Put(@, Index(b, Comm), v)], Comm, 256)
  ELSE b

SetMode(b, v) ==
  LET fast == v % 16 # 15
  IN [b EXCEPT !.fast = fast, !.sample = v \div 16 # 15,
               !.load = IF fast THEN @ ELSE 0, !.jmp = IF fast THEN @ ELSE 0]

CdfWrite(b, addr, v, s) ==
  CASE IsCdfHotspot(addr) -> CdfBankswitch(b, addr)
    [] addr = \h1FF0 -> DsWrite(b, v)
    [] addr = \h1FF1 -> SetPointer(b, v)
    [] addr = \h1FF2 -> SetMode(b, v)
    [] addr = \h1FF3 /\ v \in {254, 255} -> CdfRunArm(b, s)
    [] OTHER -> b

CdfMusicStep(m) == [m EXCEPT !.count = (@ + m.freq) % 4096]
CdfTick(b) ==
  LET last == b.beats + 1 = MusicDivide
  IN [b EXCEPT !.load = IF @ > 0 THEN @ - 1 ELSE 0,
               !.beats = IF last THEN 0 ELSE @ + 1,
               !.music = IF last THEN [m \in 0 .. 2 |-> CdfMusicStep(@[m])] ELSE @]

==============================================================================
