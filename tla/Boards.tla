------------------------------- MODULE Boards -------------------------------
(***************************************************************************)
(* The bank-switched boards of crates/rusty2600-cart/src/lib.rs that have  *)
(* no processor of their own.  A board is a record                         *)
(*                                                                         *)
(*   kind   the scheme, with "SC" where the 128 bytes of Superchip RAM are *)
(*          fitted                                                         *)
(*   banks  how many banks the image has                                   *)
(*   sel    what the hotspots select (what each number is depends on kind) *)
(*   ram    the cells of the board's RAM that are not 0                    *)
(*                                                                         *)
(* An access is at a 13-bit address; the cartridge window is the upper     *)
(* half (A12).  Where the byte of an access comes from or goes to is a     *)
(* place [mem, at]: an index of the image, of the RAM, or nothing.         *)
(***************************************************************************)
EXTENDS Integers, Sequences, FiniteSets, Functions

K == 1024
Window == \h1000 .. \h1FFF
Console == 0 .. \h0FFF

\* The offset of a window address in its 4K, and the address lines of S that
\* are high.
Low(addr) == addr % (4 * K)
Lines(addr, S) == {k \in S : (addr \div 2^k) % 2 = 1}

Rom(i) == [mem |-> "rom", at |-> i]
Ram(i) == [mem |-> "ram", at |-> i]
Nothing == [mem |-> "none", at |-> 0]

Cell(ram, i) == IF i \in DOMAIN ram THEN ram[i] ELSE 0
Store(ram, i, v) == [j \in DOMAIN ram \cup {i} |-> IF j = i THEN v ELSE ram[j]]
EmptyRam == [i \in {} |-> 0]

------------------------------------------------------------------------------
(* The schemes with a run of hotspots, one per 4K bank: where the run      *)
(* starts, how long it is, the bank selected at power-on.                  *)

F8 == [base |-> \h1FF8, count |-> 2,  start |-> 1]
F6 == [base |-> \h1FF6, count |-> 4,  start |-> 3]
F4 == [base |-> \h1FF4, count |-> 8,  start |-> 7]
FA == [base |-> \h1FF8, count |-> 3,  start |-> 2]
EF == [base |-> \h1FE0, count |-> 16, start |-> 0]
DF == [base |-> \h1FC0, count |-> 32, start |-> 0]
BF == [base |-> \h1F80, count |-> 64, start |-> 0]

Runs == [F8 |-> F8, F6 |-> F6, F4 |-> F4, FA |-> FA, EF |-> EF, DF |-> DF, BF |-> BF]
Superchips == [F8SC |-> "F8", F6SC |-> "F6", F4SC |-> "F4",
               EFSC |-> "EF", DFSC |-> "DF", BFSC |-> "BF"]

HasSuperchip(kind) == kind \in DOMAIN Superchips
Scheme(kind) == IF HasSuperchip(kind) THEN Superchips[kind] ELSE kind
HasRun(kind) == Scheme(kind) \in DOMAIN Runs


RunHotspot(b, addr) ==
  LET r == Runs[Scheme(b.kind)]
  IN IF addr - r.base \in 0 .. r.count - 1 THEN <<addr - r.base>> ELSE b.sel

\* BankE7::check_switch_bank: the lower window's bank, the small RAM's page.
E7Hotspot(sel, addr) ==
  IF addr \in \h1FE0 .. \h1FE7 THEN [sel EXCEPT ![1] = addr - \h1FE0]
  ELSE IF addr \in \h1FE8 .. \h1FEB THEN [sel EXCEPT ![2] = addr - \h1FE8]
  ELSE sel

\* BankF0::hotspot: every access to the one hotspot steps to the next bank.

F0Hotspot(sel, addr) == IF addr = \h1FF0 THEN <<(sel[1] + 1) % 16>> ELSE sel

\* BankE0::hotspot: three rows of eight hotspots, one row per 1K slice.
E0Hotspot(sel, addr) ==
  IF addr \in \h1FE0 .. \h1FF7
  THEN [sel EXCEPT ![(addr - \h1FE0) \div 8 + 1] = addr % 8]
  ELSE sel

\* What an access in the cartridge window selects.
Hotspot(b, addr) ==
  [b EXCEPT !.sel = CASE HasRun(b.kind) -> RunHotspot(b, addr)
                      [] b.kind = "E7"  -> E7Hotspot(@, addr)
                      [] b.kind = "F0"  -> F0Hotspot(@, addr)
                      [] b.kind = "E0"  -> E0Hotspot(@, addr)
                      [] OTHER          -> @]

------------------------------------------------------------------------------
(* Hotspots among the console's own addresses.                             *)

\* Bank3F and Bank3E::snoop_write.  Bank3E selects <<ROM bank, RAM bank>>,
\* the RAM bank -1 while the ROM is in the lower window.
NoRamBank == -1
RamBanks == 32     \* detect() fits every 3E board with 32K

Bug3ELeavesRam(b, addr, val) ==
  CASE b.kind = "3F" /\ addr % 256 = \h3F -> <<val % b.banks>>
    [] b.kind = "3E" /\ addr % 256 = \h3F -> [b.sel EXCEPT ![1] = val % b.banks]
    [] b.kind = "3E" /\ addr % 256 = \h3E -> [b.sel EXCEPT ![2] = val]
    [] OTHER -> b.sel

TigervisionWrite(b, addr, val) ==
  CASE b.kind = "3F" /\ addr % 256 = \h3F -> <<val % b.banks>>
    [] b.kind = "3E" /\ addr % 256 = \h3F -> <<val % b.banks, NoRamBank>>
    [] b.kind = "3E" /\ addr % 256 = \h3E -> [b.sel EXCEPT ![2] = val % RamBanks]
    [] OTHER -> b.sel

\* BankUA and Bank0840::hotspot: a mask of address lines.
UAHotspot(sel, addr) ==
  CASE Lines(addr, {5, 6, 9, 12}) = {5, 9} -> <<0>>
    [] Lines(addr, {5, 6, 9, 12}) = {6, 9} -> <<1>>
    [] OTHER -> sel

EconoHotspot(sel, addr) ==
  CASE Lines(addr, {6, 11, 12}) = {11}    -> <<0>>
    [] Lines(addr, {6, 11, 12}) = {6, 11} -> <<1>>
    [] OTHER -> sel

\* BankSb::hotspot: the low byte, masked to the banks of the image.
SbHotspot(b, addr) ==
  IF Lines(addr, {11, 12}) = {11} THEN <<(addr % 256) % b.banks>> ELSE b.sel

\* BankX07::hotspot.
X07Hotspot(sel, addr) ==
  IF Lines(addr, {0, 1, 2, 3, 11, 12}) = {0, 2, 3, 11} THEN <<(addr \div 16) % 16>>
  ELSE IF Lines(addr, {7, 11, 12}) = {} /\ sel[1] \in {14, 15}
       THEN <<14 + ((addr \div 64) % 2)>>
  ELSE sel

\* BankFe::check_switch: the value of the access that follows one at 01FE
\* selects the bank, whatever that access is.  sel is <<bank, armed>>.
BugFeAtOnce(sel, addr, val) ==
  IF addr = \h01FE THEN <<1 - ((val \div 32) % 2), 0>> ELSE sel

FeSwitch(sel, addr, val) ==
  IF sel[2] = 1 THEN <<1 - ((val \div 32) % 2), 0>>
  ELSE <<sel[1], IF addr = \h01FE THEN 1 ELSE 0>>

------------------------------------------------------------------------------
(* Bank4A50: three slices, each of ROM or RAM, moved by accesses to the    *)
(* console that follow an access whose byte is 60..7F.  A slice's n counts *)
(* pages of 2K (low, middle) or 256 bytes (high).                          *)

Slice(rom, n) == [rom |-> rom, n |-> n]
Toggle(slice, bit) == [slice EXCEPT !.n = IF (@ \div bit) % 2 = 1 THEN @ - bit ELSE @ + bit]

\* record_access and hotspots_active.
Record4A50(sel, addr, val) ==
  [sel EXCEPT !.armed = val \in \h60 .. \h7F /\ (addr \in Window \/ addr < \h200)]

\* The hotspots that are live only after an arming access.
Armed4A50(sel, addr) ==
  LET page == (addr \div 256) % 16
      flag == Lines(addr, {4, 6})
  IN CASE page = 12 -> [sel EXCEPT !.high = Slice(TRUE, addr % 256)]
       [] page = 13 -> [sel EXCEPT !.high = Slice(FALSE, addr % 128)]
       [] page = 14 /\ 6 \notin flag -> [sel EXCEPT !.low = Slice(TRUE, addr % 32)]
       [] page = 14 /\ 6 \in flag    -> [sel EXCEPT !.low = Slice(FALSE, addr % 16)]
       [] page = 15 /\ 6 \notin flag -> [sel EXCEPT !.middle = Slice(TRUE, addr % 32)]
       [] page = 15 /\ flag = {6}    -> [sel EXCEPT !.middle = Slice(FALSE, addr % 16)]
       [] page = 4 -> [sel EXCEPT !.low = Toggle(@, 1)]
       [] page = 5 -> [sel EXCEPT !.low = Toggle(@, 2)]
       [] page = 8 -> [sel EXCEPT !.middle = Toggle(@, 1)]
       [] page = 9 -> [sel EXCEPT !.middle = Toggle(@, 2)]
       [] OTHER -> sel

\* The hotspots in the zero page, live at all times: the value says what.
ZeroPage4A50(sel, addr, val) ==
  LET lines == Lines(addr, {0, 2, 4, 5, 6, 8, 9, 10, 11})
      bank  == Lines(addr, {2, 3, 4, 5, 6, 8, 9, 10, 11}) = {3, 4, 5, 6}
  IN CASE lines = {2, 4, 5, 6}    -> [sel EXCEPT !.high = Slice(TRUE, val)]
       [] lines = {0, 2, 4, 5, 6} -> [sel EXCEPT !.high = Slice(FALSE, val % 128)]
       [] bank /\ val \div 16 = 0  -> [sel EXCEPT !.low = Slice(TRUE, val % 16)]
       [] bank /\ val \div 16 = 4  -> [sel EXCEPT !.low = Slice(FALSE, val % 16)]
       [] bank /\ val \div 16 = 9  -> [sel EXCEPT !.middle = Slice(TRUE, 16 + (val % 16))]
       [] bank /\ val \div 16 = 12 -> [sel EXCEPT !.middle = Slice(FALSE, val % 16)]
       [] OTHER -> sel

\* check_bank_switch.
Console4A50(sel, addr, val) ==
  ZeroPage4A50(IF sel.armed THEN Armed4A50(sel, addr) ELSE sel, addr, val)

\* An access to the last page moves the high slice by 16 pages at most.
LastPage4A50(sel, addr) ==
  IF sel.armed /\ addr \in \h1F00 .. \h1FFF
  THEN [sel EXCEPT !.high.n = (@ \div 16) * 16 + 8 * ((addr \div 8) % 2)
                                              + ((addr \div 16) % 8)]
  ELSE sel

Base(slice, unit, upper) ==
  IF slice.rom THEN Rom(slice.n * unit + upper) ELSE Ram(slice.n * unit)
At(place, i) == [place EXCEPT !.at = @ + i]

Place4A50(sel, a) ==
  CASE a < 2 * K -> At(Base(sel.low, 2 * K, 0), a)
    [] 2 * K <= a /\ a < \hE00 -> At(Base(sel.middle, 2 * K, 64 * K), a % (2 * K))
    [] \hE00 <= a /\ a < \hF00 -> At(Base(sel.high, 256, 64 * K), a % 256)
    [] OTHER -> Rom(\h1FF00 + (a % 256))

------------------------------------------------------------------------------
(* Where the byte of a read comes from, the hotspots done.                 *)

E0Slice(sel, a) == IF a \div K = 3 THEN 7 ELSE sel[(a \div K) + 1]

ReadPlaceCV(a) ==
  CASE a < K -> Ram(a) [] a \in K .. 2 * K - 1 -> Nothing [] OTHER -> Rom(a - 2 * K)

BugE7OnePage(sel, a) ==
  CASE a < 2 * K /\ sel[1] = 7     -> Ram(a % K)
    [] a < 2 * K /\ sel[1] # 7     -> Rom(sel[1] * 2 * K + a)
    [] a \in 2 * K .. \h9FF        -> Ram(K + (a % 256))
    [] OTHER                       -> Rom(7 * 2 * K + (a % (2 * K)))

ReadPlaceE7(sel, a) ==
  CASE a < 2 * K /\ sel[1] = 7     -> Ram(a % K)
    [] a < 2 * K /\ sel[1] # 7     -> Rom(sel[1] * 2 * K + a)
    [] a \in 2 * K .. \h9FF        -> Ram(K + sel[2] * 256 + (a % 256))
    [] OTHER                       -> Rom(7 * 2 * K + (a % (2 * K)))

BugRamOverTop(b, a) ==
  CASE b.kind = "3E" /\ b.sel[2] # NoRamBank -> Ram(b.sel[2] * K + (a % K))
    [] a >= 2 * K /\ (b.kind = "3E" => b.sel[2] = NoRamBank) ->
         Rom((b.banks - 1) * 2 * K + (a % (2 * K)))
    [] OTHER -> Rom(b.sel[1] * 2 * K + a)

ReadPlaceTigervision(b, a) ==
  CASE a >= 2 * K -> Rom((b.banks - 1) * 2 * K + (a % (2 * K)))
    [] a < 2 * K /\ b.kind = "3E" /\ b.sel[2] # NoRamBank -> Ram(b.sel[2] * K + (a % K))
    [] OTHER -> Rom(b.sel[1] * 2 * K + a)

ReadPlace(b, a) ==
  CASE b.kind = "2K" -> Rom(a % (2 * K))
    [] b.kind = "4K" -> Rom(a)
    [] b.kind = "CV" -> ReadPlaceCV(a)
    [] b.kind = "E7" -> ReadPlaceE7(b.sel, a)
    [] b.kind = "E0" -> Rom(E0Slice(b.sel, a) * K + (a % K))
    [] b.kind \in {"3F", "3E"} -> ReadPlaceTigervision(b, a)
    [] b.kind = "4A50" -> Place4A50(b.sel, a)
    [] HasSuperchip(b.kind) /\ a \in \h80 .. \hFF -> Ram(a % 128)
    [] b.kind = "FA" /\ a \in \h100 .. \h1FF -> Ram(a % 256)
    [] OTHER -> Rom(b.sel[1] * 4 * K + a)

\* Where the byte of a write goes, the hotspots done.
WritePlace(b, a) ==
  CASE HasSuperchip(b.kind) /\ a < \h80 -> Ram(a)
    [] b.kind = "FA" /\ a < \h100 -> Ram(a)
    [] b.kind = "CV" /\ a \in K .. 2 * K - 1 -> Ram(a % K)
    [] b.kind = "E7" /\ a < K /\ b.sel[1] = 7 -> Ram(a)
    [] b.kind = "E7" /\ a \in \h800 .. \h8FF -> Ram(K + b.sel[2] * 256 + (a % 256))
    [] b.kind = "3E" /\ a < K /\ b.sel[2] # NoRamBank -> Ram(b.sel[2] * K + a)
    [] b.kind = "4A50" /\ Place4A50(b.sel, a).mem = "ram" -> Place4A50(b.sel, a)
    [] OTHER -> Nothing

------------------------------------------------------------------------------
(* What a board does.  The byte v of a read is the one at its ReadPlace.   *)

\* The boards that watch every access and its value.
Watches(b, addr, v) ==
  [b EXCEPT !.sel = CASE b.kind = "FE"   -> FeSwitch(@, addr, v)
                      [] b.kind = "4A50" -> Record4A50(LastPage4A50(@, addr), addr, v)
                      [] OTHER           -> @]

AfterRead(b, addr, v) == Watches(Hotspot(b, addr), addr, v)

AfterWrite(b, addr, v) ==
  LET h == Hotspot(b, addr)
      p == WritePlace(h, Low(addr))
  IN Watches(IF p.mem = "ram" THEN [h EXCEPT !.ram = Store(@, p.at, v)] ELSE h, addr, v)

\* An access to the console, seen on the cartridge's edge: snoop_write comes
\* before the console has taken the byte, snoop_read after it has given it.
SnoopBoth(b, addr, v) ==
  [b EXCEPT !.sel = CASE b.kind = "UA"   -> UAHotspot(@, addr)
                      [] b.kind = "0840" -> EconoHotspot(@, addr)
                      [] b.kind = "SB"   -> SbHotspot(b, addr)
                      [] b.kind = "X07"  -> X07Hotspot(@, addr)
                      [] b.kind = "FE"   -> FeSwitch(@, addr, v)
                      [] b.kind = "4A50" -> Record4A50(Console4A50(@, addr, v), addr, v)
                      [] OTHER           -> @]

SnoopRead(b, addr, v) == SnoopBoth(b, addr, v)
SnoopWrite(b, addr, v) ==
  IF b.kind \in {"3F", "3E"} THEN [b EXCEPT !.sel = TigervisionWrite(b, addr, v)]
  ELSE SnoopBoth(b, addr, v)

------------------------------------------------------------------------------
(* The constructors: an image of so many bytes in the board `kind`.        *)

\* The image a board takes; Bank4A50 repeats a smaller one to 128K.
Fits(kind, size) ==
  CASE kind \in {"2K"} -> size = 2 * K
    [] kind = "4K" -> size = 4 * K
    [] kind = "CV" -> size \in {2 * K, 4 * K}
    [] HasRun(kind) -> size = Runs[Scheme(kind)].count * 4 * K
    [] kind = "E7" -> size = 16 * K
    [] kind \in {"F0", "X07"} -> size = 64 * K
    [] kind \in {"E0", "UA", "0840", "FE"} -> size = 8 * K
    [] kind \in {"3F", "3E"} -> size > 0 /\ size % (2 * K) = 0
    [] kind = "SB" -> size \in {128 * K, 256 * K}
    [] kind = "4A50" -> size \in {32 * K, 64 * K, 128 * K}
    [] OTHER -> FALSE

\* The banks that are counted in a byte (3F, 3E, SB).
Banks(kind, size) ==
  IF kind \in {"3F", "3E"} THEN (size \div (2 * K)) % 256 ELSE size \div (4 * K)

StartSel(kind) ==
  CASE HasRun(kind)  -> <<Runs[Scheme(kind)].start>>
    [] kind = "E7"   -> <<0, 0>>
    [] kind = "F0"   -> <<15>>
    [] kind = "E0"   -> <<4, 5, 6>>
    [] kind = "3E"   -> <<0, NoRamBank>>
    [] kind = "FE"   -> <<0, 0>>
    [] kind = "4A50" -> [low |-> Slice(TRUE, 0), middle |-> Slice(TRUE, 0),
                         high |-> Slice(TRUE, 0), armed |-> FALSE]
    [] OTHER         -> <<0>>

NewBoard(kind, size) ==
  [kind |-> kind, banks |-> Banks(kind, size), sel |-> StartSel(kind), ram |-> EmptyRam]

RomSize(b) ==
  CASE b.kind \in {"2K", "CV"} -> 2 * K
    [] b.kind = "4A50" -> 128 * K
    [] b.kind \in {"3F", "3E"} -> b.banks * 2 * K
    [] OTHER -> b.banks * 4 * K

RamSize(b) ==
  CASE HasSuperchip(b.kind) -> 128
    [] b.kind = "FA" -> 256
    [] b.kind = "CV" -> K
    [] b.kind = "E7" -> 2 * K
    [] b.kind = "3E" -> RamBanks * K
    [] b.kind = "4A50" -> 32 * K
    [] OTHER -> 0

==============================================================================
