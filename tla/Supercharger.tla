---------------------------- MODULE Supercharger ----------------------------
(***************************************************************************)
(* BankAr of crates/rusty2600-cart/src/lib.rs: 6K of RAM in three banks    *)
(* and a BIOS in a fourth, two of them in the window, filled from the      *)
(* loads of a tape.  A program stores a byte without a write: it reads     *)
(* 10xx, which holds the byte xx, and touches the cell a fixed number of   *)
(* accesses later.                                                         *)
(***************************************************************************)
EXTENDS Bytes, Sequences

Bios == 3                  \* the bank that is not RAM
BankSize == 2048
WriteDelay == 5

\* Which banks the lower and the upper half of the window show, by bits 4-2 of
\* the configuration.
LowBank == <<2, 0, 2, 0, 2, 1, 2, 1>>
HighBank == <<3, 3, 0, 2, 3, 3, 1, 2>>

BankConfiguration(b, config) ==
  LET i == ((config \div 4) % 8) + 1
  IN [b EXCEPT !.low = LowBank[i], !.high = HighBank[i],
               !.power = Bit(config, 0) = 0, !.writes = Bit(config, 1) = 1]

\* take_oob_pokes: what each cell is to get.
NoPokes == [a \in {} |-> 0]

\* new and reset_state.  The tape is a sequence of loads
\* [number, pages, config, startLow, startHigh]; the pages say which page of which bank gets
\* which content, which is its first byte.  ram is the map of the cells that are not 0.
NewAr(tape) ==
  BankConfiguration(
    [kind |-> "AR", tape |-> tape, ram |-> [i \in {} |-> 0], low |-> 0, high |-> 0,
     power |-> TRUE, writes |-> FALSE, hold |-> 0, accesses |-> 0, at_hold |-> 0,
     pending |-> FALSE, zp80 |-> 0, pokes |-> NoPokes], 0)

ArCell(ram, i) == IF i \in DOMAIN ram THEN ram[i] ELSE 0
ArPut(ram, i, v) == [j \in DOMAIN ram \cup {i} |-> IF j = i THEN v ELSE ram[j]]

\* What every board of the kind is like: its RAM's cells lie in three banks, and
\* so do those that a load fills, or in the BIOS.
IsAr(b) ==
  /\ b \in [kind : {"AR"}, tape : {b.tape}, ram : {b.ram}, low : 0 .. 2, high : 0 .. 3, power : BOOLEAN,
            writes : BOOLEAN, hold : 0 .. 255, accesses : Nat, at_hold : Nat, pending : BOOLEAN,
            zp80 : {b.zp80}, pokes : {b.pokes}]
  /\ DOMAIN b.ram \subseteq 0 .. Bios * BankSize - 1
  /\ DOMAIN b.tape \subseteq Nat
  /\ \A i \in DOMAIN b.tape : DOMAIN b.tape[i].pages \subseteq (0 .. Bios) \X (0 .. 7)

\* image_index.
ImageIndex(b, addr) ==
  (addr % BankSize) + BankSize * IF Bit(addr, 11) = 1 THEN b.high ELSE b.low

\* note_access: the count of accesses, which cancels a write that is late.
NoteAccess(b) ==
  LET n == b.accesses + 1
  IN [b EXCEPT !.accesses = n, !.pending = @ /\ n <= b.at_hold + WriteDelay]

\* handle_hotspot.
BugHotspot(b, addr) ==
  LET holds == (addr \div 256) % 16 = 0 /\ ~ (b.writes /\ b.pending)
  IN IF holds THEN [b EXCEPT !.hold = Lo(addr), !.at_hold = b.accesses, !.pending = TRUE]
     ELSE IF addr = \h1FF8 THEN BankConfiguration([b EXCEPT !.pending = FALSE], b.hold)
     ELSE IF b.writes /\ b.pending /\ b.accesses >= b.at_hold + WriteDelay - 1
     THEN [b EXCEPT !.pending = FALSE, !.ram = ArPut(@, ImageIndex(b, addr), b.hold)]
     ELSE b

HandleHotspot(b, addr) ==
  LET holds == (addr \div 256) % 16 = 0 /\ ~ (b.writes /\ b.pending)
      due   == b.writes /\ b.pending /\ b.accesses = b.at_hold + WriteDelay
      bank  == ImageIndex(b, addr) \div BankSize
  IN IF holds THEN [b EXCEPT !.hold = Lo(addr), !.at_hold = b.accesses, !.pending = TRUE]
     ELSE IF addr = \h1FF8 THEN BankConfiguration([b EXCEPT !.pending = FALSE], b.hold)
     ELSE IF due THEN [b EXCEPT !.pending = FALSE,
                                !.ram = IF bank # Bios THEN ArPut(@, ImageIndex(b, addr), b.hold)
                                        ELSE @]
     ELSE b

\* load_into_ram: the first load of that number, its pages for the banks of
\* RAM, and what the BIOS finds in the zero page of the console.
Numbered(b) == {i \in DOMAIN b.tape : b.tape[i].number = b.zp80}
Filled(ram, pages) ==
  LET to    == {p \in DOMAIN pages : p[1] # Bios}
      of(i) == <<i \div BankSize, (i % BankSize) \div 256>>
      first == {p[1] * BankSize + p[2] * 256 : p \in to}
  IN [i \in first \cup {j \in DOMAIN ram : of(j) \notin to} |->
        IF i \in first THEN pages[of(i)] ELSE ram[i]]

LoadIntoRam(b) ==
  IF Numbered(b) = {} THEN b
  ELSE LET first == b.tape[CHOOSE i \in Numbered(b) : \A j \in Numbered(b) : i <= j]
       IN [b EXCEPT !.ram = Filled(@, first.pages),
                    !.pokes = [a \in {\h80, \hFE, \hFF} |-> CASE a = \hFE -> first.config
                                                          [] a = \hFF -> first.startLow
                                                          [] a = \h80 -> first.startHigh]]

\* cpu_read; the byte is the one at ImageIndex of the board it returns.
FastLoad == \h1850
ArRead(b, addr) ==
  LET n == NoteAccess(b)
  IN HandleHotspot(IF addr = FastLoad /\ n.high = Bios THEN LoadIntoRam(n) ELSE n, addr)
ArWrite(b, addr) == HandleHotspot(NoteAccess(b), addr)

\* snoop_read and snoop_write: the number of the load is staged in cell 80.
ArSnoop(b, addr, v) == [NoteAccess(b) EXCEPT !.zp80 = IF addr = \h80 THEN v ELSE @]

==============================================================================
