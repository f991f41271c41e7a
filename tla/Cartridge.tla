------------------------------ MODULE Cartridge ------------------------------
(***************************************************************************)
(* A cartridge on the bus (crates/rusty2600-core/src/bus.rs): an image is  *)
(* detected and put into a board, and a program then reads and writes the  *)
(* cartridge's window and the console's half of the address space in any   *)
(* order.  The board sees both.  Its image may hold any bytes.             *)
(***************************************************************************)
EXTENDS Detection

CONSTANTS Images,       \* what may be inserted: [size, marks]
          Addresses,    \* the 13-bit addresses a program for a board uses
          Values,       \* the bytes it reads and writes
          MaxCells      \* bound: the RAM cells of the board it writes to

VARIABLES image,        \* what was inserted
          board,        \* the board it is in
          page,         \* the high byte of the address the program runs at
          callers       \* the high bytes its calls have stacked

cartridgeVars == <<image, board, page, callers>>

NoImage == [size |-> 0, marks |-> {}]
NoBoard == [kind |-> "none", banks |-> 0, sel |-> <<>>, ram |-> EmptyRam]
Inserted == board.kind # "none"

\* The boards with a processor or a tape are in the module Coprocessor.
Plain == {"2K", "4K", "CV", "F8", "F6", "F4", "FA", "E7", "F0", "E0", "3F", "3E", "EF", "DF",
          "BF", "UA", "0840", "FE", "SB", "X07", "4A50"} \cup DOMAIN Superchips

ASSUME CartridgeAssumption ==
  /\ \A im \in Images : im.size \in Nat /\ im.marks \subseteq Marks
  /\ \A kind \in Plain : Addresses[kind] \subseteq Console \cup Window
  /\ Values \subseteq 0 .. 255

CartridgeInit ==
  /\ image = NoImage
  /\ board = NoBoard
  /\ page = \hF0
  /\ callers = <<>>

\* What becomes of the image's file: detect() and the board's new().
Insert(im) ==
  /\ ~ Inserted
  /\ image' = im
  /\ board' = IF Detect(im) = "none" THEN NoBoard ELSE NewBoard(Detect(im), im.size)
  /\ UNCHANGED <<page, callers>>

------------------------------------------------------------------------------
(* The bus.                                                                *)

\* The bytes a read in the window may give.
Given(b, addr) ==
  LET p == ReadPlace(Hotspot(b, addr), Low(addr))
  IN CASE p.mem = "rom"  -> Values
       [] p.mem = "ram"  -> {Cell(b.ram, p.at)}
       [] p.mem = "none" -> {0}

\* What the board is after an access [op, addr, v].
Seen(b, access) ==
  CASE access.op = "read"  /\ access.addr \in Window  -> AfterRead(b, access.addr, access.v)
    [] access.op = "write" /\ access.addr \in Window  -> AfterWrite(b, access.addr, access.v)
    [] access.op = "read"  /\ access.addr \in Console -> SnoopRead(b, access.addr, access.v)
    [] access.op = "write" /\ access.addr \in Console -> SnoopWrite(b, access.addr, access.v)

\* The top of an FE program's stack is for its calls.
Free(addr) == board.kind = "FE" => addr \notin \h01FC .. \h01FF

Access(op, addr, v) ==
  /\ Free(addr)
  /\ board' = Seen(board, [op |-> op, addr |-> addr, v |-> v])
  /\ UNCHANGED <<image, page, callers>>

CpuRead ==
  /\ board.kind \in Plain
  /\ \E addr \in Addresses[board.kind] :
       \E v \in IF addr \in Window THEN Given(board, addr) ELSE Values : Access("read", addr, v)

CpuWrite ==
  /\ board.kind \in Plain
  /\ \E addr \in Addresses[board.kind], v \in Values :
       /\ Cardinality(DOMAIN board.ram) >= MaxCells =>
            WritePlace(Hotspot(board, addr), Low(addr)).at \in DOMAIN board.ram \/ addr \in Console
       /\ Access("write", addr, v)

------------------------------------------------------------------------------
(* Calls and returns of an FE program, with the stack pointer at FF: the   *)
(* accesses of JSR and RTS in the order of crates/rusty2600-cpu.           *)

R(addr, v) == [op |-> "read", addr |-> addr, v |-> v]
W(addr, v) == [op |-> "write", addr |-> addr, v |-> v]

JsrAccesses(from, to) ==
  << R(\h1200, \h20), R(\h1201, \h34), R(\h01FF, 0), W(\h01FF, from), W(\h01FE, \h02),
     R(\h1202, to) >>

RtsAccesses(to) ==
  << R(\h1234, \h60), R(\h1235, \hA9), R(\h01FD, 0), R(\h01FE, \h02), R(\h01FF, to),
     R(\h1202, \hA9) >>

\* All six, one after the other.
Watched(accesses) ==
  LET first == Seen(Seen(Seen(board, accesses[1]), accesses[2]), accesses[3])
  IN  Seen(Seen(Seen(first, accesses[4]), accesses[5]), accesses[6])

Jsr(to) ==
  /\ board.kind = "FE"
  /\ callers = <<>>
  /\ board' = Watched(JsrAccesses(page, to))
  /\ callers' = <<page>>
  /\ page' = to
  /\ UNCHANGED image

Rts ==
  /\ board.kind = "FE"
  /\ callers # <<>>
  /\ board' = Watched(RtsAccesses(Head(callers)))
  /\ page' = Head(callers)
  /\ callers' = <<>>
  /\ UNCHANGED image

CartridgeNext ==
  \/ \E im \in Images : Insert(im)
  \/ CpuRead
  \/ CpuWrite
  \/ \E to \in {\hD0, \hF0} : Jsr(to)
  \/ Rts

CartridgeSpec == CartridgeInit /\ [][CartridgeNext]_cartridgeVars

------------------------------------------------------------------------------
(* Properties.                                                             *)

\* The ends of every region some board divides its window into.
Ends == {0, \h7F, \h80, \hFF, \h100, \h1FF, \h3FF, \h400, \h7FF, \h800, \h8FF, \h9FF, \hA00,
         \hBFF, \hC00, \hDFF, \hE00, \hEFF, \hF00, \hFFC, \hFFF}

\* No order of accesses drives a board outside its own memory: every address
\* of the window is read and written inside the image or the RAM the board
\* has (an index beyond them would stop the emulator), and every register
\* keeps the range that takes.
InBounds ==
  board.kind \in Plain =>
    /\ board.kind # "4A50" => \A i \in DOMAIN board.sel : board.sel[i] \in -1 .. 127
    /\ \A a \in Ends : \A p \in {ReadPlace(board, a), WritePlace(board, a)} :
         /\ p.mem = "rom" => p.at \in 0 .. RomSize(board) - 1
         /\ p.mem = "ram" => p.at \in 0 .. RamSize(board) - 1

\* The boards with RAM, and how far above the port that writes its cell lies
\* the one that reads it.
HasRam == DOMAIN Superchips \cup {"FA", "E7", "CV", "3E", "4A50"}
ReadPort(kind, a) ==
  CASE kind \in DOMAIN Superchips -> \h80
    [] kind = "FA" -> \h100
    [] kind = "E7" -> IF a >= \h800 THEN \h100 ELSE \h400
    [] kind = "CV" -> -\h400
    [] kind = "3E" -> \h400
    [] kind = "4A50" -> 0

\* What a program stores through a board's write port it finds at the read
\* port, in whatever bank the hotspots have left the board.
StoredIsRead ==
  board.kind \in HasRam =>
    \A a \in Ends : WritePlace(board, a).mem = "ram" =>
      ReadPlace(board, a + ReadPort(board.kind, a)) = WritePlace(board, a)

\* A board whose top is fixed serves the same reset vector and the same
\* hotspots' code after any sequence of accesses, so that a console reset
\* always finds its program.
VectorsStay ==
  board.kind \in {"2K", "4K", "CV", "E7", "E0", "3F", "3E", "4A50"} =>
    ReadPlace(board, \hFFC) = Rom(RomSize(board) - 4)

\* The board an image is given takes an image of that size, detect() never
\* picks a board only to have its new() refuse; and a program that banks RAM
\* through $3E is never put into a board without it: the scheme with fewer
\* hotspots is asked last.
DetectedFits ==
  /\ Inserted => Takes(board.kind, image.size)
  /\ {"3E", "3F"} \subseteq image.marks => board.kind # "3F"

\* Wherever an FE program calls or returns, the bank that holds the target is
\* selected by the time its first instruction is fetched.
FeLands == board.kind = "FE" => board.sel = <<IF page = \hD0 THEN 1 ELSE 0, 0>>

==============================================================================
