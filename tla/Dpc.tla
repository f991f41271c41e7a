--------------------------------- MODULE Dpc ---------------------------------
(***************************************************************************)
(* BankDpc of crates/rusty2600-cart/src/lib.rs: 8K of program in two banks *)
(* and eight data fetchers that count down through 2K of display data,     *)
(* each with a flag that says whether it is between its top and its        *)
(* bottom, and a shift register of random numbers.                         *)
(***************************************************************************)
EXTENDS Bytes

DpcFetcher == [low |-> 0, hi |-> 0, top |-> 0, bottom |-> 0, flag |-> FALSE, music |-> FALSE]
DpcFetchers ==
  [low : 0 .. 255, hi : 0 .. 255, top : 0 .. 255, bottom : 0 .. 255, flag : BOOLEAN, music : BOOLEAN]
DpcBoards == [kind : {"DPC"}, bank : {0, 1}, f : [0 .. 7 -> DpcFetchers], random : 0 .. 255]
NewDpc == [kind |-> "DPC", bank |-> 1, f |-> [i \in 0 .. 7 |-> DpcFetcher], random |-> 1]

F8Bank(bank, addr) == CASE addr = \h1FF8 -> 0 [] addr = \h1FF9 -> 1 [] OTHER -> bank

\* clock_rng: the new bit is NOT of the XOR of bits 7, 5, 4 and 3.
BugClockRng(r) == Byte(2 * r) + ((Bit(r, 7) + Bit(r, 5) + Bit(r, 4) + Bit(r, 3)) % 2)
ClockRng(r) == Byte(2 * r) + ((Bit(r, 7) + Bit(r, 5) + Bit(r, 4) + Bit(r, 3) + 1) % 2)

\* fetcher_clock; only the last three fetchers are ever in music mode.
ClockFetcher(f) ==
  IF f.low > 0 THEN [f EXCEPT !.low = @ - 1]
  ELSE [f EXCEPT !.low = IF f.music THEN f.top ELSE 255, !.hi = Dec(@)]

SetFlag(f) ==
  [f EXCEPT !.flag = CASE f.low = f.top -> TRUE
                       [] f.low = f.bottom /\ f.low # f.top -> FALSE
                       [] OTHER -> @]

\* Where in the 2K of display data the fetcher points.
GfxAddr(f) == 2047 - ((f.hi * 256 + f.low) % 2048)

\* Every access moves the random number on, register or not.
DpcSeen(b, addr) == [b EXCEPT !.bank = F8Bank(@, addr), !.random = ClockRng(@)]

DpcIndex(addr) == addr % 8
DpcFunction(addr) == (addr \div 8) % 8

DpcRead(b, addr) ==
  LET i == DpcIndex(addr)
      s == [DpcSeen(b, addr) EXCEPT !.f[i] = SetFlag(@)]
  IN IF Offset(addr) >= \h80 THEN DpcSeen(b, addr)
     ELSE IF s.f[i].music THEN s ELSE [s EXCEPT !.f[i] = ClockFetcher(@)]

\* The mix of the three music fetchers' flags.
DpcMix(b) ==
  LET on(i, n) == IF b.f[i].music /\ b.f[i].flag THEN n ELSE 0
  IN on(5, 4) + on(6, 5) + on(7, 6)

\* The byte a register read gives; display is the byte at GfxAddr.
DpcValue(b, addr, display) ==
  LET i == DpcIndex(addr)
      s == [DpcSeen(b, addr) EXCEPT !.f[i] = SetFlag(@)]
  IN CASE DpcFunction(addr) = 0 /\ i < 4  -> s.random
       [] DpcFunction(addr) = 0 /\ i >= 4 -> DpcMix(s)
       [] DpcFunction(addr) = 1 -> display
       [] DpcFunction(addr) = 2 -> IF s.f[i].flag THEN display ELSE 0
       [] DpcFunction(addr) = 7 -> IF s.f[i].flag THEN 255 ELSE 0
       [] OTHER -> 0

\* What a write does to its fetcher.
Written(f, i, function, v) ==
  CASE function = 0 -> [f EXCEPT !.top = v, !.flag = FALSE]
    [] function = 1 -> [f EXCEPT !.bottom = v]
    [] function = 2 -> [f EXCEPT !.low = IF f.music THEN f.top ELSE v]
    [] function = 3 -> [f EXCEPT !.hi = v, !.music = i >= 5 /\ Bit(v, 4) = 1]
    [] OTHER -> f

DpcWrite(b, addr, v) ==
  LET s == DpcSeen(b, addr)
      i == DpcIndex(addr)
  IN IF Offset(addr) \notin \h40 .. \h7F THEN s
     ELSE IF DpcFunction(addr) = 6 THEN [s EXCEPT !.random = 1]
     ELSE [s EXCEPT !.f[i] = Written(@, i, DpcFunction(addr), v)]

==============================================================================
