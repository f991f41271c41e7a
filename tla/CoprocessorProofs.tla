-------------------------- MODULE CoprocessorProofs --------------------------
(***************************************************************************)
(* Proofs about the cartridges with a machine of their own, for every      *)
(* program: the board stays one of its kind, the DPC's random number never *)
(* sticks, fetchers lose nothing, and the tape's machine writes its RAM    *)
(* only as it is meant to.  From bottom up: what each board does with one  *)
(* access and one tick, then with a cycle of the bus, then along the       *)
(* accesses of an instruction and the ticks of a stall, and then the       *)
(* invariant.                                                              *)
(***************************************************************************)
EXTENDS Coprocessor, WellFoundedInduction, FiniteSetTheorems, TLAPS

------------------------------------------------------------------------------
(* Positions, and functions defined along them.                            *)

LEMMA LeastNat ==
  ASSUME NEW T \in SUBSET Nat, T # {}
  PROVE  \E n \in T : \A k \in T : n <= k
<1>1. PICK n \in T : \A k \in T : ~ (<<k, n>> \in OpToRel(<, Nat))
  BY NatLessThanWellFounded, WFMin
<1>2. \A k \in T : ~ (k < n)
  BY <1>1 DEF OpToRel
<1> QED
  BY <1>2

\* What is so at the start, and goes on from each position to the next, is so
\* at all of them.
LEMMA AllPositions ==
  ASSUME NEW n \in Nat, NEW Good \in SUBSET (0 .. n), 0 \in Good,
         \A k \in 1 .. n : k - 1 \in Good => k \in Good
  PROVE  Good = 0 .. n
<1> SUFFICES ASSUME (0 .. n) \ Good # {} PROVE FALSE
  OBVIOUS
<1>1. PICK k \in (0 .. n) \ Good : \A j \in (0 .. n) \ Good : k <= j
  <2>1. (0 .. n) \ Good \in SUBSET Nat
    OBVIOUS
  <2> QED
    BY <2>1, LeastNat
<1>2. k \in 1 .. n
  BY <1>1
<1>3. k - 1 \in 0 .. n /\ ~ (k <= k - 1)
  BY <1>2
<1>4. k - 1 \in Good
  BY <1>1, <1>3
<1> QED
  BY <1>1, <1>2, <1>4

\* The four sequences of steps that the specification takes at once.
After(what, s, x, arm) ==
  CASE what = "cycle" -> BusCycle(s, x, arm)
    [] what = "tick" -> Tick(s)
    [] what = "store" -> DpcPlusStore(s, x)
    [] what = "cdf store" -> CdfStore(s, x)

Follows(f, what, s, xs, arm, n) ==
  f = [i \in 0 .. n |-> IF i = 0 THEN s ELSE After(what, f[i - 1], xs[i], arm)]

\* There is a function that takes the steps one by one.
LEMMA FollowsExists ==
  ASSUME NEW what, NEW s, NEW xs, NEW arm, NEW n \in Nat
  PROVE  \E f : Follows(f, what, s, xs, arm, n)
<1> DEFINE Good == {k \in 0 .. n : \E f : Follows(f, what, s, xs, arm, k)}
<1>1. 0 \in Good
  <2> DEFINE f == [i \in 0 .. 0 |-> s]
  <2>1. f = [i \in 0 .. 0 |-> IF i = 0 THEN s ELSE After(what, f[i - 1], xs[i], arm)]
    OBVIOUS
  <2>2. Follows(f, what, s, xs, arm, 0)
    BY <2>1 DEF Follows
  <2> HIDE DEF f
  <2> QED
    BY <2>2
<1>2. ASSUME NEW k \in 1 .. n, k - 1 \in Good PROVE k \in Good
  <2>1. PICK f : Follows(f, what, s, xs, arm, k - 1)
    BY <1>2
  <2>2. f = [i \in 0 .. k - 1 |-> IF i = 0 THEN s ELSE After(what, f[i - 1], xs[i], arm)]
    BY <2>1 DEF Follows
  <2> DEFINE g == [i \in 0 .. k |-> IF i = k THEN After(what, f[k - 1], xs[k], arm) ELSE f[i]]
  <2>3. \A i \in 0 .. k : g[i] = IF i = 0 THEN s ELSE After(what, g[i - 1], xs[i], arm)
    <3> TAKE i \in 0 .. k
    <3>1. CASE i = k
      <4>1. g[k] = After(what, f[k - 1], xs[k], arm) /\ g[k - 1] = f[k - 1] /\ k # 0
        OBVIOUS
      <4> QED
        BY <3>1, <4>1
    <3>2. CASE i # k
      <4>1. i \in 0 .. k - 1 /\ g[i] = f[i]
        BY <3>2
      <4>2. f[i] = IF i = 0 THEN s ELSE After(what, f[i - 1], xs[i], arm)
        BY <2>2, <4>1
      <4>3. i # 0 => i - 1 \in 0 .. k /\ i - 1 # k /\ g[i - 1] = f[i - 1]
        BY <4>1
      <4> QED
        BY <4>1, <4>2, <4>3
    <3> QED
      BY <3>1, <3>2
  <2>4. Follows(g, what, s, xs, arm, k)
    BY <2>3 DEF Follows
  <2> QED
    BY <2>4
<1> HIDE DEF Good
<1>3. Good = 0 .. n
  <2>1. Good \in SUBSET (0 .. n)
    BY DEF Good
  <2> QED
    BY <1>1, <1>2, <2>1, AllPositions
<1> QED
  BY <1>3 DEF Good

\* What the four of them compute.
LEMMA RunArmIs ==
  ASSUME NEW b, NEW stores
  PROVE  LET obeyed == Obeyed(DpcPlusSegments(b), stores) IN
         Len(obeyed) \in Nat =>
         \E f : /\ f[0] = b /\ RunArm(b, stores) = f[Len(obeyed)]
                /\ \A i \in 1 .. Len(obeyed) : f[i] = DpcPlusStore(f[i - 1], obeyed[i])
<1> DEFINE obeyed == Obeyed(DpcPlusSegments(b), stores)
           n == Len(obeyed)
           Is(f) == f = [i \in 0 .. n |-> IF i = 0 THEN b ELSE DpcPlusStore(f[i - 1], obeyed[i])]
           after == CHOOSE f : Is(f)
<1> SUFFICES ASSUME n \in Nat
             PROVE  \E f : /\ f[0] = b /\ RunArm(b, stores) = f[n]
                           /\ \A i \in 1 .. n : f[i] = DpcPlusStore(f[i - 1], obeyed[i])
  OBVIOUS
<1>1. \E f : Is(f)
  <2> HIDE DEF obeyed
  <2>1. PICK f : Follows(f, "store", b, obeyed, 0, n)
    BY FollowsExists, Zenon
  <2>2. Is(f)
    BY <2>1 DEF Follows, After
  <2> QED
    BY <2>2
<1>2. RunArm(b, stores) = after[n]
  BY Zenon DEF RunArm
<1>3. Is(after)
  BY <1>1, Zenon
<1> HIDE DEF after, obeyed
<1>4. after[0] = b /\ \A i \in 1 .. n : after[i] = DpcPlusStore(after[i - 1], obeyed[i])
  BY <1>3
<1> QED
  BY <1>2, <1>4, Zenon

LEMMA CdfArmIs ==
  ASSUME NEW b, NEW run
  PROVE  LET obeyed == Obeyed(CdfSegments(b), run.stores) IN
         Len(obeyed) \in Nat =>
         \E f : /\ f[0] = b
                /\ \A i \in 1 .. Len(obeyed) : f[i] = CdfStore(f[i - 1], obeyed[i])
                /\ CdfRunArm(b, run) =
                     [f[Len(obeyed)] EXCEPT !.music = IF obeyed = run.stores THEN ArmService(@, run) ELSE @]
<1> DEFINE obeyed == Obeyed(CdfSegments(b), run.stores)
           n == Len(obeyed)
           Is(f) == f = [i \in 0 .. n |-> IF i = 0 THEN b ELSE CdfStore(f[i - 1], obeyed[i])]
           after == CHOOSE f : Is(f)
<1> SUFFICES ASSUME n \in Nat
             PROVE  \E f : /\ f[0] = b
                           /\ \A i \in 1 .. n : f[i] = CdfStore(f[i - 1], obeyed[i])
                           /\ CdfRunArm(b, run) =
                                [f[n] EXCEPT !.music = IF obeyed = run.stores THEN ArmService(@, run) ELSE @]
  OBVIOUS
<1>1. \E f : Is(f)
  <2> HIDE DEF obeyed
  <2>1. PICK f : Follows(f, "cdf store", b, obeyed, 0, n)
    BY FollowsExists, Zenon
  <2>2. Is(f)
    BY <2>1 DEF Follows, After
  <2> QED
    BY <2>2
<1>2. CdfRunArm(b, run) =
        [after[n] EXCEPT !.music = IF obeyed = run.stores THEN ArmService(@, run) ELSE @]
  BY Zenon DEF CdfRunArm
<1>3. Is(after)
  BY <1>1, Zenon
<1> HIDE DEF after, obeyed
<1>4. after[0] = b /\ \A i \in 1 .. n : after[i] = CdfStore(after[i - 1], obeyed[i])
  BY <1>3
<1> QED
  BY <1>2, <1>4, Zenon

LEMMA TickedIs ==
  ASSUME NEW n \in Nat
  PROVE  \E f : /\ f[0] = cart /\ Ticked(n) = f[n]
                /\ \A i \in 1 .. n : f[i] = Tick(f[i - 1])
<1> DEFINE Is(f) == f = [i \in 0 .. n |-> IF i = 0 THEN cart ELSE Tick(f[i - 1])]
           after == CHOOSE f : Is(f)
<1>1. \E f : Is(f)
  <2>1. PICK f : Follows(f, "tick", cart, <<>>, 0, n)
    BY FollowsExists, Zenon
  <2>2. Is(f)
    BY <2>1 DEF Follows, After
  <2> QED
    BY <2>2
<1>2. Ticked(n) = after[n]
  BY Zenon DEF Ticked
<1>3. Is(after)
  BY <1>1, Zenon
<1> HIDE DEF after
<1>4. after[0] = cart /\ \A i \in 1 .. n : after[i] = Tick(after[i - 1])
  BY <1>3
<1> QED
  BY <1>2, <1>4, Zenon

LEMMA ExecutedIs ==
  ASSUME NEW code, NEW arm, Len(code) \in Nat
  PROVE  \E f : /\ f[0].cart = cart /\ Executed(code, arm) = f[Len(code)]
                /\ \A i \in 1 .. Len(code) : f[i] = BusCycle(f[i - 1], code[i], arm)
<1> DEFINE n == Len(code)
           start == [cart |-> cart, riot |-> riot, bytes |-> <<>>]
           Is(f) == f = [i \in 0 .. n |-> IF i = 0 THEN start ELSE BusCycle(f[i - 1], code[i], arm)]
           after == CHOOSE f : Is(f)
<1>1. \E f : Is(f)
  <2> HIDE DEF start
  <2>1. PICK f : Follows(f, "cycle", start, code, arm, n)
    BY FollowsExists, Zenon
  <2>2. Is(f)
    BY <2>1 DEF Follows, After
  <2> QED
    BY <2>2
<1>2. Executed(code, arm) = after[n]
  BY Zenon DEF Executed
<1>3. Is(after)
  BY <1>1, Zenon
<1>4. start.cart = cart
  OBVIOUS
<1> HIDE DEF after, start
<1>5. after[0] = start /\ \A i \in 1 .. n : after[i] = BusCycle(after[i - 1], code[i], arm)
  BY <1>3
<1> QED
  BY <1>2, <1>4, <1>5, Zenon

------------------------------------------------------------------------------
(* DPC.                                                                    *)

\* Only 127 and 255 have seven ones below the top bit, and 127 goes on to 254.
LEMMA ClockRngMoves ==
  ASSUME NEW r \in 0 .. 254
  PROVE  ClockRng(r) \in 0 .. 254
<1>1. Byte(2 * r) \in 0 .. 254 /\ Byte(2 * r) % 2 = 0
  BY DEF Byte
<1>2. ClockRng(r) \in {Byte(2 * r), Byte(2 * r) + 1}
  <2> DEFINE s == Bit(r, 7) + Bit(r, 5) + Bit(r, 4) + Bit(r, 3) + 1
  <2>1. s \in Int
    BY DEF Bit
  <2> HIDE DEF s
  <2>2. s % 2 \in {0, 1}
    BY <2>1
  <2>3. ClockRng(r) = Byte(2 * r) + (s % 2)
    BY DEF ClockRng, s
  <2> QED
    BY <1>1, <2>2, <2>3
<1>3. Byte(2 * r) = 254 => r = 127
  BY DEF Byte
<1>4. ClockRng(127) = 254
  <2>1. Bit(127, 7) = 0 /\ Bit(127, 5) = 1 /\ Bit(127, 4) = 1 /\ Bit(127, 3) = 1
    BY DEF Bit
  <2> QED
    BY <2>1 DEF ClockRng, Byte
<1> QED
  BY <1>1, <1>2, <1>3, <1>4

DpcMoving == {b \in DpcBoards : b.random # 255}

LEMMA DpcSeenMoves ==
  ASSUME NEW b \in DpcMoving, NEW addr \in BusAddrs
  PROVE  DpcSeen(b, addr) \in DpcMoving
<1>1. b.random \in 0 .. 254
  BY DEF DpcMoving, DpcBoards
<1>2. ClockRng(b.random) \in 0 .. 254
  BY <1>1, ClockRngMoves
<1>3. F8Bank(b.bank, addr) \in {0, 1}
  BY DEF F8Bank, DpcMoving, DpcBoards
<1>4. ASSUME NEW bank \in {0, 1}, NEW random \in 0 .. 254
      PROVE  [b EXCEPT !.bank = bank, !.random = random] \in DpcMoving
  <2>1. random \in 0 .. 255 /\ random # 255
    OBVIOUS
  <2> DEFINE Numbers == 0 .. 255
             Eight == 0 .. 7
  <2> HIDE DEF Numbers, Eight
  <2>2. b \in [kind : {"DPC"}, bank : {0, 1}, f : [Eight -> DpcFetchers], random : Numbers]
    BY DEF DpcMoving, DpcBoards, Numbers, Eight
  <2>3. random \in Numbers
    BY <2>1 DEF Numbers
  <2> DEFINE c == [b EXCEPT !.bank = bank, !.random = random]
  <2>4. c \in [kind : {"DPC"}, bank : {0, 1}, f : [Eight -> DpcFetchers], random : Numbers] /\ c.random = random
    BY <2>2, <2>3
  <2> HIDE DEF c
  <2>5. c \in DpcBoards /\ c.random # 255
    BY <2>1, <2>4 DEF DpcBoards, Numbers, Eight
  <2> QED
    BY <2>5 DEF DpcMoving, c
<1>5. DpcSeen(b, addr) = [b EXCEPT !.bank = F8Bank(b.bank, addr), !.random = ClockRng(b.random)]
  BY Zenon DEF DpcSeen
<1> QED
  BY <1>2, <1>3, <1>4, <1>5, Zenon

LEMMA ClockFetcherTypes ==
  ASSUME NEW f \in DpcFetchers
  PROVE  ClockFetcher(f) \in DpcFetchers
<1>1. f.low \in BusBytes /\ f.top \in BusBytes /\ f.hi \in BusBytes
  BY DEF DpcFetchers, BusBytes
<1>2. \A low \in BusBytes : [f EXCEPT !.low = low] \in DpcFetchers
  BY DEF DpcFetchers, BusBytes
<1>3. \A low \in BusBytes, hi \in BusBytes : [f EXCEPT !.low = low, !.hi = hi] \in DpcFetchers
  BY DEF DpcFetchers, BusBytes
<1>4. f.low > 0 => f.low - 1 \in BusBytes
  BY <1>1 DEF BusBytes
<1>5. Dec(f.hi) \in BusBytes /\ 255 \in BusBytes
  BY <1>1 DEF Dec, BusBytes
<1>6. CASE f.low > 0
  BY <1>2, <1>4, <1>6, Zenon DEF ClockFetcher
<1>7. CASE ~ (f.low > 0)
  <2> DEFINE low == IF f.music THEN f.top ELSE 255
             hi == Dec(f.hi)
  <2>1. low \in BusBytes /\ hi \in BusBytes
    BY <1>1, <1>5
  <2>2. ClockFetcher(f) = [f EXCEPT !.low = low, !.hi = hi]
    BY <1>7, Zenon DEF ClockFetcher
  <2> HIDE DEF low, hi
  <2>3. [f EXCEPT !.low = low, !.hi = hi] \in DpcFetchers
    BY <1>3, <2>1, Zenon
  <2> QED
    BY <2>2, <2>3
<1> QED
  BY <1>6, <1>7

LEMMA WrittenTypes ==
  ASSUME NEW f \in DpcFetchers, NEW i \in 0 .. 7, NEW function \in Int, NEW v \in BusBytes
  PROVE  Written(f, i, function, v) \in DpcFetchers
<1>1. \A c \in BusBytes : [f EXCEPT !.top = c, !.flag = FALSE] \in DpcFetchers
  BY DEF DpcFetchers, BusBytes
<1>2. \A c \in BusBytes : [f EXCEPT !.bottom = c] \in DpcFetchers
  BY DEF DpcFetchers, BusBytes
<1>3. \A c \in BusBytes : [f EXCEPT !.low = c] \in DpcFetchers
  BY DEF DpcFetchers, BusBytes
<1>4. \A c \in BusBytes, on \in BOOLEAN : [f EXCEPT !.hi = c, !.music = on] \in DpcFetchers
  BY DEF DpcFetchers, BusBytes
<1>5. (IF f.music THEN f.top ELSE v) \in BusBytes
  BY DEF DpcFetchers, BusBytes
<1>6. (i >= 5 /\ Bit(v, 4) = 1) \in BOOLEAN
  OBVIOUS
<1>7. CASE function = 0
  <2>1. Written(f, i, function, v) = [f EXCEPT !.top = v, !.flag = FALSE]
    BY <1>7 DEF Written
  <2> QED
    BY <1>1, <2>1, Zenon
<1>8. CASE function = 1
  BY <1>2, <1>8 DEF Written
<1>9. CASE function = 2
  BY <1>3, <1>5, <1>9 DEF Written
<1>10. CASE function = 3
  <2>1. Written(f, i, function, v) = [f EXCEPT !.hi = v, !.music = i >= 5 /\ Bit(v, 4) = 1]
    BY <1>10 DEF Written
  <2> QED
    BY <1>4, <1>6, <2>1, Zenon
<1>11. CASE function \notin 0 .. 3
  BY <1>11 DEF Written
<1> QED
  BY <1>7, <1>8, <1>9, <1>10, <1>11

LEMMA DpcFetcherMoves ==
  ASSUME NEW b \in DpcMoving, NEW i \in 0 .. 7, NEW f \in DpcFetchers
  PROVE  [b EXCEPT !.f[i] = f] \in DpcMoving
BY DEF DpcMoving, DpcBoards

\* No access of a DPC program leads to the number that sticks (lib.rs 1737-1866).
LEMMA DpcReadMoves ==
  ASSUME NEW b \in DpcMoving, NEW addr \in BusAddrs
  PROVE  DpcRead(b, addr) \in DpcMoving
<1> DEFINE i == DpcIndex(addr)
           seen == DpcSeen(b, addr)
           flagged == [seen EXCEPT !.f[i] = SetFlag(@)]
<1>1. seen \in DpcMoving
  BY DpcSeenMoves
<1>2. i \in 0 .. 7
  BY DEF DpcIndex, BusAddrs
<1> HIDE DEF seen, i
<1>3. seen.f[i] \in DpcFetchers
  BY <1>1, <1>2 DEF DpcMoving, DpcBoards
<1>4. SetFlag(seen.f[i]) \in DpcFetchers
  BY <1>3 DEF SetFlag, DpcFetchers
<1>5. flagged \in DpcMoving
  BY <1>1, <1>2, <1>4, DpcFetcherMoves
<1> HIDE DEF flagged
<1>6. flagged.f[i] \in DpcFetchers
  BY <1>2, <1>5 DEF DpcMoving, DpcBoards
<1>7. ClockFetcher(flagged.f[i]) \in DpcFetchers
  BY <1>6, ClockFetcherTypes
<1>8. [flagged EXCEPT !.f[i] = ClockFetcher(@)] \in DpcMoving
  BY <1>2, <1>5, <1>7, DpcFetcherMoves
<1> QED
  BY <1>1, <1>5, <1>8 DEF DpcRead, flagged, seen, i

LEMMA DpcWriteMoves ==
  ASSUME NEW b \in DpcMoving, NEW addr \in BusAddrs, NEW v \in BusBytes
  PROVE  DpcWrite(b, addr, v) \in DpcMoving
<1> DEFINE i == DpcIndex(addr)
           s == DpcSeen(b, addr)
           function == DpcFunction(addr)
<1>1. s \in DpcMoving
  BY DpcSeenMoves
<1>2. i \in 0 .. 7 /\ function \in Int
  BY DEF DpcIndex, DpcFunction, BusAddrs
<1>3. DpcWrite(b, addr, v) \in {s, [s EXCEPT !.random = 1], [s EXCEPT !.f[i] = Written(s.f[i], i, function, v)]}
  BY DEF DpcWrite
<1> HIDE DEF s, i, function
<1>4. s.f[i] \in DpcFetchers
  BY <1>1, <1>2 DEF DpcMoving, DpcBoards
<1>5. Written(s.f[i], i, function, v) \in DpcFetchers
  BY <1>2, <1>4, WrittenTypes
<1>6. [s EXCEPT !.f[i] = Written(s.f[i], i, function, v)] \in DpcMoving
  BY <1>1, <1>2, <1>5, DpcFetcherMoves
<1>7. [s EXCEPT !.random = 1] \in DpcMoving
  BY <1>1 DEF DpcMoving, DpcBoards
<1> QED
  BY <1>1, <1>3, <1>6, <1>7, Zenon

------------------------------------------------------------------------------
(* DPC+.                                                                   *)

\* What an access leaves of the music fetchers and of the clock.
PlaysOn(b, c) == IsDpcPlus(c) /\ c.music = b.music /\ c.beats = b.beats /\ c.fast = b.fast

\* Cells, fetchers of graphics, banks and random numbers may be any.
LEMMA FreeFields ==
  ASSUME NEW b, IsDpcPlus(b)
  PROVE  /\ \A x : PlaysOn(b, [b EXCEPT !.bank = x]) /\ [b EXCEPT !.bank = x].frac = b.frac
         /\ \A x : PlaysOn(b, [b EXCEPT !.rom = x]) /\ [b EXCEPT !.rom = x].frac = b.frac
         /\ \A x : PlaysOn(b, [b EXCEPT !.data = x]) /\ [b EXCEPT !.data = x].frac = b.frac
         /\ \A x : PlaysOn(b, [b EXCEPT !.flash = x]) /\ [b EXCEPT !.flash = x].frac = b.frac
         /\ \A x : PlaysOn(b, [b EXCEPT !.f = x]) /\ [b EXCEPT !.f = x].frac = b.frac
         /\ \A x : PlaysOn(b, [b EXCEPT !.rng = x]) /\ [b EXCEPT !.rng = x].frac = b.frac
         /\ \A x : PlaysOn(b, [b EXCEPT !.parameters = x]) /\ [b EXCEPT !.parameters = x].frac = b.frac
<1>1. \A x : PlaysOn(b, [b EXCEPT !.bank = x]) /\ [b EXCEPT !.bank = x].frac = b.frac
  BY DEF PlaysOn, IsDpcPlus
<1>2. \A x : PlaysOn(b, [b EXCEPT !.rom = x]) /\ [b EXCEPT !.rom = x].frac = b.frac
  BY DEF PlaysOn, IsDpcPlus
<1>3. \A x : PlaysOn(b, [b EXCEPT !.data = x]) /\ [b EXCEPT !.data = x].frac = b.frac
  BY DEF PlaysOn, IsDpcPlus
<1>4. \A x : PlaysOn(b, [b EXCEPT !.flash = x]) /\ [b EXCEPT !.flash = x].frac = b.frac
  BY DEF PlaysOn, IsDpcPlus
<1>5. \A x : PlaysOn(b, [b EXCEPT !.f = x]) /\ [b EXCEPT !.f = x].frac = b.frac
  BY DEF PlaysOn, IsDpcPlus
<1>6. \A x : PlaysOn(b, [b EXCEPT !.rng = x]) /\ [b EXCEPT !.rng = x].frac = b.frac
  BY DEF PlaysOn, IsDpcPlus
<1>7. \A x : PlaysOn(b, [b EXCEPT !.parameters = x]) /\ [b EXCEPT !.parameters = x].frac = b.frac
  BY DEF PlaysOn, IsDpcPlus
<1> QED
  BY <1>1, <1>2, <1>3, <1>4, <1>5, <1>6, <1>7

LEMMA FracFacts ==
  ASSUME NEW f \in Fracs
  PROVE  LET g == FracInc(f)
             moves == f.count + f.increment > 255
         IN /\ g \in Fracs /\ g.increment = f.increment
            /\ g.count = Byte(f.count + f.increment)
            /\ g.low = IF moves THEN Inc(f.low) ELSE f.low
            /\ g.hi = IF moves /\ f.low = 255 THEN (f.hi + 1) % 16 ELSE f.hi
<1> DEFINE moves == f.count + f.increment > 255
           count == Byte(f.count + f.increment)
           low == IF moves THEN Inc(f.low) ELSE f.low
           hi == IF moves /\ f.low = 255 THEN (f.hi + 1) % 16 ELSE f.hi
<1>1. FracInc(f) = [f EXCEPT !.count = count, !.low = low, !.hi = hi]
  BY Zenon DEF FracInc
<1>2. f.low \in 0 .. 255 /\ f.hi \in 0 .. 15 /\ f.increment \in Int /\ f.count \in Int
  BY DEF Fracs
<1>3. count \in 0 .. 255
  <2> DEFINE s == f.count + f.increment
  <2>1. s \in Int
    BY <1>2
  <2> HIDE DEF s
  <2>2. s % 256 \in 0 .. 255
    BY <2>1
  <2> QED
    BY <2>2 DEF s, Byte
<1>4. low \in 0 .. 255
  BY <1>2 DEF Inc
<1>5. hi \in 0 .. 15
  BY <1>2
<1> HIDE DEF count, low, hi
<1>6. [f EXCEPT !.count = count, !.low = low, !.hi = hi] \in Fracs
  <2> DEFINE f1 == [f EXCEPT !.count = count]
             f2 == [f1 EXCEPT !.low = low]
             f3 == [f2 EXCEPT !.hi = hi]
  <2>1. f1 \in Fracs
    BY <1>3 DEF Fracs
  <2>2. [f EXCEPT !.count = count, !.low = low, !.hi = hi] = f3
    BY DEF Fracs
  <2> HIDE DEF f1
  <2>3. f2 \in Fracs
    BY <1>4, <2>1 DEF Fracs
  <2> HIDE DEF f2
  <2>4. f3 \in Fracs
    BY <1>5, <2>3 DEF Fracs
  <2> QED
    BY <2>2, <2>4, Zenon
<1>7. FracInc(f).count = count /\ FracInc(f).low = low /\ FracInc(f).hi = hi
      /\ FracInc(f).increment = f.increment
  BY <1>1 DEF Fracs
<1>8. FracInc(f) \in Fracs
  BY <1>1, <1>6, Zenon
<1> QED
  BY <1>7, <1>8 DEF count, low, hi

\* The carries between a pointer's bytes and its fraction.
LEMMA FracCarries ==
  ASSUME NEW l \in Int, NEW h \in Int, NEW i \in Int, NEW c \in Int,
         0 <= l, l <= 255, 0 <= h, h <= 15, 0 <= i, i <= 255, 0 <= c, c <= 255,
         NEW low \in Int, NEW hi \in Int, NEW count \in Int,
         count = (c + i) % 256,
         low = IF c + i > 255 THEN (l + 1) % 256 ELSE l,
         hi = IF c + i > 255 /\ l = 255 THEN (h + 1) % 16 ELSE h
  PROVE  (hi * 256 + low) * 256 + count = ((h * 256 + l) * 256 + c + i) % FracTurn
<1> DEFINE sum == (h * 256 + l) * 256 + c + i
<1>1. sum \in Int /\ 0 <= sum /\ sum < 2 * FracTurn
  BY SMT DEF FracTurn
<1>2. sum % FracTurn = IF sum < FracTurn THEN sum ELSE sum - FracTurn
  <2> HIDE DEF sum
  <2> QED
    BY <1>1, SMT DEF FracTurn
<1>3. count = IF c + i > 255 THEN c + i - 256 ELSE c + i
  BY SMT
<1>4. low = IF c + i > 255 THEN IF l = 255 THEN 0 ELSE l + 1 ELSE l
  BY SMT
<1>5. hi = IF c + i > 255 /\ l = 255 THEN IF h = 15 THEN 0 ELSE h + 1 ELSE h
  BY SMT
<1>6. (hi * 256 + low) * 256 + count = IF sum < FracTurn THEN sum ELSE sum - FracTurn
  BY <1>3, <1>4, <1>5, SMT DEF FracTurn
<1> HIDE DEF sum
<1>7. (hi * 256 + low) * 256 + count = sum % FracTurn
  BY <1>2, <1>6, SMT
<1> QED
  BY <1>7, SMT DEF sum

\* A pointer with its fraction moves on by the increment (lib.rs 1922-1940).
LEMMA FracIncMoves ==
  ASSUME NEW f \in Fracs
  PROVE  /\ FracAt(FracInc(f)) = (FracAt(f) + f.increment) % FracTurn
         /\ FracAt(f) \in Int /\ 0 <= FracAt(f) /\ FracAt(f) < FracTurn
<1> DEFINE g == FracInc(f)
           l == f.low
           h == f.hi
           i == f.increment
           c == f.count
           low == g.low
           hi == g.hi
           count == g.count
<1>1. /\ l \in Int /\ 0 <= l /\ l <= 255 /\ h \in Int /\ 0 <= h /\ h <= 15
      /\ i \in Int /\ 0 <= i /\ i <= 255 /\ c \in Int /\ 0 <= c /\ c <= 255
  BY DEF Fracs
<1>2. /\ count = (c + i) % 256
      /\ low = IF c + i > 255 THEN (l + 1) % 256 ELSE l
      /\ hi = IF c + i > 255 /\ l = 255 THEN (h + 1) % 16 ELSE h
  BY FracFacts DEF Byte, Inc
<1>3. low \in Int /\ hi \in Int /\ count \in Int
  <2>1. g \in Fracs
    BY FracFacts
  <2> HIDE DEF g
  <2> QED
    BY <2>1 DEF Fracs
<1>4. FracAt(f) = (h * 256 + l) * 256 + c /\ FracAt(g) = (hi * 256 + low) * 256 + count
  BY DEF FracAt
<1> HIDE DEF g, l, h, i, c, low, hi, count
<1>5. (hi * 256 + low) * 256 + count = ((h * 256 + l) * 256 + c + i) % FracTurn
  BY <1>1, <1>2, <1>3, FracCarries
<1>6. FracAt(f) \in Int /\ 0 <= FracAt(f) /\ FracAt(f) < FracTurn
  BY <1>1, <1>4, SMT DEF FracTurn
<1>7. FracAt(g) = (FracAt(f) + i) % FracTurn
  BY <1>1, <1>4, <1>5, SMT
<1> QED
  BY <1>6, <1>7 DEF g, i

LEMMA MoreFreeFields ==
  ASSUME NEW b, IsDpcPlus(b)
  PROVE  /\ \A x : \A i \in 0 .. 7 : PlaysOn(b, [b EXCEPT !.f[i] = x]) /\ [b EXCEPT !.f[i] = x].frac = b.frac
         /\ \A x \in BOOLEAN : /\ PlaysOn(b, [b EXCEPT !.lda = x])
                               /\ [b EXCEPT !.lda = x].frac = b.frac
<1>1. ASSUME NEW x, NEW i \in 0 .. 7
      PROVE  PlaysOn(b, [b EXCEPT !.f[i] = x]) /\ [b EXCEPT !.f[i] = x].frac = b.frac
  <2> DEFINE c == [b EXCEPT !.f[i] = x]
             y == c.f
  <2>1. c = [b EXCEPT !.f = y]
    BY DEF IsDpcPlus
  <2> HIDE DEF c, y
  <2>2. PlaysOn(b, c) /\ c.frac = b.frac
    BY <2>1, FreeFields, Zenon
  <2> QED
    BY <2>2 DEF c
<1>2. ASSUME NEW x \in BOOLEAN
      PROVE  PlaysOn(b, [b EXCEPT !.lda = x]) /\ [b EXCEPT !.lda = x].frac = b.frac
  BY DEF PlaysOn, IsDpcPlus
<1> QED
  BY <1>1, <1>2, Zenon

\* The fetcher with a fraction that a register steps.
Stepped(b, c, a) ==
  \A i \in 0 .. 7 : c.frac[i] = IF a = 24 + i THEN FracInc(b.frac[i]) ELSE b.frac[i]

LEMMA NoneStepped ==
  ASSUME NEW b, NEW c, NEW a, PlaysOn(b, c), c.frac = b.frac, a \notin 24 .. 31
  PROVE  PlaysOn(b, c) /\ Stepped(b, c, a)
<1>1. \A i \in 0 .. 7 : 24 + i \in 24 .. 31
  OBVIOUS
<1> QED
  BY <1>1, Zenon DEF Stepped

LEMMA ReadRegisterFacts ==
  ASSUME NEW b, IsDpcPlus(b), NEW a
  PROVE  LET c == ReadRegister(b, a)[1] IN PlaysOn(b, c) /\ Stepped(b, c, a)
<1> DEFINE c == ReadRegister(b, a)[1]
           i == a % 8
<1>1. a \in 8 .. 31 => i \in 0 .. 7
  OBVIOUS
<1>2. CASE a \in 24 .. 31
  <2>1. c = [b EXCEPT !.frac[i] = FracInc(@)]
    BY <1>2 DEF ReadRegister
  <2>2. i = a - 24 /\ i \in 0 .. 7
    BY <1>2
  <2> HIDE DEF c, i
  <2>3. b.frac \in [0 .. 7 -> Fracs] /\ FracInc(b.frac[i]) \in Fracs
    <3>1. b.frac \in [0 .. 7 -> Fracs]
      BY DEF IsDpcPlus
    <3> QED
      BY <2>2, <3>1, FracFacts
  <2>4. [b.frac EXCEPT ![i] = FracInc(@)] \in [0 .. 7 -> Fracs]
    BY <2>2, <2>3
  <2> DEFINE new == [b.frac EXCEPT ![i] = FracInc(@)]
  <2>5. c = [b EXCEPT !.frac = new]
    BY <2>1
  <2>6. \A j \in 0 .. 7 : new[j] = IF j = i THEN FracInc(b.frac[j]) ELSE b.frac[j]
    BY <2>2, <2>3
  <2> HIDE DEF new
  <2>7. PlaysOn(b, c) /\ c.frac = new
    BY <2>4, <2>5 DEF PlaysOn, IsDpcPlus, new
  <2>8. Stepped(b, c, a)
    BY <2>2, <2>6, <2>7 DEF Stepped
  <2> QED
    BY <2>7, <2>8 DEF c
<1>3. ASSUME PlaysOn(b, c) /\ c.frac = b.frac, a \notin 24 .. 31
      PROVE  PlaysOn(b, c) /\ Stepped(b, c, a)
  BY <1>3, NoneStepped, Zenon
<1>4. CASE a = 0
  <2>1. c = [b EXCEPT !.rng = RngNext(@)]
    BY <1>4 DEF ReadRegister
  <2> HIDE DEF c
  <2>2. PlaysOn(b, c) /\ c.frac = b.frac
    BY <2>1, FreeFields, Zenon
  <2>3. a \notin 24 .. 31
    BY <1>4
  <2> QED
    BY <1>3, <2>2, <2>3 DEF c
<1>5. CASE a = 1
  <2>1. c = [b EXCEPT !.rng = RngPrev(@)]
    BY <1>5 DEF ReadRegister
  <2> HIDE DEF c
  <2>2. PlaysOn(b, c) /\ c.frac = b.frac
    BY <2>1, FreeFields, Zenon
  <2>3. a \notin 24 .. 31
    BY <1>5
  <2> QED
    BY <1>3, <2>2, <2>3 DEF c
<1>6. CASE a \in 8 .. 23
  <2>1. c = [b EXCEPT !.f[i] = FetcherInc(@)] /\ i \in 0 .. 7
    BY <1>1, <1>6 DEF ReadRegister
  <2> HIDE DEF c, i
  <2>2. PlaysOn(b, c) /\ c.frac = b.frac
    BY <2>1, MoreFreeFields, Zenon
  <2>3. a \notin 24 .. 31
    BY <1>6
  <2> QED
    BY <1>3, <2>2, <2>3 DEF c
<1>7. CASE a \notin {0, 1} /\ a \notin 8 .. 31
  <2>1. c = b
    BY <1>7 DEF ReadRegister
  <2> HIDE DEF c
  <2>2. PlaysOn(b, c) /\ c.frac = b.frac
    BY <2>1 DEF PlaysOn
  <2>3. a \notin 24 .. 31
    BY <1>7
  <2> QED
    BY <1>3, <2>2, <2>3 DEF c
<1>8. a = 0 \/ a = 1 \/ a \in 8 .. 23 \/ a \in 24 .. 31 \/ (a \notin {0, 1} /\ a \notin 8 .. 31)
  OBVIOUS
<1> QED
  BY <1>2, <1>4, <1>5, <1>6, <1>7, <1>8, Zenon

LEMMA HotspotRead ==
  ASSUME NEW b, NEW addr, NEW code, IsHotspot(addr)
  PROVE  DpcPlusRead(b, addr, code) = <<Bankswitch(b, addr), 0>>
<1>1. ~ (Offset(addr) < 128)
  BY DEF IsHotspot, Offset
<1> QED
  BY <1>1, Zenon DEF DpcPlusRead

\* A read (lib.rs 2208-2277, 2435-2456).
LEMMA DpcPlusReadFacts ==
  ASSUME NEW b, IsDpcPlus(b), NEW addr \in BusAddrs, Selected(addr), NEW code
  PROVE  LET c == DpcPlusRead(b, addr, code)[1]
         IN PlaysOn(b, c) /\ (~ b.fast => Stepped(b, c, addr - \h1000))
<1> DEFINE r == DpcPlusRead(b, addr, code)
           c == r[1]
           byte == BankByte(b, addr, code)
           a == Offset(addr)
           off == addr - \h1000
           on == b.fast /\ byte = \hA9
           kept == b.fast /\ b.lda /\ byte < 40
<1> SUFFICES PlaysOn(b, c) /\ (~ b.fast => Stepped(b, c, off))
  OBVIOUS
<1>1. a = off /\ a \in Int
  BY DEF BusAddrs, Selected, Offset
<1>2. CASE IsHotspot(addr)
  <2>1. r = <<Bankswitch(b, addr), 0>>
    BY <1>2, HotspotRead, Zenon
  <2> HIDE DEF r
  <2> DEFINE bank == addr - \h1FF6
  <2>2. c = [b EXCEPT !.bank = bank]
    BY <2>1 DEF Bankswitch
  <2> HIDE DEF c, bank
  <2>3. PlaysOn(b, c) /\ c.frac = b.frac
    BY <2>2, FreeFields, Zenon
  <2>4. off \notin 24 .. 31
    BY <1>2 DEF IsHotspot
  <2> HIDE DEF off
  <2>5. PlaysOn(b, c) /\ Stepped(b, c, off)
    BY <2>3, <2>4, NoneStepped, Zenon
  <2> QED
    BY <2>5 DEF c, off, r
<1>3. CASE ~ IsHotspot(addr) /\ a < 128
  <2>1. r = ReadRegister(b, a)
    BY <1>3, Zenon DEF DpcPlusRead
  <2> HIDE DEF r, a, off
  <2>2. PlaysOn(b, c) /\ Stepped(b, c, off)
    BY <1>1, <2>1, ReadRegisterFacts, Zenon
  <2> QED
    BY <2>2 DEF off, r
<1>4. CASE ~ IsHotspot(addr) /\ ~ (a < 128)
  <2>1. off \notin 24 .. 31
    BY <1>1, <1>4
  <2>2. CASE b.fast /\ b.lda /\ byte < 40
    <3>1. r = ReadRegister([b EXCEPT !.lda = FALSE], byte)
      BY <1>4, <2>2, Zenon DEF DpcPlusRead
    <3> DEFINE d == [b EXCEPT !.lda = FALSE]
    <3> HIDE DEF byte, r
    <3>2. PlaysOn(b, d)
      BY MoreFreeFields, Zenon
    <3>3. IsDpcPlus(d)
      BY <3>2 DEF PlaysOn
    <3> HIDE DEF d
    <3>4. PlaysOn(d, ReadRegister(d, byte)[1])
      BY <3>3, ReadRegisterFacts, Zenon
    <3>5. PlaysOn(d, c)
      BY <3>1, <3>4 DEF d
    <3> QED
      BY <2>2, <3>2, <3>5 DEF PlaysOn, r
  <2>3. CASE ~ (b.fast /\ b.lda /\ byte < 40)
    <3>1. r = <<[b EXCEPT !.lda = on], byte>>
      BY <1>4, <2>3, Zenon DEF DpcPlusRead
    <3>2. on \in BOOLEAN
      OBVIOUS
    <3> HIDE DEF byte, off, on, r
    <3>3. c = [b EXCEPT !.lda = on]
      BY <3>1
    <3> HIDE DEF c
    <3>4. PlaysOn(b, c) /\ c.frac = b.frac
      BY <3>2, <3>3, MoreFreeFields, Zenon
    <3>5. PlaysOn(b, c) /\ Stepped(b, c, off)
      BY <2>1, <3>4, NoneStepped, Zenon
    <3> QED
      BY <3>5 DEF c, off, r
  <2> QED
    BY <2>2, <2>3
<1> HIDE DEF c, off, a
<1> QED
  BY <1>2, <1>3, <1>4, Zenon

\* What a write may leave: only the clock goes on as it was.
Kept(b, c) == IsDpcPlus(c) /\ c.beats = b.beats

LEMMA TypedFields ==
  ASSUME NEW b, IsDpcPlus(b)
  PROVE  /\ \A x \in [0 .. 7 -> Fracs] : Kept(b, [b EXCEPT !.frac = x])
         /\ \A x \in [0 .. 2 -> Musics(31)] : Kept(b, [b EXCEPT !.music = x])
         /\ \A x \in BOOLEAN : Kept(b, [b EXCEPT !.fast = x])
         /\ \A x : (\A i \in DOMAIN x : x[i] \in Nat) => Kept(b, [b EXCEPT !.freqs = x])
         /\ \A x, y : Kept(b, [b EXCEPT !.f = x, !.data = y])
<1>1. ASSUME NEW x \in [0 .. 7 -> Fracs] PROVE Kept(b, [b EXCEPT !.frac = x])
  BY DEF Kept, IsDpcPlus
<1>2. ASSUME NEW x \in [0 .. 2 -> Musics(31)] PROVE Kept(b, [b EXCEPT !.music = x])
  BY DEF Kept, IsDpcPlus
<1>3. ASSUME NEW x \in BOOLEAN PROVE Kept(b, [b EXCEPT !.fast = x])
  BY DEF Kept, IsDpcPlus
<1>4. ASSUME NEW x, \A i \in DOMAIN x : x[i] \in Nat PROVE Kept(b, [b EXCEPT !.freqs = x])
  BY <1>4 DEF Kept, IsDpcPlus
<1>5. ASSUME NEW x, NEW y PROVE Kept(b, [b EXCEPT !.f = x, !.data = y])
  <2> DEFINE c == [b EXCEPT !.f = x]
  <2>1. PlaysOn(b, c)
    BY FreeFields, Zenon
  <2>2. [b EXCEPT !.f = x, !.data = y] = [c EXCEPT !.data = y]
    BY DEF IsDpcPlus
  <2> HIDE DEF c
  <2>3. PlaysOn(c, [c EXCEPT !.data = y])
    <3>1. IsDpcPlus(c)
      BY <2>1, Zenon DEF PlaysOn
    <3> QED
      BY <3>1, FreeFields, Zenon
  <2> QED
    BY <2>1, <2>2, <2>3, Zenon DEF PlaysOn, Kept
<1> QED
  BY <1>1, <1>2, <1>3, <1>4, <1>5, Zenon

LEMMA WriteFracTypes ==
  ASSUME NEW f \in Fracs, NEW a \in 40 .. 63, NEW v \in BusBytes
  PROVE  WriteFrac(f, a, v) \in Fracs
<1> DEFINE Nibbles == 0 .. 15
           h == v % 16
<1>1. f \in [low : BusBytes, hi : Nibbles, increment : BusBytes, count : BusBytes]
  BY DEF Fracs, BusBytes
<1>2. 0 \in BusBytes /\ h \in Nibbles
  BY DEF BusBytes
<1>0. Fracs = [low : BusBytes, hi : Nibbles, increment : BusBytes, count : BusBytes]
  BY DEF Fracs, BusBytes
<1> HIDE DEF Nibbles, h
<1>3. /\ [f EXCEPT !.low = v, !.count = 0] \in [low : BusBytes, hi : Nibbles, increment : BusBytes, count : BusBytes]
      /\ [f EXCEPT !.hi = h] \in [low : BusBytes, hi : Nibbles, increment : BusBytes, count : BusBytes]
      /\ [f EXCEPT !.increment = v, !.count = 0]
           \in [low : BusBytes, hi : Nibbles, increment : BusBytes, count : BusBytes]
  BY <1>1, <1>2
<1>4. \/ WriteFrac(f, a, v) = [f EXCEPT !.low = v, !.count = 0]
      \/ WriteFrac(f, a, v) = [f EXCEPT !.hi = h]
      \/ WriteFrac(f, a, v) = [f EXCEPT !.increment = v, !.count = 0]
  <2>1. \/ a \in 40 .. 47 /\ a \notin 48 .. 55 /\ a \notin 56 .. 63
        \/ a \in 48 .. 55 /\ a \notin 40 .. 47 /\ a \notin 56 .. 63
        \/ a \in 56 .. 63 /\ a \notin 40 .. 47 /\ a \notin 48 .. 55
    OBVIOUS
  <2> QED
    BY <2>1, Zenon DEF WriteFrac, h
<1> QED
  BY <1>0, <1>3, <1>4, Zenon

LEMMA FracFields ==
  ASSUME NEW b, IsDpcPlus(b), NEW i \in 0 .. 7, NEW x \in Fracs
  PROVE  Kept(b, [b EXCEPT !.frac[i] = x])
<1> DEFINE g == [b.frac EXCEPT ![i] = x]
<1>1. g \in [0 .. 7 -> Fracs]
  BY DEF IsDpcPlus
<1>2. [b EXCEPT !.frac[i] = x] = [b EXCEPT !.frac = g]
  BY DEF IsDpcPlus
<1> HIDE DEF g
<1> QED
  BY <1>1, <1>2, TypedFields, Zenon

LEMMA MusicFields ==
  ASSUME NEW b, IsDpcPlus(b), NEW m \in 0 .. 2, NEW x \in Musics(31)
  PROVE  Kept(b, [b EXCEPT !.music[m] = x])
<1> DEFINE g == [b.music EXCEPT ![m] = x]
<1>1. g \in [0 .. 2 -> Musics(31)]
  BY DEF IsDpcPlus
<1>2. [b EXCEPT !.music[m] = x] = [b EXCEPT !.music = g]
  BY DEF IsDpcPlus
<1> HIDE DEF g
<1> QED
  BY <1>1, <1>2, TypedFields, Zenon

\* The outcomes of such a write, one a block of the registers.
WriteOf(a, frac, fetcher, fast, parameters, waveform, down, seed, byte, freq, up, none) ==
  CASE a \in 40 .. 63 -> frac
    [] a \in 64 .. 87 \cup 104 .. 111 -> fetcher
    [] a = 88 -> fast
    [] a = 89 -> parameters
    [] a \in 93 .. 95 -> waveform
    [] a \in 96 .. 103 -> down
    [] a = 112 -> seed
    [] a \in 113 .. 116 -> byte
    [] a \in 117 .. 119 -> freq
    [] a \in 120 .. 127 -> up
    [] OTHER -> none

\* A write that is no service and runs no ARM (lib.rs 2278-2379).
LEMMA WriteDpcPlusKeeps ==
  ASSUME NEW b, IsDpcPlus(b), NEW a \in Int, NEW v \in BusBytes
  PROVE  Kept(b, WriteDpcPlus(b, a, v))
<1> DEFINE c == WriteDpcPlus(b, a, v)
           i == a % 8
<1>1. i \in 0 .. 7
  OBVIOUS
<1>0. /\ a \in 40 .. 63 => c = [b EXCEPT !.frac[i] = WriteFrac(@, a, v)]
      /\ a \in 64 .. 87 \/ a \in 104 .. 111 => c = [b EXCEPT !.f[i] = WriteFetcher(@, a, v)]
  <2> DEFINE f == b.f[i]
             c1 == [b EXCEPT !.frac[i] = WriteFrac(@, a, v)]
             c2 == [b EXCEPT !.f[i] = WriteFetcher(@, a, v)]
             c3 == [b EXCEPT !.fast = v = 0]
             c4 == IF Len(b.parameters) < 4 THEN [b EXCEPT !.parameters = Append(@, v)] ELSE b
             c5 == [b EXCEPT !.music[a - 93].waveform = v % 128]
             c6 == StoreThrough(b, i, FetcherDec(f), FetcherDec(f), v)
             c7 == [b EXCEPT !.rng = Seed]
             c8 == [b EXCEPT !.rng = RngSetByte(@, a - 113, v)]
             c9 == [b EXCEPT !.music[a - 117].freq = Cells(b.freqs, v)]
             c10 == StoreThrough(b, i, f, FetcherInc(f), v)
  <2>1. c = WriteOf(a, c1, c2, c3, c4, c5, c6, c7, c8, c9, c10, b)
    BY Zenon DEF WriteDpcPlus, WriteOf
  <2> HIDE DEF c, c1, c2, c3, c4, c5, c6, c7, c8, c9, c10
  <2>2. a \in 40 .. 63 => c = c1
    BY <2>1 DEF WriteOf
  <2>3. a \in 64 .. 87 \/ a \in 104 .. 111 => c = c2
    BY <2>1 DEF WriteOf
  <2> QED
    BY <2>2, <2>3, Zenon DEF c, c1, c2
<1>2. CASE a \in 40 .. 63
  <2> DEFINE x == WriteFrac(b.frac[i], a, v)
  <2>1. c = [b EXCEPT !.frac[i] = x]
    BY <1>0, <1>2, Zenon
  <2>2. x \in Fracs
    <3>1. b.frac[i] \in Fracs
      BY <1>1 DEF IsDpcPlus
    <3> QED
      BY <1>2, <3>1, WriteFracTypes
  <2> HIDE DEF i, x
  <2> QED
    BY <1>1, <2>1, <2>2, FracFields
<1>3. \A m \in 0 .. 2, w \in Nat : /\ Kept(b, [b EXCEPT !.music[m].waveform = w])
                                   /\ Kept(b, [b EXCEPT !.music[m].freq = w])
  <2> SUFFICES ASSUME NEW m \in 0 .. 2, NEW w \in Nat
               PROVE  Kept(b, [b EXCEPT !.music[m].waveform = w]) /\ Kept(b, [b EXCEPT !.music[m].freq = w])
    OBVIOUS
  <2> DEFINE x == [b.music[m] EXCEPT !.waveform = w]
             y == [b.music[m] EXCEPT !.freq = w]
  <2>1. b.music[m] \in Musics(31)
    BY DEF IsDpcPlus
  <2>2. x \in Musics(31) /\ y \in Musics(31)
    BY <2>1 DEF Musics
  <2>3. [b EXCEPT !.music[m].waveform = w] = [b EXCEPT !.music[m] = x]
    BY DEF IsDpcPlus
  <2>4. [b EXCEPT !.music[m].freq = w] = [b EXCEPT !.music[m] = y]
    BY DEF IsDpcPlus
  <2> HIDE DEF x, y
  <2> QED
    BY <2>2, <2>3, <2>4, MusicFields
<1>5. CASE a \in 93 .. 95
  <2> DEFINE m == a - 93
             w == v % 128
  <2>1. c = [b EXCEPT !.music[m].waveform = w]
    BY <1>5 DEF WriteDpcPlus
  <2>2. m \in 0 .. 2 /\ w \in Nat
    BY <1>5 DEF BusBytes
  <2> HIDE DEF m, w
  <2> QED
    BY <1>3, <2>1, <2>2, Zenon
<1>6. CASE a \in 117 .. 119
  <2> DEFINE m == a - 117
             w == Cells(b.freqs, v)
  <2>1. c = [b EXCEPT !.music[m].freq = w]
    BY <1>6 DEF WriteDpcPlus
  <2>2. m \in 0 .. 2
    BY <1>6
  <2>3. w \in Nat
    BY DEF Cells, IsDpcPlus
  <2> HIDE DEF m, w
  <2> QED
    BY <1>3, <2>1, <2>2, <2>3, Zenon
<1>7. CASE a = 88
  <2>1. c = [b EXCEPT !.fast = (v = 0)]
    BY <1>7 DEF WriteDpcPlus
  <2> DEFINE on == (v = 0)
  <2>2. c = [b EXCEPT !.fast = on] /\ on \in BOOLEAN
    BY <2>1
  <2> HIDE DEF on
  <2> QED
    BY <2>2, TypedFields, Zenon
<1>8. CASE a = 89 \/ a = 112 \/ a \in 113 .. 116
  <2> DEFINE p == Append(b.parameters, v)
             r == RngSetByte(b.rng, a - 113, v)
  <2>1. a = 89 => c = b \/ c = [b EXCEPT !.parameters = p]
    BY DEF WriteDpcPlus
  <2>2. a = 112 => c = [b EXCEPT !.rng = Seed]
    BY DEF WriteDpcPlus
  <2>3. a \in 113 .. 116 => c = [b EXCEPT !.rng = r]
    BY DEF WriteDpcPlus
  <2> HIDE DEF p, r
  <2>4. PlaysOn(b, c)
    <3>1. PlaysOn(b, b)
      BY DEF PlaysOn
    <3>2. c = b \/ c = [b EXCEPT !.parameters = p] \/ c = [b EXCEPT !.rng = Seed] \/ c = [b EXCEPT !.rng = r]
      BY <1>8, <2>1, <2>2, <2>3, Zenon
    <3>3. \A x : PlaysOn(b, [b EXCEPT !.parameters = x]) /\ PlaysOn(b, [b EXCEPT !.rng = x])
      BY FreeFields, Zenon
    <3> QED
      BY <3>1, <3>2, <3>3
  <2> QED
    BY <2>4, Zenon DEF PlaysOn, Kept
<1>9. CASE a \in 64 .. 87 \/ a \in 104 .. 111
  <2> DEFINE x == WriteFetcher(b.f[i], a, v)
  <2>1. c = [b EXCEPT !.f[i] = x]
    BY <1>0, <1>9, Zenon
  <2> HIDE DEF i, x
  <2>2. PlaysOn(b, [b EXCEPT !.f[i] = x])
    BY <1>1, MoreFreeFields, Zenon
  <2> QED
    BY <2>1, <2>2, Zenon DEF PlaysOn, Kept
<1>10. CASE a \in 96 .. 103 \/ a \in 120 .. 127
  <2>1. PICK at, next : c = StoreThrough(b, i, at, next, v)
    <3>1. CASE a \in 96 .. 103
      <4>1. c = StoreThrough(b, i, FetcherDec(b.f[i]), FetcherDec(b.f[i]), v)
        BY <3>1 DEF WriteDpcPlus
      <4> QED
        BY <4>1, Zenon
    <3>2. CASE a \in 120 .. 127
      <4>1. c = StoreThrough(b, i, b.f[i], FetcherInc(b.f[i]), v)
        BY <3>2 DEF WriteDpcPlus
      <4> QED
        BY <4>1, Zenon
    <3> QED
      BY <1>10, <3>1, <3>2, Zenon
  <2> DEFINE f == [b.f EXCEPT ![i] = next]
             d == Put(b.data, FetcherAddr(at), v)
  <2>2. StoreThrough(b, i, at, next, v) = [b EXCEPT !.f = f, !.data = d]
    BY <1>1 DEF StoreThrough, IsDpcPlus
  <2> HIDE DEF f, d
  <2>3. Kept(b, [b EXCEPT !.f = f, !.data = d])
    BY TypedFields, Zenon
  <2> QED
    BY <2>1, <2>2, <2>3, Zenon
<1>11. CASE a \notin 40 .. 89 /\ a \notin 93 .. 127
  <2>1. c = b
    BY <1>11 DEF WriteDpcPlus
  <2> QED
    BY <2>1 DEF Kept
<1>12. \/ a \in 40 .. 63 \/ a \in 64 .. 87 \/ a = 88 \/ a = 89
       \/ a \in 93 .. 95 \/ a \in 96 .. 103 \/ a \in 104 .. 111 \/ a = 112 \/ a \in 113 .. 116
       \/ a \in 117 .. 119 \/ a \in 120 .. 127 \/ (a \notin 40 .. 89 /\ a \notin 93 .. 127)
  OBVIOUS
<1> QED
  BY <1>2, <1>5, <1>6, <1>7, <1>8, <1>9, <1>10, <1>11, <1>12, Zenon

------------------------------------------------------------------------------
(* The ARM.                                                                *)

\* The stores that an ARM's program gets done are the first of its stores.
LEMMA ObeyedFacts ==
  ASSUME NEW S, NEW stores \in Seq(S), NEW segments
  PROVE  LET obeyed == Obeyed(segments, stores)
         IN Len(obeyed) \in Nat /\ \A i \in 1 .. Len(obeyed) : obeyed[i] \in S
<1> DEFINE faults == {i \in DOMAIN stores : Mapped(segments, stores[i].addr) = <<>>}
           n == IF faults = {} THEN Len(stores) ELSE Min(faults) - 1
           obeyed == SubSeq(stores, 1, n)
<1>1. DOMAIN stores = 1 .. Len(stores) /\ Len(stores) \in Nat
  OBVIOUS
<1>2. n \in Nat /\ n <= Len(stores)
  <2>1. CASE faults = {}
    BY <1>1, <2>1
  <2>2. CASE faults # {}
    <3>1. faults \in SUBSET Nat
      BY <1>1
    <3>2. \E k \in faults : \A j \in faults : k <= j
      BY <2>2, <3>1, LeastNat
    <3> DEFINE least == CHOOSE k \in faults : \A j \in faults : k <= j
    <3>3. least \in faults
      BY <3>2
    <3>4. Min(faults) = least
      BY DEF Min
    <3> HIDE DEF least
    <3>5. least \in 1 .. Len(stores)
      BY <1>1, <3>3
    <3> QED
      BY <1>1, <2>2, <3>4, <3>5
  <2> QED
    BY <2>1, <2>2
<1>3. Obeyed(segments, stores) = obeyed
  BY DEF Obeyed
<1> HIDE DEF n
<1>4. Len(obeyed) = n /\ \A i \in 1 .. n : obeyed[i] = stores[i]
  BY <1>2
<1>5. \A i \in 1 .. n : stores[i] \in S
  BY <1>1, <1>2
<1> QED
  BY <1>2, <1>3, <1>4, <1>5

DpcPlusStores == [addr : Nat, v : 0 .. 255]

LEMMA DpcPlusStoreKeeps ==
  ASSUME NEW b, IsDpcPlus(b), NEW s \in DpcPlusStores
  PROVE  Kept(b, DpcPlusStore(b, s))
<1> DEFINE g == Head(Mapped(DpcPlusSegments(b), s.addr))
           i == s.addr - g.origin
           c == DpcPlusStore(b, s)
           flash == Put(b.flash, i, s.v)
           rom == Put(b.rom, i, s.v)
           data == Put(b.data, i, s.v)
           freqs == Put(b.freqs, i \div 4, s.v \div 8)
<1>1. \/ c = b \/ c = [b EXCEPT !.flash = flash] \/ c = [b EXCEPT !.rom = rom] \/ c = [b EXCEPT !.data = data]
      \/ c = [b EXCEPT !.freqs = freqs]
  <2> HIDE DEF g
  <2> QED
    BY Zenon DEF DpcPlusStore, g
<1>2. \A j \in DOMAIN freqs : freqs[j] \in Nat
  <2> DEFINE at == i \div 4
             v == s.v \div 8
  <2>1. v \in Nat
    BY DEF DpcPlusStores
  <2> HIDE DEF at, v, i
  <2> QED
    BY <2>1 DEF Put, IsDpcPlus, v, at
<1> HIDE DEF flash, rom, data, freqs, i, g
<1>3. Kept(b, b)
  BY DEF Kept
<1>4. /\ Kept(b, [b EXCEPT !.flash = flash]) /\ Kept(b, [b EXCEPT !.rom = rom])
      /\ Kept(b, [b EXCEPT !.data = data])
  BY FreeFields, Zenon DEF PlaysOn, Kept
<1>5. Kept(b, [b EXCEPT !.freqs = freqs])
  BY <1>2, TypedFields, Zenon
<1> QED
  BY <1>1, <1>3, <1>4, <1>5

\* Whatever the ARM's program stores (lib.rs 2131-2166).
LEMMA RunArmKeeps ==
  ASSUME NEW b, IsDpcPlus(b), NEW stores \in Seq(DpcPlusStores)
  PROVE  Kept(b, RunArm(b, stores))
<1> DEFINE obeyed == Obeyed(DpcPlusSegments(b), stores)
           n == Len(obeyed)
<1>1. n \in Nat /\ \A i \in 1 .. n : obeyed[i] \in DpcPlusStores
  BY ObeyedFacts, Zenon
<1>2. PICK f : /\ f[0] = b /\ RunArm(b, stores) = f[n]
               /\ \A i \in 1 .. n : f[i] = DpcPlusStore(f[i - 1], obeyed[i])
  <2>1. n \in Nat
    BY <1>1
  <2> QED
    BY <2>1, RunArmIs
<1> HIDE DEF n, obeyed
<1> DEFINE Good == {k \in 0 .. n : Kept(b, f[k])}
<1>3. 0 \in Good
  BY <1>1, <1>2 DEF Kept
<1>4. ASSUME NEW k \in 1 .. n, k - 1 \in Good PROVE k \in Good
  <2>1. Kept(b, f[k - 1])
    BY <1>4
  <2>2. Kept(f[k - 1], DpcPlusStore(f[k - 1], obeyed[k]))
    BY <1>1, <2>1, DpcPlusStoreKeeps, Zenon DEF Kept
  <2>3. Kept(b, f[k])
    BY <1>2, <2>1, <2>2 DEF Kept
  <2> QED
    BY <2>3
<1>5. Good = 0 .. n
  <2>1. Good \in SUBSET (0 .. n)
    OBVIOUS
  <2> HIDE DEF Good
  <2> QED
    BY <1>1, <1>3, <1>4, <2>1, AllPositions
<1>6. n \in Good
  BY <1>1, <1>5
<1> QED
  BY <1>2, <1>6

\* A write (lib.rs 2379-2434, 2457-2474).
LEMMA DpcPlusWriteKeeps ==
  ASSUME NEW b, IsDpcPlus(b), NEW addr \in BusAddrs, NEW v \in BusBytes, NEW stores \in Seq(DpcPlusStores)
  PROVE  Kept(b, DpcPlusWrite(b, addr, v, stores))
<1> DEFINE a == Offset(addr)
           c == DpcPlusWrite(b, addr, v, stores)
           bank == addr - \h1FF6
<1>1. a \in Int
  BY DEF Offset, BusAddrs
<1>2. /\ Kept(b, b)
      /\ \A x : Kept(b, [b EXCEPT !.bank = x])
      /\ \A x : Kept(b, [b EXCEPT !.parameters = x])
  BY FreeFields, Zenon DEF PlaysOn, Kept
<1>3. Kept(b, RunArm(b, stores)) /\ Kept(b, WriteDpcPlus(b, a, v))
  BY <1>1, RunArmKeeps, WriteDpcPlusKeeps, Zenon
<1>4. \A data : Kept(b, Service(b, data))
  <2> TAKE data
  <2> DEFINE x == IF Len(b.parameters) = 4 THEN data ELSE b.data
             none == <<>>
  <2>1. Service(b, data) = [b EXCEPT !.data = x, !.parameters = none]
    BY Zenon DEF Service
  <2> HIDE DEF x, none
  <2> DEFINE d == [b EXCEPT !.data = x]
  <2>2. PlaysOn(b, d)
    BY FreeFields, Zenon
  <2>3. Service(b, data) = [d EXCEPT !.parameters = none]
    BY <2>1 DEF IsDpcPlus
  <2> HIDE DEF d
  <2>4. PlaysOn(d, [d EXCEPT !.parameters = none])
    <3>1. IsDpcPlus(d)
      BY <2>2, Zenon DEF PlaysOn
    <3> HIDE <2>1, <2>2, <2>3
    <3> QED
      BY <3>1, FreeFields, Zenon
  <2> QED
    BY <2>2, <2>3, <2>4, Zenon DEF PlaysOn, Kept
<1> HIDE DEF a, bank
<1>5. \/ c = Bankswitch(b, addr) \/ c = b \/ c = [b EXCEPT !.parameters = <<>>] \/ c = WriteDpcPlus(b, a, v)
      \/ c = Service(b, CopyToFetcher(b)) \/ c = Service(b, FillFetcher(b)) \/ c = RunArm(b, stores)
  BY DEF DpcPlusWrite, a
<1>6. Kept(b, Bankswitch(b, addr))
  <2>1. Bankswitch(b, addr) = [b EXCEPT !.bank = bank]
    BY DEF Bankswitch, bank
  <2> QED
    BY <1>2, <2>1, Zenon
<1> HIDE DEF c
<1>7. Kept(b, c)
  BY <1>2, <1>3, <1>4, <1>5, <1>6
<1> QED
  BY <1>7 DEF c

------------------------------------------------------------------------------
(* Music.                                                                  *)

\* What a tick does to a music fetcher whose count turns at top.
MusicMoves(b, c, top) ==
  /\ c.beats = (b.beats + 1) % 59
  /\ \A m \in 0 .. 2 :
       /\ c.music[m].freq = b.music[m].freq
       /\ c.music[m].count = IF b.beats = 58 THEN (b.music[m].count + b.music[m].freq) % top
                             ELSE b.music[m].count

\* lib.rs 2475-2487, 2178-2187
LEMMA MusicTickFacts ==
  ASSUME NEW b, IsDpcPlus(b)
  PROVE  LET c == MusicTick(b)
         IN IsDpcPlus(c) /\ MusicMoves(b, c, 32) /\ c.frac = b.frac /\ c.fast = b.fast
<1> DEFINE c == MusicTick(b)
<1>1. b.beats \in 0 .. 58 /\ b.music \in [0 .. 2 -> Musics(31)]
  BY DEF IsDpcPlus
<1>2. CASE b.beats + 1 < 59
  <2>1. c = [b EXCEPT !.beats = b.beats + 1]
    BY <1>2, Zenon DEF MusicTick, MusicDivide
  <2> DEFINE n == b.beats + 1
  <2>2. n \in 0 .. 58 /\ n = (b.beats + 1) % 59 /\ b.beats # 58
    BY <1>1, <1>2
  <2> HIDE DEF n
  <2>3. c = [b EXCEPT !.beats = n]
    BY <2>1 DEF n
  <2> HIDE DEF c
  <2>4. IsDpcPlus(c) /\ c.music = b.music /\ c.beats = n /\ c.frac = b.frac /\ c.fast = b.fast
    BY <2>2, <2>3 DEF IsDpcPlus
  <2>5. MusicMoves(b, c, 32)
    BY <2>2, <2>4, Zenon DEF MusicMoves
  <2> QED
    BY <2>4, <2>5 DEF c
<1>3. CASE ~ (b.beats + 1 < 59)
  <2> DEFINE g == [m \in 0 .. 2 |-> MusicStep(b.music[m])]
  <2>1. c = [b EXCEPT !.beats = 0, !.music = g]
    BY <1>3, Zenon DEF MusicTick, MusicDivide
  <2>2. b.beats = 58 /\ 0 = (b.beats + 1) % 59
    BY <1>1, <1>3
  <2>3. \A m \in 0 .. 2 : /\ g[m] \in Musics(31) /\ g[m].freq = b.music[m].freq
                          /\ g[m].count = (b.music[m].count + b.music[m].freq) % 32
    <3> TAKE m \in 0 .. 2
    <3> DEFINE f == b.music[m]
               n == (f.count + f.freq) % 32
    <3>1. f \in Musics(31)
      BY <1>1
    <3>2. g[m] = [f EXCEPT !.count = n]
      BY DEF MusicStep
    <3> HIDE DEF f, g
    <3>3. n \in 0 .. 31
      <4> DEFINE sum == f.count + f.freq
      <4>1. sum \in Int
        BY <3>1 DEF Musics
      <4> HIDE DEF sum
      <4> QED
        BY <4>1 DEF sum
    <3> HIDE DEF n
    <3>4. [f EXCEPT !.count = n] \in Musics(31)
      BY <3>1, <3>3 DEF Musics
    <3>5. [f EXCEPT !.count = n].freq = f.freq /\ [f EXCEPT !.count = n].count = n
      BY <3>1 DEF Musics
    <3> QED
      BY <3>2, <3>4, <3>5 DEF f, n
  <2>4. g \in [0 .. 2 -> Musics(31)]
    BY <2>3
  <2> DEFINE d == [b EXCEPT !.music = g]
  <2> HIDE DEF g
  <2>7. IsDpcPlus(d) /\ d.music = g /\ d.frac = b.frac /\ d.fast = b.fast
    BY <2>4 DEF IsDpcPlus
  <2>8. c = [d EXCEPT !.beats = 0]
    BY <2>1 DEF IsDpcPlus
  <2> HIDE DEF c, d
  <2>9. IsDpcPlus(c) /\ c.music = d.music /\ c.beats = 0 /\ c.frac = d.frac /\ c.fast = d.fast
    BY <2>7, <2>8 DEF IsDpcPlus
  <2>5. IsDpcPlus(c) /\ c.music = g /\ c.beats = 0 /\ c.frac = b.frac /\ c.fast = b.fast
    BY <2>7, <2>9
  <2>6. MusicMoves(b, c, 32)
    BY <2>2, <2>3, <2>5, Zenon DEF MusicMoves
  <2> QED
    BY <2>5, <2>6 DEF c
<1> QED
  BY <1>2, <1>3

------------------------------------------------------------------------------
(* CDF.                                                                    *)

\* What a read leaves as it was, and what a write may leave.
CdfKept(b, c) == IsCdfBoard(c) /\ c.kind = b.kind /\ c.beats = b.beats
CdfPlaysOn(b, c) == CdfKept(b, c) /\ c.music = b.music

LEMMA CdfFreeFields ==
  ASSUME NEW b, IsCdfBoard(b)
  PROVE  /\ CdfPlaysOn(b, b)
         /\ \A x : CdfPlaysOn(b, [b EXCEPT !.bank = x])
         /\ \A x : CdfPlaysOn(b, [b EXCEPT !.rom = x])
         /\ \A x : CdfPlaysOn(b, [b EXCEPT !.data = x])
         /\ \A x : CdfPlaysOn(b, [b EXCEPT !.pointer = x])
         /\ \A x : CdfPlaysOn(b, [b EXCEPT !.increment = x])
         /\ \A x : CdfPlaysOn(b, [b EXCEPT !.base = x])
         /\ \A x : CdfPlaysOn(b, [b EXCEPT !.load = x])
         /\ \A x : CdfPlaysOn(b, [b EXCEPT !.jmp = x])
         /\ \A x \in BOOLEAN : CdfPlaysOn(b, [b EXCEPT !.fast = x])
         /\ \A x \in BOOLEAN : CdfPlaysOn(b, [b EXCEPT !.sample = x])
<1>0. CdfPlaysOn(b, b)
  BY DEF CdfPlaysOn, CdfKept
<1>1. \A x : CdfPlaysOn(b, [b EXCEPT !.bank = x])
  BY DEF CdfPlaysOn, CdfKept, IsCdfBoard
<1>2. \A x : CdfPlaysOn(b, [b EXCEPT !.rom = x])
  BY DEF CdfPlaysOn, CdfKept, IsCdfBoard
<1>3. \A x : CdfPlaysOn(b, [b EXCEPT !.data = x])
  BY DEF CdfPlaysOn, CdfKept, IsCdfBoard
<1>4. \A x : CdfPlaysOn(b, [b EXCEPT !.pointer = x])
  BY DEF CdfPlaysOn, CdfKept, IsCdfBoard
<1>5. \A x : CdfPlaysOn(b, [b EXCEPT !.increment = x])
  BY DEF CdfPlaysOn, CdfKept, IsCdfBoard
<1>6. \A x : CdfPlaysOn(b, [b EXCEPT !.base = x])
  BY DEF CdfPlaysOn, CdfKept, IsCdfBoard
<1>7. \A x : CdfPlaysOn(b, [b EXCEPT !.load = x])
  BY DEF CdfPlaysOn, CdfKept, IsCdfBoard
<1>8. \A x : CdfPlaysOn(b, [b EXCEPT !.jmp = x])
  BY DEF CdfPlaysOn, CdfKept, IsCdfBoard
<1>9. \A x \in BOOLEAN : CdfPlaysOn(b, [b EXCEPT !.fast = x])
  BY DEF CdfPlaysOn, CdfKept, IsCdfBoard
<1>10. \A x \in BOOLEAN : CdfPlaysOn(b, [b EXCEPT !.sample = x])
  BY DEF CdfPlaysOn, CdfKept, IsCdfBoard
<1> QED
  BY <1>0, <1>1, <1>2, <1>3, <1>4, <1>5, <1>6, <1>7, <1>8, <1>9, <1>10, Zenon

LEMMA CdfMusicField ==
  ASSUME NEW b, IsCdfBoard(b), NEW x \in [0 .. 2 -> Musics(4095)]
  PROVE  CdfKept(b, [b EXCEPT !.music = x])
BY DEF CdfKept, IsCdfBoard

LEMMA CdfPlaysOnTwice ==
  ASSUME NEW b, NEW c, NEW d, CdfPlaysOn(b, c), CdfPlaysOn(c, d)
  PROVE  CdfPlaysOn(b, d)
BY DEF CdfPlaysOn, CdfKept

\* A read moves streams and no music (lib.rs 2720-2818).
LEMMA MovedPlaysOn ==
  ASSUME NEW b, IsCdfBoard(b), NEW reg, NEW by
  PROVE  CdfPlaysOn(b, Moved(b, reg, by))
<1> DEFINE x == Put(b.pointer, reg, (Cells(b.pointer, reg) + by) % (256 * Version(b.kind).indices))
<1>1. Moved(b, reg, by) = [b EXCEPT !.pointer = x]
  BY Zenon DEF Moved
<1> HIDE DEF x
<1>2. CdfPlaysOn(b, [b EXCEPT !.pointer = x])
  BY CdfFreeFields, Zenon
<1> QED
  BY <1>1, <1>2

LEMMA PlainReadPlaysOn ==
  ASSUME NEW b, IsCdfBoard(b), NEW a
  PROVE  CdfPlaysOn(b, PlainRead(b, a)[1])
<1> DEFINE j == IF b.fast /\ ArmsJump(b, a) THEN 2 ELSE b.jmp
           l == IF b.fast /\ ArmsLoad(b, RomAt(b, a)) THEN 2 ELSE b.load
           d == [b EXCEPT !.jmp = j]
           r == PlainRead(b, a)
<1>1. r = <<[b EXCEPT !.jmp = j, !.load = l], RomAt(b, a)>>
  BY Zenon DEF PlainRead
<1> HIDE DEF r, j, l
<1>2. r[1] = [b EXCEPT !.jmp = j, !.load = l]
  BY <1>1
<1>3. r[1] = [d EXCEPT !.load = l]
  BY <1>2 DEF IsCdfBoard
<1>4. CdfPlaysOn(b, d)
  BY CdfFreeFields, Zenon
<1> HIDE DEF d
<1>6. IsCdfBoard(d)
  BY <1>4 DEF CdfPlaysOn, CdfKept
<1>7. CdfPlaysOn(d, [d EXCEPT !.load = l])
  BY <1>6, CdfFreeFields, Zenon
<1>5. CdfPlaysOn(d, r[1])
  BY <1>3, <1>7
<1> QED
  BY <1>4, <1>5, CdfPlaysOnTwice DEF r

LEMMA LoadReadPlaysOn ==
  ASSUME NEW b, IsCdfBoard(b), NEW a
  PROVE  CdfPlaysOn(b, LoadRead(b, a)[1])
<1> DEFINE l == b.load - 1
           taken == [b EXCEPT !.load = l]
           reg == RomAt(b, a) - b.features.offset
           r == LoadRead(b, a)
<1>1. \/ r = StreamData(taken, reg) \/ r = <<taken, Amplitude(b)>> \/ r = PlainRead(taken, a)
  BY DEF LoadRead
<1> HIDE DEF l
<1>2. CdfPlaysOn(b, taken)
  BY CdfFreeFields, Zenon
<1>3. IsCdfBoard(taken)
  BY <1>2 DEF CdfPlaysOn, CdfKept
<1> HIDE DEF taken, reg, r
<1>4. CASE r = StreamData(taken, reg)
  <2>1. r[1] = Moved(taken, reg, Cells(taken.increment, reg))
    BY <1>4 DEF StreamData
  <2>2. CdfPlaysOn(taken, r[1])
    BY <1>3, <2>1, MovedPlaysOn, Zenon
  <2> QED
    BY <1>2, <2>2, CdfPlaysOnTwice DEF r
<1>5. CASE r = <<taken, Amplitude(b)>>
  BY <1>2, <1>5 DEF r
<1>6. CASE r = PlainRead(taken, a)
  <2>1. CdfPlaysOn(taken, r[1])
    BY <1>3, <1>6, PlainReadPlaysOn, Zenon
  <2> QED
    BY <1>2, <2>1, CdfPlaysOnTwice DEF r
<1> QED
  BY <1>1, <1>4, <1>5, <1>6

LEMMA JumpReadPlaysOn ==
  ASSUME NEW b, IsCdfBoard(b), NEW a
  PROVE  CdfPlaysOn(b, JumpRead(b, a)[1])
<1> DEFINE left == b.jmp - 1
           d == [b EXCEPT !.jmp = left]
           reg == RomAt(b, a - 1 + left) + Jump
           r == JumpRead(b, a)
<1>1. r = JumpByte(d, reg)
  BY Zenon DEF JumpRead
<1> HIDE DEF left, reg, r
<1>2. CdfPlaysOn(b, d)
  BY CdfFreeFields, Zenon
<1>3. IsCdfBoard(d)
  BY <1>2 DEF CdfPlaysOn, CdfKept
<1> HIDE DEF d
<1>4. r = <<Moved(d, reg, 256), StreamByte(d, reg)>> \/ r = <<d, 0>>
  BY <1>1, Zenon DEF JumpByte
<1>5. r[1] = Moved(d, reg, 256) \/ r[1] = d
  BY <1>4
<1>6. CdfPlaysOn(d, Moved(d, reg, 256)) /\ CdfPlaysOn(d, d)
  BY <1>3, MovedPlaysOn, CdfFreeFields, Zenon
<1> QED
  BY <1>2, <1>5, <1>6, CdfPlaysOnTwice DEF r

LEMMA CdfBankswitchPlaysOn ==
  ASSUME NEW b, IsCdfBoard(b), NEW addr
  PROVE  CdfPlaysOn(b, CdfBankswitch(b, addr))
<1>1. PICK x : CdfBankswitch(b, addr) = [b EXCEPT !.bank = x]
  BY DEF CdfBankswitch
<1>2. CdfPlaysOn(b, [b EXCEPT !.bank = x])
  BY CdfFreeFields, Zenon
<1> QED
  BY <1>1, <1>2

LEMMA CdfReadPlaysOn ==
  ASSUME NEW b, IsCdfBoard(b), NEW addr
  PROVE  CdfPlaysOn(b, CdfRead(b, addr)[1])
<1> DEFINE a == Offset(addr)
           j == IF b.fast THEN 0 ELSE b.jmp
           d == [b EXCEPT !.jmp = j]
           r == CdfRead(b, addr)
<1>1. \/ r = <<CdfBankswitch(b, addr), 0>> \/ r = JumpRead(b, a) \/ r = LoadRead(d, a) \/ r = PlainRead(d, a)
  BY Zenon DEF CdfRead
<1> HIDE DEF a, j, r
<1>2. CdfPlaysOn(b, d)
  BY CdfFreeFields, Zenon
<1>3. IsCdfBoard(d)
  BY <1>2 DEF CdfPlaysOn, CdfKept
<1> HIDE DEF d
<1>4. CASE r = <<CdfBankswitch(b, addr), 0>>
  BY <1>4, CdfBankswitchPlaysOn DEF r
<1>5. CASE r = JumpRead(b, a)
  BY <1>5, JumpReadPlaysOn DEF r
<1>6. CASE r = LoadRead(d, a)
  <2>1. CdfPlaysOn(d, r[1])
    BY <1>3, <1>6, LoadReadPlaysOn, Zenon
  <2> QED
    BY <1>2, <2>1, CdfPlaysOnTwice DEF r
<1>7. CASE r = PlainRead(d, a)
  <2>1. CdfPlaysOn(d, r[1])
    BY <1>3, <1>7, PlainReadPlaysOn, Zenon
  <2> QED
    BY <1>2, <2>1, CdfPlaysOnTwice DEF r
<1> QED
  BY <1>1, <1>4, <1>5, <1>6, <1>7

LEMMA CdfKeptTwice ==
  ASSUME NEW b, NEW c, NEW d, CdfKept(b, c), CdfKept(c, d)
  PROVE  CdfKept(b, d)
BY DEF CdfKept

LEMMA SetModeKeeps ==
  ASSUME NEW b, IsCdfBoard(b), NEW v
  PROVE  CdfKept(b, SetMode(b, v))
<1> DEFINE fast == v % 16 # 15
           sample == v \div 16 # 15
           load == IF fast THEN b.load ELSE 0
           jmp == IF fast THEN b.jmp ELSE 0
           c1 == [b EXCEPT !.fast = fast]
           c2 == [c1 EXCEPT !.sample = sample]
           c3 == [c2 EXCEPT !.load = load]
           c4 == [c3 EXCEPT !.jmp = jmp]
<1>1. SetMode(b, v) = [b EXCEPT !.fast = fast, !.sample = sample, !.load = load, !.jmp = jmp]
  BY Zenon DEF SetMode
<1>2. fast \in BOOLEAN /\ sample \in BOOLEAN
  OBVIOUS
<1> HIDE DEF fast, sample, load, jmp
<1>3. SetMode(b, v) = c4
  BY <1>1 DEF IsCdfBoard
<1> HIDE DEF c1, c2, c3, c4
<1>4. CdfPlaysOn(b, c1)
  <2>1. CdfPlaysOn(b, [b EXCEPT !.fast = fast])
    BY <1>2, CdfFreeFields, Zenon
  <2> QED
    BY <2>1 DEF c1
<1>5. CdfPlaysOn(c1, c2)
  <2>1. IsCdfBoard(c1)
    BY <1>4 DEF CdfPlaysOn, CdfKept
  <2>2. CdfPlaysOn(c1, [c1 EXCEPT !.sample = sample])
    BY <1>2, <2>1, CdfFreeFields, Zenon
  <2> QED
    BY <2>2 DEF c2
<1>6. CdfPlaysOn(c2, c3)
  <2>1. IsCdfBoard(c2)
    BY <1>5 DEF CdfPlaysOn, CdfKept
  <2>2. CdfPlaysOn(c2, [c2 EXCEPT !.load = load])
    BY <2>1, CdfFreeFields, Zenon
  <2> QED
    BY <2>2 DEF c3
<1>7. CdfPlaysOn(c3, c4)
  <2>1. IsCdfBoard(c3)
    BY <1>6 DEF CdfPlaysOn, CdfKept
  <2>2. CdfPlaysOn(c3, [c3 EXCEPT !.jmp = jmp])
    BY <2>1, CdfFreeFields, Zenon
  <2> QED
    BY <2>2 DEF c4
<1> QED
  BY <1>3, <1>4, <1>5, <1>6, <1>7 DEF CdfPlaysOn, CdfKept

LEMMA DsWriteKeeps ==
  ASSUME NEW b, IsCdfBoard(b), NEW v
  PROVE  CdfKept(b, DsWrite(b, v))
<1> DEFINE x == Put(b.data, Index(b, Comm), v)
           d == [b EXCEPT !.data = x]
<1>1. DsWrite(b, v) = Moved(d, Comm, 256) \/ DsWrite(b, v) = b
  BY Zenon DEF DsWrite
<1> HIDE DEF x
<1>2. CdfPlaysOn(b, d) /\ CdfPlaysOn(b, b)
  BY CdfFreeFields, Zenon
<1> HIDE DEF d
<1>3. IsCdfBoard(d)
  BY <1>2 DEF CdfPlaysOn, CdfKept
<1>4. CdfPlaysOn(d, Moved(d, Comm, 256))
  BY <1>3, MovedPlaysOn, Zenon
<1> QED
  BY <1>1, <1>2, <1>4 DEF CdfPlaysOn, CdfKept

\* The six outcomes of a store, of which a board takes one.
StoreOf(name, w, n, data, rom, pointer, increment, base, none) ==
  CASE name = "data" -> data
    [] name = "custom" -> rom
    [] name = "driver" /\ w \in 0 .. n - 1 -> pointer
    [] name = "driver" /\ w \in n .. 2 * n - 1 -> increment
    [] name = "driver" /\ w \in 2 * n .. 2 * n + 2 -> base
    [] OTHER -> none

LEMMA CdfStorePlaysOn ==
  ASSUME NEW b, IsCdfBoard(b), NEW s
  PROVE  CdfPlaysOn(b, CdfStore(b, s))
<1> DEFINE g == Head(Mapped(CdfSegments(b), s.addr))
           i == s.addr - g.origin
           n == Version(b.kind).streams
           w == (i - Version(b.kind).fetchers) \div 4
           c == CdfStore(b, s)
           data == Put(b.data, i, s.v)
           rom == Put(b.rom, i, s.v)
           pointer == Put(b.pointer, w, s.v)
           increment == Put(b.increment, w - n, s.v)
           base == [b.base EXCEPT ![w - 2 * n] = s.v]
<1>1. \/ c = b \/ c = [b EXCEPT !.data = data] \/ c = [b EXCEPT !.rom = rom] \/ c = [b EXCEPT !.pointer = pointer]
      \/ c = [b EXCEPT !.increment = increment] \/ c = [b EXCEPT !.base[w - 2 * n] = s.v]
  <2> DEFINE c1 == [b EXCEPT !.data = data]
             c2 == [b EXCEPT !.rom = rom]
             c3 == [b EXCEPT !.pointer = pointer]
             c4 == [b EXCEPT !.increment = increment]
             c5 == [b EXCEPT !.base[w - 2 * n] = s.v]
  <2>1. c = StoreOf(g.name, w, n, c1, c2, c3, c4, c5, b)
    BY Zenon DEF CdfStore, StoreOf
  <2> HIDE DEF c, g, i, n, w, data, rom, pointer, increment, c1, c2, c3, c4, c5
  <2>2. c = b \/ c = c1 \/ c = c2 \/ c = c3 \/ c = c4 \/ c = c5
    BY <2>1 DEF StoreOf
  <2> QED
    BY <2>2, Zenon DEF c1, c2, c3, c4, c5
<1> HIDE DEF g, i, n, w, data, rom, pointer, increment
<1>2. [b EXCEPT !.base[w - 2 * n] = s.v] = [b EXCEPT !.base = base]
  BY DEF IsCdfBoard
<1> HIDE DEF base, c
<1>3. /\ CdfPlaysOn(b, b) /\ CdfPlaysOn(b, [b EXCEPT !.data = data]) /\ CdfPlaysOn(b, [b EXCEPT !.rom = rom])
      /\ CdfPlaysOn(b, [b EXCEPT !.pointer = pointer]) /\ CdfPlaysOn(b, [b EXCEPT !.increment = increment])
      /\ CdfPlaysOn(b, [b EXCEPT !.base = base])
  BY CdfFreeFields, Zenon
<1>4. CdfPlaysOn(b, c)
  BY <1>1, <1>2, <1>3
<1> QED
  BY <1>4 DEF c

LEMMA MusicsTypes ==
  ASSUME NEW top \in Nat, NEW f \in Musics(top)
  PROVE  f.count \in Int /\ f.freq \in Int
BY DEF Musics

LEMMA MusicsFields ==
  ASSUME NEW top \in Nat, NEW f \in Musics(top), NEW v \in Nat
  PROVE  /\ [f EXCEPT !.freq = v] \in Musics(top) /\ [f EXCEPT !.waveform = v] \in Musics(top)
         /\ [f EXCEPT !.count = 0] \in Musics(top)
BY DEF Musics

LEMMA ArmServiceTypes ==
  ASSUME NEW music \in [0 .. 2 -> Musics(4095)], NEW s, s.v \in Nat
  PROVE  ArmService(music, s) \in [0 .. 2 -> Musics(4095)]
<1> DEFINE freq == [music[s.m] EXCEPT !.freq = s.v]
           count == [music[s.m] EXCEPT !.count = 0]
           wave == [music[s.m] EXCEPT !.waveform = s.v]
<1>1. s.m \in 0 .. 2 => freq \in Musics(4095) /\ count \in Musics(4095) /\ wave \in Musics(4095)
  BY MusicsFields
<1>2. \/ ArmService(music, s) = music
      \/ /\ s.m \in 0 .. 2
         /\ \/ ArmService(music, s) = [music EXCEPT ![s.m] = freq]
            \/ ArmService(music, s) = [music EXCEPT ![s.m] = count]
            \/ ArmService(music, s) = [music EXCEPT ![s.m] = wave]
  BY DEF ArmService
<1> HIDE DEF freq, count, wave
<1> QED
  BY <1>1, <1>2

LEMMA CdfRunArmKeeps ==
  ASSUME NEW b, IsCdfBoard(b), NEW run, run.stores \in Stores(Nat), run.v \in Nat
  PROVE  CdfKept(b, CdfRunArm(b, run))
<1> DEFINE obeyed == Obeyed(CdfSegments(b), run.stores)
           n == Len(obeyed)
<1>1. n \in Nat
  BY ObeyedFacts, Zenon DEF Stores
<1>2. PICK f : /\ f[0] = b
               /\ \A i \in 1 .. n : f[i] = CdfStore(f[i - 1], obeyed[i])
               /\ CdfRunArm(b, run) =
                    [f[n] EXCEPT !.music = IF obeyed = run.stores THEN ArmService(@, run) ELSE @]
  BY <1>1, CdfArmIs
<1> DEFINE music == IF obeyed = run.stores THEN ArmService(f[n].music, run) ELSE f[n].music
<1>3. CdfRunArm(b, run) = [f[n] EXCEPT !.music = music]
  BY <1>2
<1> HIDE DEF n
<1> DEFINE Good == {k \in 0 .. n : CdfPlaysOn(b, f[k])}
<1>4. 0 \in Good
  BY <1>1, <1>2 DEF CdfPlaysOn, CdfKept
<1>5. ASSUME NEW k \in 1 .. n, k - 1 \in Good PROVE k \in Good
  <2>1. CdfPlaysOn(b, f[k - 1])
    BY <1>5
  <2>2. CdfPlaysOn(f[k - 1], CdfStore(f[k - 1], obeyed[k]))
    BY <2>1, CdfStorePlaysOn, Zenon DEF CdfPlaysOn, CdfKept
  <2>3. CdfPlaysOn(b, f[k])
    BY <1>2, <2>1, <2>2, CdfPlaysOnTwice
  <2> QED
    BY <2>3
<1>6. Good = 0 .. n
  <2>1. Good \in SUBSET (0 .. n)
    OBVIOUS
  <2> HIDE DEF Good
  <2> QED
    BY <1>1, <1>4, <1>5, <2>1, AllPositions
<1>7. CdfPlaysOn(b, f[n])
  <2>1. n \in Good
    BY <1>1, <1>6
  <2> QED
    BY <2>1
<1>8. f[n].music \in [0 .. 2 -> Musics(4095)]
  BY <1>7 DEF CdfPlaysOn, CdfKept, IsCdfBoard
<1>9. music \in [0 .. 2 -> Musics(4095)]
  BY <1>8, ArmServiceTypes
<1> HIDE DEF music, Good, obeyed
<1>10. CdfKept(f[n], [f[n] EXCEPT !.music = music])
  BY <1>7, <1>9, CdfMusicField DEF CdfPlaysOn, CdfKept
<1> QED
  BY <1>3, <1>7, <1>10 DEF CdfPlaysOn, CdfKept

\* A write (lib.rs 2819-2877).
LEMMA CdfWriteKeeps ==
  ASSUME NEW b, IsCdfBoard(b), NEW addr, NEW v, NEW run, run.stores \in Stores(Nat), run.v \in Nat
  PROVE  CdfKept(b, CdfWrite(b, addr, v, run))
<1>1. \/ CdfWrite(b, addr, v, run) = CdfBankswitch(b, addr) \/ CdfWrite(b, addr, v, run) = DsWrite(b, v)
      \/ CdfWrite(b, addr, v, run) = SetPointer(b, v) \/ CdfWrite(b, addr, v, run) = SetMode(b, v)
      \/ CdfWrite(b, addr, v, run) = CdfRunArm(b, run) \/ CdfWrite(b, addr, v, run) = b
  BY DEF CdfWrite
<1>2. CdfKept(b, CdfBankswitch(b, addr))
  BY CdfBankswitchPlaysOn DEF CdfPlaysOn
<1>3. CdfKept(b, SetPointer(b, v))
  <2> DEFINE x == Put(b.pointer, Comm, 256 * ((Index(b, Comm) % Version(b.kind).dspKeeps) * 256 + v))
  <2>1. SetPointer(b, v) = [b EXCEPT !.pointer = x]
    BY DEF SetPointer
  <2> HIDE DEF x
  <2>2. CdfPlaysOn(b, [b EXCEPT !.pointer = x])
    BY CdfFreeFields, Zenon
  <2> QED
    BY <2>1, <2>2 DEF CdfPlaysOn
<1>4. CdfKept(b, b)
  BY DEF CdfKept
<1> QED
  BY <1>1, <1>2, <1>3, <1>4, DsWriteKeeps, SetModeKeeps, CdfRunArmKeeps

\* The counters of the long music, and where they wrap.
LongTurn == 4096
LongCounts == 0 .. 4095
LongMusics == Musics(4095)

LEMMA LongCountIsInt ==
  ASSUME NEW k \in LongCounts
  PROVE  k \in Int
BY DEF LongCounts

LEMMA LongTypes ==
  ASSUME NEW f \in LongMusics
  PROVE  f.count \in Int /\ f.freq \in Int
<1>1. f \in [waveform : Nat, freq : Nat, count : LongCounts]
  BY DEF LongMusics, LongCounts, Musics
<1>2. f.freq \in Int /\ f.count \in LongCounts
  BY <1>1
<1> QED
  BY <1>2, LongCountIsInt, Zenon

LEMMA LongSum ==
  ASSUME NEW c \in Int, NEW q \in Int
  PROVE  (c + q) % LongTurn \in LongCounts
<1> DEFINE sum == c + q
<1>1. sum \in Int
  OBVIOUS
<1> HIDE DEF sum
<1>2. sum % LongTurn \in LongCounts
  BY <1>1 DEF LongTurn, LongCounts
<1> QED
  BY <1>2 DEF sum

LEMMA LongCountField ==
  ASSUME NEW f \in LongMusics, NEW n \in LongCounts
  PROVE  /\ [f EXCEPT !.count = n] \in LongMusics
         /\ [f EXCEPT !.count = n].freq = f.freq
         /\ [f EXCEPT !.count = n].count = n
<1> DEFINE Voices == [waveform : Nat, freq : Nat, count : LongCounts]
<1>1. LongMusics = Voices
  BY DEF LongMusics, LongCounts, Musics
<1>2. f \in Voices
  BY <1>1, Zenon
<1>3. [f EXCEPT !.count = n] \in Voices /\ [f EXCEPT !.count = n].freq = f.freq /\ [f EXCEPT !.count = n].count = n
  BY <1>2
<1> QED
  BY <1>1, <1>3, Zenon

\* lib.rs 2178-2187: one voice, one step of the music clock.
LEMMA CdfMusicStepFacts ==
  ASSUME NEW f \in LongMusics
  PROVE  /\ CdfMusicStep(f) \in LongMusics /\ CdfMusicStep(f).freq = f.freq
         /\ CdfMusicStep(f).count = (f.count + f.freq) % LongTurn
<1> DEFINE n == (f.count + f.freq) % LongTurn
<1>1. n \in LongCounts
  BY LongTypes, LongSum, Zenon
<1>2. CdfMusicStep(f) = [f EXCEPT !.count = n]
  BY DEF CdfMusicStep, LongTurn
<1> HIDE DEF n
<1>3. /\ [f EXCEPT !.count = n] \in LongMusics /\ [f EXCEPT !.count = n].freq = f.freq
      /\ [f EXCEPT !.count = n].count = n
  BY <1>1, LongCountField, Zenon
<1>4. CdfMusicStep(f) \in LongMusics /\ CdfMusicStep(f).freq = f.freq /\ CdfMusicStep(f).count = n
  BY <1>2, <1>3, Zenon
<1> QED
  BY <1>4 DEF n

\* lib.rs 2878-2901
LEMMA CdfTickFacts ==
  ASSUME NEW b, IsCdfBoard(b)
  PROVE  LET c == CdfTick(b)
         IN IsCdfBoard(c) /\ c.kind = b.kind /\ MusicMoves(b, c, 4096)
<1> DEFINE last1 == b.beats + 1 = 59
           load == IF b.load > 0 THEN b.load - 1 ELSE 0
           beats == IF last1 THEN 0 ELSE b.beats + 1
           stepped == [m \in 0 .. 2 |-> CdfMusicStep(b.music[m])]
           music == IF last1 THEN stepped ELSE b.music
           c == CdfTick(b)
           c1 == [b EXCEPT !.load = load]
           c2 == [c1 EXCEPT !.beats = beats]
           c3 == [c2 EXCEPT !.music = music]
<1>1. b.beats \in 0 .. 58 /\ b.music \in [0 .. 2 -> Musics(4095)]
  BY DEF IsCdfBoard
<1>2. c = [b EXCEPT !.load = load, !.beats = beats, !.music = music]
  BY Zenon DEF CdfTick, MusicDivide
<1>3. beats \in 0 .. 58 /\ beats = (b.beats + 1) % 59 /\ (last1 <=> b.beats = 58)
  BY <1>1
<1>4. ASSUME NEW m \in 0 .. 2
      PROVE  /\ stepped[m] \in LongMusics /\ stepped[m].freq = b.music[m].freq
             /\ stepped[m].count = (b.music[m].count + b.music[m].freq) % LongTurn
  <2>1. b.music \in [0 .. 2 -> LongMusics]
    BY <1>1 DEF LongMusics
  <2>2. b.music[m] \in LongMusics
    BY <2>1
  <2>3. stepped[m] = CdfMusicStep(b.music[m])
    OBVIOUS
  <2> QED
    BY <2>2, <2>3, CdfMusicStepFacts, Zenon
<1>5. stepped \in [0 .. 2 -> Musics(4095)]
  <2>1. stepped \in [0 .. 2 -> LongMusics]
    BY <1>4
  <2> QED
    BY <2>1 DEF LongMusics
<1> HIDE DEF stepped
<1>6. music \in [0 .. 2 -> Musics(4095)]
  BY <1>1, <1>5
<1>7. \A m \in 0 .. 2 :
        /\ music[m].freq = b.music[m].freq
        /\ music[m].count = IF b.beats = 58 THEN (b.music[m].count + b.music[m].freq) % LongTurn
                            ELSE b.music[m].count
  BY <1>3, <1>4
<1> HIDE DEF last1, load, beats, music
<1>8. c = c3
  BY <1>2 DEF IsCdfBoard
<1> HIDE DEF c, c1, c2, c3
<1>9. CdfPlaysOn(b, c1)
  <2>1. CdfPlaysOn(b, [b EXCEPT !.load = load])
    BY CdfFreeFields, Zenon
  <2> QED
    BY <2>1 DEF c1
<1>10. IsCdfBoard(c2) /\ c2.kind = b.kind /\ c2.beats = beats
  BY <1>3, <1>9 DEF c2, IsCdfBoard, CdfPlaysOn, CdfKept
<1>11. IsCdfBoard(c3) /\ c3.kind = b.kind /\ c3.beats = beats /\ c3.music = music
  <2>1. CdfKept(c2, c3)
    BY <1>6, <1>10, CdfMusicField DEF c3
  <2>2. c3.music = music
    BY <1>10 DEF c3, IsCdfBoard
  <2> QED
    BY <1>10, <2>1, <2>2 DEF CdfKept
<1>12. MusicMoves(b, c, 4096)
  <2>1. MusicMoves(b, c, LongTurn)
    BY <1>3, <1>7, <1>8, <1>11 DEF MusicMoves
  <2> QED
    BY <2>1 DEF LongTurn
<1> QED
  BY <1>8, <1>11, <1>12 DEF c

------------------------------------------------------------------------------
(* The Supercharger.                                                       *)

\* The same byte held, at the same access.
SameHold(b, c) == c.hold = b.hold /\ c.at_hold = b.at_hold /\ c.accesses = b.accesses

LEMMA BankConfigurationTypes ==
  ASSUME NEW b, IsAr(b), NEW config \in BusBytes
  PROVE  /\ IsAr(BankConfiguration(b, config))
         /\ LET c == BankConfiguration(b, config)
            IN SameHold(b, c) /\ c.ram = b.ram /\ c.pending = b.pending
<1> DEFINE i == ((config \div 4) % 8) + 1
           low == LowBank[i]
           high == HighBank[i]
           power == Bit(config, 0) = 0
           writes == Bit(config, 1) = 1
           c1 == [b EXCEPT !.low = low]
           c2 == [c1 EXCEPT !.high = high]
           c3 == [c2 EXCEPT !.power = power]
           c4 == [c3 EXCEPT !.writes = writes]
<1>1. BankConfiguration(b, config) = [b EXCEPT !.low = low, !.high = high, !.power = power, !.writes = writes]
  BY Zenon DEF BankConfiguration
<1>2. i \in 1 .. 8
  BY DEF BusBytes
<1>3. low \in 0 .. 2 /\ high \in 0 .. 3 /\ power \in BOOLEAN /\ writes \in BOOLEAN
  <2> HIDE DEF i
  <2> QED
    BY <1>2 DEF LowBank, HighBank
<1> HIDE DEF i, low, high, power, writes
<1>4. BankConfiguration(b, config) = c4
  BY <1>1 DEF IsAr
<1> DEFINE Same(c, d) == SameHold(d, c) /\ c.ram = d.ram /\ c.pending = d.pending
<1> HIDE DEF c1, c2, c3, c4
<1>5. IsAr(c1) /\ Same(c1, b)
  BY <1>3 DEF IsAr, SameHold, c1
<1>6. IsAr(c2) /\ Same(c2, c1)
  BY <1>3, <1>5 DEF IsAr, SameHold, c2
<1>7. IsAr(c3) /\ Same(c3, c2)
  BY <1>3, <1>6 DEF IsAr, SameHold, c3
<1>8. IsAr(c4) /\ Same(c4, c3)
  BY <1>3, <1>7 DEF IsAr, SameHold, c4
<1> QED
  BY <1>4, <1>5, <1>6, <1>7, <1>8 DEF SameHold

LEMMA NoteAccessFacts ==
  ASSUME NEW b, IsAr(b)
  PROVE  LET c == NoteAccess(b)
         IN /\ IsAr(c) /\ c.ram = b.ram /\ c.hold = b.hold /\ c.at_hold = b.at_hold
            /\ c.accesses = b.accesses + 1
            /\ c.pending = (b.pending /\ b.accesses + 1 <= b.at_hold + 5)
<1> DEFINE n == b.accesses + 1
           pending == b.pending /\ n <= b.at_hold + 5
           c == NoteAccess(b)
           c1 == [b EXCEPT !.accesses = n]
           c2 == [c1 EXCEPT !.pending = pending]
<1>1. c = [b EXCEPT !.accesses = n, !.pending = pending]
  BY Zenon DEF NoteAccess, WriteDelay
<1>2. n \in Nat /\ pending \in BOOLEAN
  BY DEF IsAr
<1> HIDE DEF n, pending
<1>3. c = c2
  BY <1>1 DEF IsAr
<1> HIDE DEF c, c1, c2
<1>4. IsAr(c1) /\ c1.ram = b.ram /\ c1.hold = b.hold /\ c1.at_hold = b.at_hold /\ c1.accesses = n
  BY <1>2 DEF IsAr, c1
<1>5. /\ IsAr(c2) /\ c2.ram = c1.ram /\ c2.hold = c1.hold /\ c2.at_hold = c1.at_hold
      /\ c2.accesses = c1.accesses /\ c2.pending = pending
  BY <1>2, <1>4 DEF IsAr, c2
<1> QED
  BY <1>3, <1>4, <1>5 DEF c, n, pending

\* A load fills cells of the three banks of RAM.
LEMMA CellOfPage ==
  ASSUME NEW i \in 0 .. 2, NEW j \in 0 .. 7
  PROVE  i * BankSize + j * 256 \in 0 .. Bios * BankSize - 1
<1>1. i = 0 \/ i = 1 \/ i = 2
  OBVIOUS
<1>2. j * 256 \in 0 .. 1792
  OBVIOUS
<1> QED
  BY <1>1, <1>2 DEF Bios, BankSize

LEMMA FilledIn ==
  ASSUME NEW ram, DOMAIN ram \subseteq 0 .. Bios * BankSize - 1,
         NEW pages, DOMAIN pages \subseteq (0 .. Bios) \X (0 .. 7)
  PROVE  DOMAIN Filled(ram, pages) \subseteq 0 .. Bios * BankSize - 1
<1> DEFINE to == {p \in DOMAIN pages : p[1] # Bios}
           first == {p[1] * BankSize + p[2] * 256 : p \in to}
           of(i) == <<i \div BankSize, (i % BankSize) \div 256>>
           others == {j \in DOMAIN ram : of(j) \notin to}
<1>1. DOMAIN Filled(ram, pages) = first \cup others
  BY DEF Filled
<1>2. first \subseteq 0 .. Bios * BankSize - 1
  <2>1. ASSUME NEW p \in to PROVE p[1] * BankSize + p[2] * 256 \in 0 .. Bios * BankSize - 1
    <3>1. p[1] \in 0 .. 2 /\ p[2] \in 0 .. 7
      BY DEF Bios
    <3> QED
      BY <3>1, CellOfPage, Zenon
  <2> QED
    BY <2>1
<1>3. others \subseteq 0 .. Bios * BankSize - 1
  OBVIOUS
<1> QED
  BY <1>1, <1>2, <1>3

LEMMA LoadIntoRamFacts ==
  ASSUME NEW b, IsAr(b)
  PROVE  LET c == LoadIntoRam(b) IN IsAr(c) /\ SameHold(b, c) /\ c.pending = b.pending
<1> DEFINE first == b.tape[CHOOSE i \in Numbered(b) : \A j \in Numbered(b) : i <= j]
           c == LoadIntoRam(b)
           ram == Filled(b.ram, first.pages)
           pokes == [a \in {\h80, \hFE, \hFF} |-> CASE a = \hFE -> first.config
                                                    [] a = \hFF -> first.startLow
                                                    [] a = \h80 -> first.startHigh]
           c1 == [b EXCEPT !.ram = ram]
           c2 == [c1 EXCEPT !.pokes = pokes]
<1>1. CASE Numbered(b) = {}
  BY <1>1 DEF LoadIntoRam, SameHold
<1>2. CASE Numbered(b) # {}
  <2>1. c = [b EXCEPT !.ram = ram, !.pokes = pokes]
    BY <1>2, Zenon DEF LoadIntoRam
  <2>2. (CHOOSE i \in Numbered(b) : \A j \in Numbered(b) : i <= j) \in Numbered(b)
    <3>1. Numbered(b) \in SUBSET Nat
      BY DEF Numbered, IsAr
    <3>2. \E i \in Numbered(b) : \A j \in Numbered(b) : i <= j
      BY <1>2, <3>1, LeastNat
    <3> QED
      BY <3>2, Zenon
  <2>3. DOMAIN first.pages \subseteq (0 .. Bios) \X (0 .. 7)
    BY <2>2 DEF Numbered, IsAr
  <2>4. DOMAIN ram \subseteq 0 .. Bios * BankSize - 1
    BY <2>3, FilledIn DEF IsAr
  <2> HIDE DEF ram, pokes
  <2>5. c = c2
    BY <2>1 DEF IsAr
  <2> HIDE DEF c, c1, c2
  <2>6. IsAr(c1) /\ SameHold(b, c1) /\ c1.pending = b.pending
    BY <2>4 DEF IsAr, SameHold, c1
  <2>7. IsAr(c2) /\ SameHold(c1, c2) /\ c2.pending = c1.pending
    BY <2>6 DEF IsAr, SameHold, c2
  <2> QED
    BY <2>5, <2>6, <2>7 DEF SameHold, c
<1> QED
  BY <1>1, <1>2

\* A cell that a program writes lies where the address of the access says.
Touched(ram, next, addr, v) ==
  \E i : i % BankSize = addr % BankSize /\ next = ArPut(ram, i, v)

\* What the hotspot does: it holds a byte, keeps the one it has, or stores it.
Hotspot(b, c, addr) ==
  \/ /\ (addr \div 256) % 16 = 0 /\ c.hold = Lo(addr) /\ c.at_hold = b.accesses /\ c.pending
     /\ c.ram = b.ram
  \/ c.hold = b.hold /\ c.at_hold = b.at_hold /\ (c.pending => b.pending) /\ c.ram = b.ram
  \/ /\ b.pending /\ ~ c.pending /\ b.accesses = b.at_hold + 5
     /\ Touched(b.ram, c.ram, addr, b.hold)

LEMMA CellOfBank ==
  ASSUME NEW r \in Int, 0 <= r, r < 2048, NEW q \in Int, 0 <= q, q <= 3
  PROVE  r + 2048 * q \in Nat /\ (r + 2048 * q) % 2048 = r /\ (r + 2048 * q) \div 2048 = q
OBVIOUS

LEMMA ImageIndexFacts ==
  ASSUME NEW b, IsAr(b), NEW addr \in BusAddrs
  PROVE  LET i == ImageIndex(b, addr)
         IN /\ i \in Nat /\ i % BankSize = addr % BankSize
            /\ i \div BankSize # Bios => i < Bios * BankSize
<1> DEFINE bank == IF Bit(addr, 11) = 1 THEN b.high ELSE b.low
           off == addr % BankSize
<1>1. bank \in 0 .. 3
  BY DEF IsAr
<1>2. off \in 0 .. 2047 /\ off = addr % 2048
  BY DEF BusAddrs, BankSize
<1>3. ImageIndex(b, addr) = off + 2048 * bank
  BY DEF ImageIndex, BankSize
<1> HIDE DEF bank, off
<1> DEFINE i == off + 2048 * bank
<1>4. i \in Nat /\ i % 2048 = off /\ i \div 2048 = bank
  <2>1. off \in Int /\ 0 <= off /\ off < 2048 /\ bank \in Int /\ 0 <= bank /\ bank <= 3
    BY <1>1, <1>2
  <2> QED
    BY <2>1, CellOfBank
<1>5. bank # 3 => i < 6144
  BY <1>1, <1>2
<1> HIDE DEF i
<1>6. i % BankSize = addr % BankSize /\ (i \div BankSize # Bios => i < Bios * BankSize)
  BY <1>2, <1>4, <1>5 DEF BankSize, Bios
<1> QED
  BY <1>3, <1>4, <1>6 DEF i

LEMMA PendingField ==
  ASSUME NEW b, IsAr(b), NEW on \in BOOLEAN
  PROVE  /\ IsAr([b EXCEPT !.pending = on]) /\ SameHold(b, [b EXCEPT !.pending = on])
         /\ [b EXCEPT !.pending = on].ram = b.ram /\ [b EXCEPT !.pending = on].pending = on
<1> DEFINE c == [b EXCEPT !.pending = on]
<1>1. IsAr(c)
  BY DEF IsAr
<1>2. /\ c.hold = b.hold /\ c.at_hold = b.at_hold /\ c.accesses = b.accesses /\ c.ram = b.ram
      /\ c.pending = on
  BY DEF IsAr
<1> QED
  BY <1>1, <1>2, Zenon DEF SameHold

LEMMA HandleHotspotFacts ==
  ASSUME NEW b, IsAr(b), NEW addr \in BusAddrs
  PROVE  LET c == HandleHotspot(b, addr)
         IN IsAr(c) /\ c.accesses = b.accesses /\ Hotspot(b, c, addr)
<1> DEFINE c == HandleHotspot(b, addr)
           holds == (addr \div 256) % 16 = 0 /\ ~ (b.writes /\ b.pending)
           configures == addr = \h1FF8
           due == b.writes /\ b.pending /\ b.accesses = b.at_hold + WriteDelay
           i == ImageIndex(b, addr)
           off == [b EXCEPT !.pending = FALSE]
           ram == IF i \div BankSize # Bios THEN ArPut(b.ram, i, b.hold) ELSE b.ram
           lo == Lo(addr)
           h1 == [b EXCEPT !.hold = lo]
           h2 == [h1 EXCEPT !.at_hold = b.accesses]
           h3 == [h2 EXCEPT !.pending = TRUE]
<1>1. c = IF holds THEN [b EXCEPT !.hold = lo, !.at_hold = b.accesses, !.pending = TRUE]
          ELSE IF configures THEN BankConfiguration(off, b.hold)
          ELSE IF due THEN [b EXCEPT !.pending = FALSE, !.ram = ram] ELSE b
  BY DEF HandleHotspot
<1>2. lo \in 0 .. 255
  BY DEF Lo, BusAddrs
<1>3. IsAr(off) /\ SameHold(b, off) /\ off.ram = b.ram /\ off.pending = FALSE
  <2>1. FALSE \in BOOLEAN
    OBVIOUS
  <2> QED
    BY <2>1, PendingField, Zenon
<1> HIDE DEF c, lo, configures, h1, h2, h3
<1>4. CASE holds
  <2>1. c = h3
    BY <1>1, <1>4 DEF IsAr, h1, h2, h3
  <2>2. IsAr(h1) /\ h1.hold = lo /\ h1.accesses = b.accesses /\ h1.ram = b.ram
    BY <1>2 DEF IsAr, h1
  <2>3. IsAr(h2) /\ h2.hold = lo /\ h2.accesses = b.accesses /\ h2.ram = b.ram /\ h2.at_hold = b.accesses
    <3>1. b.accesses \in Nat
      BY DEF IsAr
    <3> QED
      BY <2>2, <3>1 DEF IsAr, h2
  <2>4. /\ IsAr(h3) /\ h3.hold = lo /\ h3.accesses = b.accesses /\ h3.ram = b.ram /\ h3.at_hold = b.accesses
        /\ h3.pending
    <3>1. TRUE \in BOOLEAN
      OBVIOUS
    <3>2. IsAr(h3) /\ SameHold(h2, h3) /\ h3.ram = h2.ram /\ h3.pending = TRUE
      BY <2>3, <3>1, PendingField, Zenon DEF h3
    <3> QED
      BY <2>3, <3>2, Zenon DEF SameHold
  <2> QED
    BY <1>4, <2>1, <2>4 DEF Hotspot, c, lo
<1>5. CASE ~ holds /\ configures
  <2>1. c = BankConfiguration(off, b.hold)
    BY <1>1, <1>5
  <2>2. b.hold \in BusBytes
    BY DEF IsAr, BusBytes
  <2> HIDE DEF off
  <2>3. IsAr(c) /\ SameHold(off, c) /\ c.ram = off.ram /\ c.pending = off.pending
    BY <1>3, <2>1, <2>2, BankConfigurationTypes
  <2> QED
    BY <1>3, <2>3 DEF Hotspot, SameHold, c
<1>6. CASE ~ holds /\ ~ configures /\ due
  <2> DEFINE d == [off EXCEPT !.ram = ram]
  <2>1. c = d
    BY <1>1, <1>6 DEF IsAr
  <2>2. DOMAIN ram \subseteq 0 .. Bios * BankSize - 1
    <3>1. i \in Nat /\ (i \div BankSize # Bios => i < Bios * BankSize)
      BY ImageIndexFacts
    <3>2. DOMAIN b.ram \subseteq 0 .. Bios * BankSize - 1
      BY DEF IsAr
    <3> HIDE DEF i
    <3>3. i \div BankSize # Bios => i \in 0 .. Bios * BankSize - 1
      BY <3>1 DEF Bios, BankSize
    <3>4. DOMAIN ArPut(b.ram, i, b.hold) = DOMAIN b.ram \cup {i}
      BY DEF ArPut
    <3> QED
      BY <3>2, <3>3, <3>4
  <2>3. ram = b.ram \/ Touched(b.ram, ram, addr, b.hold)
    <3>1. i % BankSize = addr % BankSize
      BY ImageIndexFacts
    <3> HIDE DEF i
    <3> QED
      BY <3>1 DEF Touched
  <2> HIDE DEF ram, off
  <2>4. IsAr(d) /\ SameHold(off, d) /\ d.ram = ram /\ d.pending = FALSE
    BY <1>3, <2>2 DEF IsAr, SameHold
  <2>5. b.pending /\ b.accesses = b.at_hold + 5
    BY <1>6 DEF WriteDelay
  <2> HIDE DEF d
  <2> QED
    BY <1>3, <2>1, <2>3, <2>4, <2>5 DEF Hotspot, SameHold, c
<1>7. CASE ~ holds /\ ~ configures /\ ~ due
  <2>1. c = b
    BY <1>1, <1>7
  <2> QED
    BY <2>1 DEF Hotspot, c
<1> QED
  BY <1>4, <1>5, <1>6, <1>7

------------------------------------------------------------------------------
(* A cycle of the bus.                                                     *)

LEMMA KindsDiffer ==
  ASSUME NEW b
  PROVE  /\ b \in DpcBoards => b.kind = "DPC" /\ ~ IsCdf(b)
         /\ IsDpcPlus(b) => b.kind = "DPC+" /\ ~ IsCdf(b)
         /\ IsAr(b) => b.kind = "AR" /\ ~ IsCdf(b)
         /\ IsCdfBoard(b) => IsCdf(b) /\ b.kind # "DPC" /\ b.kind # "DPC+" /\ b.kind # "AR"
<1>1. b \in DpcBoards => b.kind = "DPC" /\ ~ IsCdf(b)
  BY DEF DpcBoards, IsCdf, CdfKinds
<1>2. IsDpcPlus(b) => b.kind = "DPC+" /\ ~ IsCdf(b)
  BY DEF IsDpcPlus, IsCdf, CdfKinds
<1>3. IsAr(b) => b.kind = "AR" /\ ~ IsCdf(b)
  BY DEF IsAr, IsCdf, CdfKinds
<1>4. IsCdfBoard(b) => IsCdf(b) /\ b.kind # "DPC" /\ b.kind # "DPC+" /\ b.kind # "AR"
  BY DEF IsCdfBoard, IsCdf, CdfKinds
<1> QED
  BY <1>1, <1>2, <1>3, <1>4

\* The board after an access, of the cartridge's half and of the console's.
LEMMA BusCycleIs ==
  ASSUME NEW s, NEW x, NEW arm
  PROVE  LET c == BusCycle(s, x, arm).cart
             t == Tick(s.cart)
         IN c = IF Selected(x.addr) THEN Quiet(InCartridge(t, x, arm)[1])
                ELSE Quiet(InConsole(t, s.riot, x)[1])
<1> DEFINE got == IF Selected(x.addr) THEN InCartridge(Tick(s.cart), x, arm)
                  ELSE InConsole(Tick(s.cart), s.riot, x)
<1>1. BusCycle(s, x, arm).cart = Quiet(got[1])
  BY DEF BusCycle
<1> QED
  BY <1>1

LEMMA DpcCycle ==
  ASSUME NEW s, NEW x \in BusAccesses, NEW arm, s.cart \in DpcMoving
  PROVE  BusCycle(s, x, arm).cart \in DpcMoving
<1> DEFINE b == s.cart
           c == BusCycle(s, x, arm).cart
<1>1. b.kind = "DPC" /\ ~ IsCdf(b)
  BY KindsDiffer DEF DpcMoving
<1>2. Tick(b) = b
  BY <1>1, Zenon DEF Tick
<1>3. x.addr \in BusAddrs /\ x.v \in BusBytes
  BY DEF BusAccesses
<1>4. ASSUME NEW d \in DpcMoving PROVE Quiet(d) = d
  BY <1>4, KindsDiffer DEF Quiet, DpcMoving
<1>5. CASE Selected(x.addr)
  <2>1. c = Quiet(InCartridge(b, x, arm)[1])
    BY <1>2, <1>5, BusCycleIs
  <2>2. InCartridge(b, x, arm)[1] = IF x.op = "read" THEN DpcRead(b, x.addr) ELSE DpcWrite(b, x.addr, x.v)
    BY <1>1 DEF InCartridge
  <2>3. InCartridge(b, x, arm)[1] \in DpcMoving
    BY <1>3, <2>2, DpcReadMoves, DpcWriteMoves
  <2> QED
    BY <1>4, <2>1, <2>3
<1>6. CASE ~ Selected(x.addr)
  <2>1. c = Quiet(InConsole(b, s.riot, x)[1])
    BY <1>2, <1>6, BusCycleIs
  <2>2. InConsole(b, s.riot, x)[1] = b
    BY <1>1 DEF InConsole
  <2> QED
    BY <1>4, <2>1, <2>2
<1> QED
  BY <1>5, <1>6

\* The register of a DPC+ board that a read of the bus reads.
Register(x) == IF Selected(x.addr) THEN x.addr - \h1000 ELSE -1

LEMMA DpcPlusCycle ==
  ASSUME NEW s, NEW x \in BusAccesses, NEW arm, IsDpcPlus(s.cart), arm["DPC+"].stores \in Seq(DpcPlusStores)
  PROVE  LET b == s.cart
             c == BusCycle(s, x, arm).cart
         IN /\ IsDpcPlus(c) /\ c.beats = (b.beats + 1) % 59
            /\ x.op = "read" => /\ MusicMoves(b, c, 32) /\ c.fast = b.fast
                                /\ ~ b.fast => Stepped(b, c, Register(x))
<1> DEFINE b == s.cart
           t == MusicTick(b)
           c == BusCycle(s, x, arm).cart
<1>1. b.kind = "DPC+" /\ ~ IsCdf(b)
  BY KindsDiffer
<1>2. Tick(b) = t
  BY <1>1, Zenon DEF Tick
<1>3. x.addr \in BusAddrs /\ x.v \in BusBytes
  BY DEF BusAccesses
<1>4. ASSUME NEW d, IsDpcPlus(d) PROVE Quiet(d) = d
  BY <1>4, KindsDiffer DEF Quiet
<1>5. IsDpcPlus(t) /\ MusicMoves(b, t, 32) /\ t.frac = b.frac /\ t.fast = b.fast
  BY MusicTickFacts
<1>6. t.kind = "DPC+" /\ ~ IsCdf(t)
  BY <1>5, KindsDiffer
<1> HIDE DEF t
<1>7. ASSUME NEW d, PlaysOn(t, d)
      PROVE  MusicMoves(b, d, 32) /\ d.fast = b.fast /\ d.beats = (b.beats + 1) % 59
  <2>1. d.music = t.music /\ d.beats = t.beats /\ d.fast = t.fast
    BY <1>7, Zenon DEF PlaysOn
  <2> QED
    BY <1>5, <2>1 DEF MusicMoves
<1>8. CASE Selected(x.addr) /\ x.op = "read"
  <2> DEFINE code == CodeAt(x.addr)
             r == DpcPlusRead(t, x.addr, code)
  <2>1. c = Quiet(InCartridge(t, x, arm)[1])
    BY <1>2, <1>8, BusCycleIs
  <2>2. InCartridge(t, x, arm)[1] = r[1]
    BY <1>6, <1>8 DEF InCartridge
  <2> HIDE DEF code
  <2>3. PlaysOn(t, r[1]) /\ (~ t.fast => Stepped(t, r[1], x.addr - \h1000))
    BY <1>3, <1>5, <1>8, DpcPlusReadFacts
  <2> HIDE DEF r, c
  <2>4. c = r[1]
    BY <1>4, <2>1, <2>2, <2>3 DEF PlaysOn
  <2>5. Register(x) = x.addr - \h1000
    BY <1>8 DEF Register
  <2>6. ~ b.fast => Stepped(b, c, Register(x))
    <3>1. ~ b.fast => Stepped(t, c, Register(x))
      BY <1>5, <2>3, <2>4, <2>5
    <3> QED
      BY <1>5, <3>1, Zenon DEF Stepped
  <2> QED
    BY <1>7, <2>3, <2>4, <2>6 DEF c, PlaysOn
<1>9. CASE Selected(x.addr) /\ x.op # "read"
  <2>1. c = Quiet(InCartridge(t, x, arm)[1])
    BY <1>2, <1>9, BusCycleIs
  <2>2. InCartridge(t, x, arm)[1] = DpcPlusWrite(t, x.addr, x.v, arm["DPC+"].stores)
    BY <1>6, <1>9 DEF InCartridge
  <2>3. Kept(t, DpcPlusWrite(t, x.addr, x.v, arm["DPC+"].stores))
    BY <1>3, <1>5, DpcPlusWriteKeeps
  <2>4. c = DpcPlusWrite(t, x.addr, x.v, arm["DPC+"].stores)
    BY <1>4, <2>1, <2>2, <2>3 DEF Kept
  <2>5. t.beats = (b.beats + 1) % 59
    BY <1>5 DEF MusicMoves
  <2> QED
    BY <1>9, <2>3, <2>4, <2>5 DEF Kept
<1>10. CASE ~ Selected(x.addr)
  <2>1. c = Quiet(InConsole(t, s.riot, x)[1])
    BY <1>2, <1>10, BusCycleIs
  <2>2. InConsole(t, s.riot, x)[1] = t
    BY <1>6 DEF InConsole
  <2>3. c = t
    BY <1>4, <1>5, <2>1, <2>2
  <2>4. Register(x) = -1
    BY <1>10 DEF Register
  <2>5. Stepped(b, t, Register(x))
    BY <1>5, <2>4 DEF Stepped
  <2>6. PlaysOn(t, t)
    BY <1>5 DEF PlaysOn
  <2> QED
    BY <1>5, <1>7, <2>3, <2>5, <2>6
<1> QED
  BY <1>8, <1>9, <1>10

CdfPrograms(arm) == \A kind \in CdfKinds : arm[kind].stores \in Stores(Nat) /\ arm[kind].v \in Nat

LEMMA CdfCycle ==
  ASSUME NEW s, NEW x \in BusAccesses, NEW arm, IsCdfBoard(s.cart),
         CdfPrograms(arm)
  PROVE  LET b == s.cart
             c == BusCycle(s, x, arm).cart
         IN /\ IsCdfBoard(c) /\ c.kind = b.kind /\ c.beats = (b.beats + 1) % 59
            /\ x.op = "read" => MusicMoves(b, c, LongTurn)
<1> DEFINE b == s.cart
           t == CdfTick(b)
           c == BusCycle(s, x, arm).cart
<1>1. IsCdf(b) /\ b.kind # "DPC" /\ b.kind # "DPC+" /\ b.kind # "AR"
  BY KindsDiffer
<1>2. Tick(b) = t
  BY <1>1, Zenon DEF Tick
<1>3. ASSUME NEW d, IsCdfBoard(d) PROVE Quiet(d) = d
  BY <1>3, KindsDiffer DEF Quiet
<1>4. IsCdfBoard(t) /\ t.kind = b.kind /\ MusicMoves(b, t, LongTurn)
  BY CdfTickFacts DEF LongTurn
<1>5. IsCdf(t) /\ t.kind # "DPC" /\ t.kind # "DPC+" /\ t.kind # "AR"
  BY <1>4, KindsDiffer
<1> HIDE DEF t
<1>6. t.beats = (b.beats + 1) % 59
  BY <1>4 DEF MusicMoves
<1>7. CASE Selected(x.addr) /\ x.op = "read"
  <2>1. c = Quiet(InCartridge(t, x, arm)[1])
    BY <1>2, <1>7, BusCycleIs
  <2>2. InCartridge(t, x, arm)[1] = CdfRead(t, x.addr)[1]
    BY <1>5, <1>7 DEF InCartridge
  <2>3. CdfPlaysOn(t, CdfRead(t, x.addr)[1])
    BY <1>4, CdfReadPlaysOn
  <2>4. c = CdfRead(t, x.addr)[1]
    BY <1>3, <2>1, <2>2, <2>3 DEF CdfPlaysOn, CdfKept
  <2> HIDE DEF c
  <2>5. CdfPlaysOn(t, c)
    BY <2>3, <2>4
  <2>6. MusicMoves(b, c, LongTurn)
    BY <1>4, <2>5 DEF MusicMoves, CdfPlaysOn, CdfKept
  <2> QED
    BY <1>4, <1>6, <2>5, <2>6 DEF CdfPlaysOn, CdfKept, c
<1>8. CASE Selected(x.addr) /\ x.op # "read"
  <2>1. c = Quiet(InCartridge(t, x, arm)[1])
    BY <1>2, <1>8, BusCycleIs
  <2> DEFINE run == arm[t.kind]
  <2>2. InCartridge(t, x, arm)[1] = CdfWrite(t, x.addr, x.v, run)
    BY <1>5, <1>8 DEF InCartridge
  <2>3. run.stores \in Stores(Nat) /\ run.v \in Nat
    BY <1>5 DEF IsCdf, CdfPrograms
  <2> HIDE DEF run
  <2>4. CdfKept(t, CdfWrite(t, x.addr, x.v, run))
    BY <1>4, <2>3, CdfWriteKeeps
  <2>5. c = CdfWrite(t, x.addr, x.v, run)
    BY <1>3, <2>1, <2>2, <2>4 DEF CdfKept
  <2> QED
    BY <1>4, <1>6, <1>8, <2>4, <2>5 DEF CdfKept
<1>9. CASE ~ Selected(x.addr)
  <2>1. c = Quiet(InConsole(t, s.riot, x)[1])
    BY <1>2, <1>9, BusCycleIs
  <2>2. InConsole(t, s.riot, x)[1] = t
    BY <1>5 DEF InConsole
  <2>3. c = t
    BY <1>3, <1>4, <2>1, <2>2
  <2> QED
    BY <1>4, <1>6, <2>3
<1> QED
  BY <1>7, <1>8, <1>9

\* What an access does to a tape's machine: the byte held, and the RAM.
Holds(b, c, addr) ==
  /\ c.accesses = b.accesses + 1
  /\ c.pending =>
       \/ Selected(addr) /\ (addr \div 256) % 16 = 0 /\ c.hold = Lo(addr) /\ c.at_hold = c.accesses
       \/ b.pending /\ c.hold = b.hold /\ c.at_hold = b.at_hold /\ c.accesses <= c.at_hold + 5
StoresHeld(b, c, addr) ==
  \/ c.ram = b.ram
  \/ b.pending /\ b.accesses + 1 = b.at_hold + 5 /\ Touched(b.ram, c.ram, addr, b.hold)

LEMMA ArHotspotFacts ==
  ASSUME NEW b, IsAr(b), NEW n, IsAr(n), SameHold(NoteAccess(b), n), n.pending = NoteAccess(b).pending,
         NEW addr \in BusAddrs, Selected(addr)
  PROVE  LET c == HandleHotspot(n, addr)
         IN IsAr(c) /\ Holds(b, c, addr) /\ (n.ram = b.ram => StoresHeld(b, c, addr))
<1> DEFINE c == HandleHotspot(n, addr)
<1>1. /\ n.hold = b.hold /\ n.at_hold = b.at_hold /\ n.accesses = b.accesses + 1
      /\ n.pending = (b.pending /\ b.accesses + 1 <= b.at_hold + 5)
  BY NoteAccessFacts DEF SameHold
<1>2. IsAr(c) /\ c.accesses = n.accesses /\ Hotspot(n, c, addr)
  BY HandleHotspotFacts
<1> HIDE DEF c
<1>3. Holds(b, c, addr)
  BY <1>1, <1>2 DEF Hotspot, Holds
<1>4. n.ram = b.ram => StoresHeld(b, c, addr)
  BY <1>1, <1>2 DEF Hotspot, StoresHeld
<1> QED
  BY <1>2, <1>3, <1>4 DEF c

LEMMA QuietFacts ==
  ASSUME NEW b, IsAr(b)
  PROVE  LET c == Quiet(b) IN IsAr(c) /\ SameHold(b, c) /\ c.pending = b.pending /\ c.ram = b.ram
<1>1. Quiet(b) = [b EXCEPT !.pokes = NoPokes]
  BY KindsDiffer DEF Quiet
<1> DEFINE none == NoPokes
           c == [b EXCEPT !.pokes = none]
<1> HIDE DEF none
<1>2. IsAr(c) /\ SameHold(b, c) /\ c.pending = b.pending /\ c.ram = b.ram
  BY DEF IsAr, SameHold
<1> QED
  BY <1>1, <1>2 DEF none

LEMMA ArCycle ==
  ASSUME NEW s, NEW x \in BusAccesses, NEW arm, IsAr(s.cart)
  PROVE  LET b == s.cart
             c == BusCycle(s, x, arm).cart
         IN IsAr(c) /\ Holds(b, c, x.addr) /\ (x.addr # FastLoad => StoresHeld(b, c, x.addr))
<1> DEFINE b == s.cart
           addr == x.addr
           noted == NoteAccess(b)
           c == BusCycle(s, x, arm).cart
<1>1. b.kind = "AR" /\ ~ IsCdf(b)
  BY KindsDiffer
<1>2. Tick(b) = b
  BY <1>1, Zenon DEF Tick
<1>3. addr \in BusAddrs
  BY DEF BusAccesses
<1>4. /\ IsAr(noted) /\ noted.ram = b.ram /\ noted.hold = b.hold /\ noted.at_hold = b.at_hold
      /\ noted.accesses = b.accesses + 1
      /\ noted.pending = (b.pending /\ b.accesses + 1 <= b.at_hold + 5)
  BY NoteAccessFacts
<1>5. ASSUME NEW d, IsAr(d), Holds(b, d, addr)
      PROVE  /\ IsAr(Quiet(d)) /\ Holds(b, Quiet(d), addr)
             /\ StoresHeld(b, d, addr) => StoresHeld(b, Quiet(d), addr)
  <2>1. IsAr(Quiet(d)) /\ SameHold(d, Quiet(d)) /\ Quiet(d).pending = d.pending /\ Quiet(d).ram = d.ram
    BY <1>5, QuietFacts
  <2> DEFINE q == Quiet(d)
  <2> HIDE DEF q
  <2>2. Holds(b, q, addr)
    BY <1>5, <2>1 DEF Holds, SameHold, q
  <2> QED
    BY <2>1, <2>2 DEF StoresHeld, q
<1>6. CASE Selected(addr)
  <2>1. c = Quiet(InCartridge(b, x, arm)[1])
    BY <1>2, <1>6, BusCycleIs
  <2> DEFINE n == IF x.op = "read" /\ addr = FastLoad /\ noted.high = Bios THEN LoadIntoRam(noted) ELSE noted
             d == HandleHotspot(n, addr)
  <2>2. InCartridge(b, x, arm)[1] = d
    BY <1>1 DEF InCartridge, ArRead, ArWrite
  <2>3. IsAr(n) /\ SameHold(noted, n) /\ n.pending = noted.pending /\ (addr # FastLoad => n.ram = b.ram)
    <3>1. SameHold(noted, noted)
      BY DEF SameHold
    <3>2. IsAr(LoadIntoRam(noted)) /\ SameHold(noted, LoadIntoRam(noted))
          /\ LoadIntoRam(noted).pending = noted.pending
      BY <1>4, LoadIntoRamFacts
    <3> HIDE DEF noted
    <3> QED
      BY <1>4, <3>1, <3>2
  <2> HIDE DEF n
  <2>4. IsAr(d) /\ Holds(b, d, addr) /\ (n.ram = b.ram => StoresHeld(b, d, addr))
    BY <1>3, <1>6, <2>3, ArHotspotFacts
  <2> HIDE DEF d
  <2> QED
    BY <1>5, <2>1, <2>2, <2>3, <2>4
<1>7. CASE ~ Selected(addr)
  <2>1. c = Quiet(InConsole(b, s.riot, x)[1])
    BY <1>2, <1>7, BusCycleIs
  <2> DEFINE v == IF x.op = "write" \/ x.addr \notin DOMAIN s.riot THEN x.v ELSE s.riot[x.addr]
             z == IF addr = 128 THEN v ELSE noted.zp80
             d == [noted EXCEPT !.zp80 = z]
  <2>2. InConsole(b, s.riot, x)[1] = d
    BY <1>1 DEF InConsole, ArSnoop
  <2> HIDE DEF z, noted
  <2>3. IsAr(d) /\ SameHold(noted, d) /\ d.pending = noted.pending /\ d.ram = noted.ram
    BY <1>4 DEF IsAr, SameHold
  <2> HIDE DEF d
  <2>4. Holds(b, d, addr) /\ StoresHeld(b, d, addr)
    BY <1>4, <2>3 DEF Holds, StoresHeld, SameHold
  <2> QED
    BY <1>5, <2>1, <2>2, <2>3, <2>4
<1> QED
  BY <1>6, <1>7

------------------------------------------------------------------------------
(* An instruction, and a stall.                                            *)

\* The machine's states along an instruction.
Runs(f, code, arm) ==
  f[0].cart = cart /\ \A i \in 1 .. Len(code) : f[i] = BusCycle(f[i - 1], code[i], arm)

LEMMA DpcRuns ==
  ASSUME NEW f, NEW code \in Seq(BusAccesses), NEW arm, Runs(f, code, arm), cart \in DpcMoving
  PROVE  f[Len(code)].cart \in DpcMoving
<1> DEFINE n == Len(code)
           Good == {k \in 0 .. n : f[k].cart \in DpcMoving}
<1>1. n \in Nat /\ \A i \in 1 .. n : code[i] \in BusAccesses
  OBVIOUS
<1>2. 0 \in Good
  BY <1>1 DEF Runs
<1>3. ASSUME NEW k \in 1 .. n, k - 1 \in Good PROVE k \in Good
  <2>1. f[k].cart = BusCycle(f[k - 1], code[k], arm).cart
    BY DEF Runs
  <2>2. f[k - 1].cart \in DpcMoving
    BY <1>3
  <2> QED
    BY <1>1, <2>1, <2>2, DpcCycle
<1>4. Good \in SUBSET (0 .. n)
  OBVIOUS
<1>5. n \in Good
  <2> HIDE DEF Good, n
  <2> QED
    BY <1>1, <1>2, <1>3, <1>4, AllPositions
<1> QED
  BY <1>5

LEMMA NextBeat ==
  ASSUME NEW c \in Nat, NEW k \in Nat, k # 0
  PROVE  (((c + (k - 1)) % 59) + 1) % 59 = (c + k) % 59
OBVIOUS

LEMMA DpcPlusRuns ==
  ASSUME NEW f, NEW code \in Seq(BusAccesses), NEW arm, arm["DPC+"].stores \in Seq(DpcPlusStores),
         Runs(f, code, arm), IsDpcPlus(cart), clock \in Nat, cart.beats = clock % 59,
         NEW k \in 0 .. Len(code)
  PROVE  IsDpcPlus(f[k].cart) /\ f[k].cart.beats = (clock + k) % 59
<1> DEFINE n == Len(code)
           Good == {i \in 0 .. n : IsDpcPlus(f[i].cart) /\ f[i].cart.beats = (clock + i) % 59}
<1>1. n \in Nat /\ \A i \in 1 .. n : code[i] \in BusAccesses
  OBVIOUS
<1>2. 0 \in Good
  BY <1>1 DEF Runs
<1>3. ASSUME NEW i \in 1 .. n, i - 1 \in Good PROVE i \in Good
  <2>1. f[i].cart = BusCycle(f[i - 1], code[i], arm).cart
    BY DEF Runs
  <2>2. IsDpcPlus(f[i - 1].cart) /\ f[i - 1].cart.beats = (clock + (i - 1)) % 59
    BY <1>3
  <2>3. IsDpcPlus(f[i].cart) /\ f[i].cart.beats = (f[i - 1].cart.beats + 1) % 59
    <3> DEFINE s == f[i - 1]
               x == code[i]
    <3>1. x \in BusAccesses /\ IsDpcPlus(s.cart)
      BY <1>1, <2>2
    <3> HIDE DEF s, x
    <3>2. /\ IsDpcPlus(BusCycle(s, x, arm).cart)
          /\ BusCycle(s, x, arm).cart.beats = (s.cart.beats + 1) % 59
      BY <3>1, DpcPlusCycle
    <3> QED
      BY <2>1, <3>2 DEF s, x
  <2>4. f[i].cart.beats = (clock + i) % 59
    BY <2>2, <2>3, NextBeat
  <2> QED
    BY <2>3, <2>4
<1>4. Good \in SUBSET (0 .. n)
  OBVIOUS
<1>5. k \in Good
  <2> HIDE DEF Good
  <2> QED
    BY <1>1, <1>2, <1>3, <1>4, AllPositions
<1> QED
  BY <1>5

LEMMA CdfRuns ==
  ASSUME NEW f, NEW code \in Seq(BusAccesses), NEW arm,
         CdfPrograms(arm),
         Runs(f, code, arm), IsCdfBoard(cart), clock \in Nat, cart.beats = clock % 59,
         NEW k \in 0 .. Len(code)
  PROVE  IsCdfBoard(f[k].cart) /\ f[k].cart.kind = cart.kind /\ f[k].cart.beats = (clock + k) % 59
<1> DEFINE n == Len(code)
           Good == {i \in 0 .. n : /\ IsCdfBoard(f[i].cart) /\ f[i].cart.kind = cart.kind
                                   /\ f[i].cart.beats = (clock + i) % 59}
<1>1. n \in Nat /\ \A i \in 1 .. n : code[i] \in BusAccesses
  OBVIOUS
<1>2. 0 \in Good
  BY <1>1 DEF Runs
<1>3. ASSUME NEW i \in 1 .. n, i - 1 \in Good PROVE i \in Good
  <2>1. f[i].cart = BusCycle(f[i - 1], code[i], arm).cart
    BY DEF Runs
  <2>2. /\ IsCdfBoard(f[i - 1].cart) /\ f[i - 1].cart.kind = cart.kind
        /\ f[i - 1].cart.beats = (clock + (i - 1)) % 59
    BY <1>3
  <2>3. /\ IsCdfBoard(f[i].cart) /\ f[i].cart.kind = f[i - 1].cart.kind
        /\ f[i].cart.beats = (f[i - 1].cart.beats + 1) % 59
    <3> DEFINE s == f[i - 1]
               x == code[i]
    <3>1. x \in BusAccesses /\ IsCdfBoard(s.cart)
      BY <1>1, <2>2
    <3> HIDE DEF s, x
    <3>2. /\ IsCdfBoard(BusCycle(s, x, arm).cart) /\ BusCycle(s, x, arm).cart.kind = s.cart.kind
          /\ BusCycle(s, x, arm).cart.beats = (s.cart.beats + 1) % 59
      BY <3>1, CdfCycle
    <3> QED
      BY <2>1, <3>2 DEF s, x
  <2>4. f[i].cart.beats = (clock + i) % 59
    BY <2>2, <2>3, NextBeat
  <2> QED
    BY <2>2, <2>3, <2>4
<1>4. Good \in SUBSET (0 .. n)
  OBVIOUS
<1>5. k \in Good
  <2> HIDE DEF Good
  <2> QED
    BY <1>1, <1>2, <1>3, <1>4, AllPositions
<1> QED
  BY <1>5

------------------------------------------------------------------------------
(* Music along a run.                                                      *)

LEMMA NextPeriod ==
  ASSUME NEW c \in Nat
  PROVE  /\ Periods(c) \in Nat
         /\ Periods(c + 1) = IF c % 59 = 58 THEN Periods(c) + 1 ELSE Periods(c)
         /\ (c + 1) % 59 = ((c % 59) + 1) % 59
BY DEF Periods, MusicDivide

LEMMA MorePeriods ==
  ASSUME NEW c \in Nat, NEW k \in Nat
  PROVE  Periods(c + k) - Periods(c) \in Nat
BY DEF Periods, MusicDivide

LEMMA TurnTwice ==
  ASSUME NEW s \in Nat, NEW f \in Nat, NEW top \in {32, LongTurn}
  PROVE  ((s % top) + f) % top = (s + f) % top
<1>1. ((s % 32) + f) % 32 = (s + f) % 32
  OBVIOUS
<1>2. ((s % LongTurn) + f) % LongTurn = (s + f) % LongTurn
  BY DEF LongTurn
<1> QED
  BY <1>1, <1>2

\* One more turn of something that moves by q at each.
LEMMA OneMore ==
  ASSUME NEW x \in Nat, NEW t \in Nat, NEW q \in Nat
  PROVE  x + t * q \in Nat /\ x + (t + 1) * q = (x + t * q) + q
<1>1. t * q \in Nat /\ (t + 1) * q = t * q + q
  OBVIOUS
<1> DEFINE p == t * q
<1>2. p \in Nat /\ (t + 1) * q = p + q
  BY <1>1
<1> HIDE DEF p
<1>3. x + p \in Nat /\ x + (p + q) = (x + p) + q
  BY <1>2
<1> QED
  BY <1>2, <1>3, Zenon DEF p

LEMMA MusicAlong ==
  ASSUME NEW g, NEW n \in Nat, NEW top \in {32, LongTurn}, NEW m \in 0 .. 2,
         clock \in Nat, g[0].beats = clock % 59,
         g[0].music[m].freq \in Nat, g[0].music[m].count \in Nat,
         g[0].music[m].count % top = g[0].music[m].count,
         \A i \in 1 .. n : MusicMoves(g[i - 1], g[i], top)
  PROVE  /\ g[n].beats = (clock + n) % 59
         /\ g[n].music[m].count =
              (g[0].music[m].count + (Periods(clock + n) - Periods(clock)) * g[0].music[m].freq) % top
<1> DEFINE x == g[0].music[m].count
           q == g[0].music[m].freq
           Turns(k) == Periods(clock + k) - Periods(clock)
           Good == {k \in 0 .. n : /\ g[k].beats = (clock + k) % 59 /\ g[k].music[m].freq = q
                                   /\ g[k].music[m].count = (x + Turns(k) * q) % top}
<1>1. 0 \in Good
  <2>1. Turns(0) = 0 /\ clock + 0 = clock
    BY NextPeriod
  <2>2. x + Turns(0) * q = x
    BY <2>1
  <2> QED
    BY <2>1, <2>2
<1>2. ASSUME NEW k \in 1 .. n, k - 1 \in Good PROVE k \in Good
  <2> DEFINE b == g[k - 1]
             c == g[k]
             t == Turns(k - 1)
             u == Turns(k)
             now == clock + (k - 1)
  <2> DEFINE j == k - 1
  <2>0. j \in Nat /\ now \in Nat /\ now + 1 = clock + k
    OBVIOUS
  <2>1. now \in Nat /\ now + 1 = clock + k /\ t \in Nat
    <3> HIDE DEF j
    <3>1. Periods(clock + j) - Periods(clock) \in Nat
      BY <2>0, MorePeriods
    <3> QED
      BY <2>0, <3>1 DEF j
  <2>2. /\ u = IF now % 59 = 58 THEN t + 1 ELSE t
        /\ (clock + k) % 59 = ((now % 59) + 1) % 59
    <3> DEFINE old == Periods(clock)
               was == Periods(now)
               is == Periods(clock + k)
    <3>1. t = was - old /\ u = is - old
      OBVIOUS
    <3>2. was \in Nat /\ old \in Nat
      BY <2>0, NextPeriod
    <3>3. is = (IF now % 59 = 58 THEN was + 1 ELSE was) /\ (clock + k) % 59 = ((now % 59) + 1) % 59
      <4> HIDE DEF now
      <4> QED
        BY <2>0, NextPeriod
    <3> HIDE DEF t, u, old, was, is, now
    <3> QED
      BY <3>1, <3>2, <3>3
  <2>3. b.beats = now % 59 /\ b.music[m].freq = q /\ b.music[m].count = (x + t * q) % top
    BY <1>2
  <2>4. MusicMoves(b, c, top)
    OBVIOUS
  <2>5. x \in Nat /\ q \in Nat
    OBVIOUS
  <2> HIDE DEF x, q, t, u, b, c, now, Turns
  <2>6. /\ c.beats = (clock + k) % 59 /\ c.music[m].freq = q
        /\ c.music[m].count = IF now % 59 = 58 THEN (((x + t * q) % top) + q) % top ELSE (x + t * q) % top
    <3>1. /\ c.beats = (b.beats + 1) % 59 /\ c.music[m].freq = b.music[m].freq
          /\ c.music[m].count = IF b.beats = 58 THEN (b.music[m].count + b.music[m].freq) % top
                                ELSE b.music[m].count
      BY <2>4, Zenon DEF MusicMoves
    <3> QED
      BY <2>2, <2>3, <3>1, Zenon
  <2>7. (((x + t * q) % top) + q) % top = (x + (t + 1) * q) % top
    <3> DEFINE s == x + t * q
    <3>0. t \in Nat
      BY <2>1
    <3>1. s \in Nat /\ x + (t + 1) * q = s + q
      BY <3>0, <2>5, OneMore
    <3> HIDE DEF s
    <3>2. ((s % top) + q) % top = (s + q) % top
      BY <2>5, <3>1, TurnTwice
    <3> QED
      BY <3>1, <3>2 DEF s
  <2>8. c.music[m].count = (x + u * q) % top
    <3>1. CASE now % 59 = 58
      BY <2>2, <2>6, <2>7, <3>1, Zenon
    <3>2. CASE now % 59 # 58
      BY <2>2, <2>6, <3>2, Zenon
    <3> QED
      BY <3>1, <3>2
  <2> QED
    BY <2>6, <2>8 DEF c, u
<1>3. Good \in SUBSET (0 .. n)
  OBVIOUS
<1>4. n \in Good
  <2>1. Good = 0 .. n
    <3> HIDE DEF Good
    <3> QED
      BY <1>1, <1>2, <1>3, AllPositions
  <2>2. n \in 0 .. n
    OBVIOUS
  <2> HIDE DEF Good
  <2> QED
    BY <2>1, <2>2
<1> QED
  BY <1>4

------------------------------------------------------------------------------
(* Fetchers with a fraction along a run.                                   *)

\* A read of the fetcher with fraction m, and the positions of those so far.
ReadsFrac(x, m) == x.op = "read" /\ x.addr = \h1018 + m
ReadsSoFar(code, m, k) == {j \in 1 .. k : ReadsFrac(code[j], m)}

LEMMA ReadsOfAll ==
  ASSUME NEW code \in Seq(BusAccesses), NEW m
  PROVE  ReadsOf(code, m) = Cardinality(ReadsSoFar(code, m, Len(code)))
<1>1. DOMAIN code = 1 .. Len(code)
  OBVIOUS
<1>2. {j \in DOMAIN code : code[j].op = "read" /\ code[j].addr = \h1018 + m} = ReadsSoFar(code, m, Len(code))
  BY <1>1 DEF ReadsSoFar, ReadsFrac
<1> DEFINE R == {j \in DOMAIN code : code[j].op = "read" /\ code[j].addr = \h1018 + m}
<1>3. ReadsOf(code, m) = Cardinality(R)
  BY DEF ReadsOf
<1>4. R = ReadsSoFar(code, m, Len(code))
  BY <1>2
<1> HIDE DEF R
<1> QED
  BY <1>3, <1>4

LEMMA AddrIsInt ==
  ASSUME NEW addr \in BusAddrs
  PROVE  addr \in Int /\ 0 <= addr
BY DEF BusAddrs

LEMMA IncrementIsNat ==
  ASSUME NEW f \in Fracs
  PROVE  f.increment \in Nat
BY DEF Fracs

LEMMA ReadsFracIs ==
  ASSUME NEW x \in BusAccesses, x.op = "read", NEW m \in 0 .. 7
  PROVE  ReadsFrac(x, m) <=> Register(x) = 24 + m
<1>1. x.addr \in BusAddrs
  BY DEF BusAccesses
<1>2. x.addr \in Int
  BY <1>1, AddrIsInt, Zenon
<1> QED
  BY <1>2 DEF ReadsFrac, Register, Selected

LEMMA NextRead ==
  ASSUME NEW code, NEW m, NEW k \in Nat, k # 0, IsFiniteSet(ReadsSoFar(code, m, k - 1))
  PROVE  LET before == ReadsSoFar(code, m, k - 1)
             after == ReadsSoFar(code, m, k)
         IN /\ IsFiniteSet(after) /\ Cardinality(before) \in Nat
            /\ Cardinality(after) = IF ReadsFrac(code[k], m) THEN Cardinality(before) + 1 ELSE Cardinality(before)
<1> DEFINE before == ReadsSoFar(code, m, k - 1)
           after == ReadsSoFar(code, m, k)
<1>1. after = IF ReadsFrac(code[k], m) THEN before \cup {k} ELSE before
  BY DEF ReadsSoFar
<1>2. k \notin before
  BY DEF ReadsSoFar
<1>3. IsFiniteSet(before)
  OBVIOUS
<1> HIDE DEF before, after
<1>4. IsFiniteSet(before \cup {k}) /\ Cardinality(before \cup {k}) = Cardinality(before) + 1
  BY <1>2, <1>3, FS_AddElement
<1>5. Cardinality(before) \in Nat
  BY <1>3, FS_CardinalityType
<1>6. /\ IsFiniteSet(after)
      /\ Cardinality(after) = IF ReadsFrac(code[k], m) THEN Cardinality(before) + 1 ELSE Cardinality(before)
  BY <1>1, <1>3, <1>4, Zenon
<1> QED
  BY <1>5, <1>6 DEF before, after

LEMMA FracTurnTwice ==
  ASSUME NEW s \in Nat, NEW f \in Nat
  PROVE  ((s % FracTurn) + f) % FracTurn = (s + f) % FracTurn
BY SMT DEF FracTurn

LEMMA FracAlong ==
  ASSUME NEW g, NEW code \in Seq(BusAccesses), NEW n \in Nat, n = Len(code), NEW m \in 0 .. 7,
         \A i \in 1 .. n : code[i].op = "read",
         \A i \in 0 .. n : IsDpcPlus(g[i]),
         ~ g[0].fast,
         \A i \in 1 .. n : /\ g[i].fast = g[i - 1].fast
                           /\ ~ g[i - 1].fast => Stepped(g[i - 1], g[i], Register(code[i]))
  PROVE  FracAt(g[n].frac[m]) =
           (FracAt(g[0].frac[m]) + ReadsOf(code, m) * g[0].frac[m].increment) % FracTurn
<1> DEFINE x == FracAt(g[0].frac[m])
           q == g[0].frac[m].increment
           R(k) == ReadsSoFar(code, m, k)
           Good == {k \in 0 .. n : /\ ~ g[k].fast /\ IsFiniteSet(R(k))
                                   /\ g[k].frac[m].increment = q
                                   /\ FracAt(g[k].frac[m]) = (x + Cardinality(R(k)) * q) % FracTurn}
<1>1. ASSUME NEW k \in 0 .. n
      PROVE  /\ g[k].frac[m] \in Fracs /\ g[k].frac[m].increment \in Nat
             /\ FracAt(g[k].frac[m]) \in Nat /\ FracAt(g[k].frac[m]) < FracTurn
  <2>1. g[k].frac[m] \in Fracs
    BY DEF IsDpcPlus
  <2> DEFINE f == g[k].frac[m]
  <2> HIDE DEF f
  <2>2. f.increment \in Nat /\ FracAt(f) \in Nat /\ FracAt(f) < FracTurn
    <3>1. f.increment \in Nat
      <4>1. f \in Fracs
        BY <2>1 DEF f
      <4> QED
        BY <4>1, IncrementIsNat
    <3>2. FracAt(f) \in Int /\ 0 <= FracAt(f) /\ FracAt(f) < FracTurn
      BY <2>1, FracIncMoves DEF f
    <3> QED
      BY <3>1, <3>2
  <2> QED
    BY <2>1, <2>2 DEF f
<1>2. 0 \in Good
  <2>1. R(0) = {}
    BY DEF ReadsSoFar
  <2>2. IsFiniteSet({}) /\ Cardinality({}) = 0
    BY FS_EmptySet
  <2>3. x \in Nat /\ x < FracTurn /\ q \in Nat
    BY <1>1
  <2> HIDE DEF x, q, R
  <2>4. x = (x + Cardinality(R(0)) * q) % FracTurn
    <3>1. x + 0 * q = x
      BY <2>3
    <3>2. x % FracTurn = x
      BY <2>3 DEF FracTurn
    <3> QED
      BY <2>1, <2>2, <3>1, <3>2
  <2>5. IsFiniteSet(R(0))
    BY <2>1, <2>2, Zenon
  <2>6. 0 \in 0 .. n
    OBVIOUS
  <2> QED
    BY <2>4, <2>5, <2>6 DEF x, q
<1>3. ASSUME NEW k \in 1 .. n, k - 1 \in Good PROVE k \in Good
  <2> DEFINE j == k - 1
             b == g[j]
             c == g[k]
             t == Cardinality(R(j))
             u == Cardinality(R(k))
             y == code[k]
  <2>1. j \in 0 .. n /\ k \in 0 .. n /\ k \in Nat /\ k # 0
    OBVIOUS
  <2>2. ~ b.fast /\ IsFiniteSet(R(j)) /\ b.frac[m].increment = q
        /\ FracAt(b.frac[m]) = (x + t * q) % FracTurn
    BY <1>3
  <2>3. IsFiniteSet(R(k)) /\ t \in Nat /\ u = IF ReadsFrac(y, m) THEN t + 1 ELSE t
    BY <2>1, <2>2, NextRead
  <2>4. y \in BusAccesses /\ y.op = "read"
    OBVIOUS
  <2>5. x \in Nat /\ q \in Nat
    BY <1>1, <2>1
  <2>6. b.frac[m] \in Fracs /\ c.fast = b.fast /\ Stepped(b, c, Register(y))
    BY <1>1, <2>1, <2>2
  <2> HIDE DEF x, q, t, u, b, c, y, R
  <2>7. c.frac[m] = IF ReadsFrac(y, m) THEN FracInc(b.frac[m]) ELSE b.frac[m]
    BY <2>4, <2>6, ReadsFracIs DEF Stepped
  <2> DEFINE s == x + t * q
  <2>8. s \in Nat /\ x + (t + 1) * q = s + q
    BY <2>3, <2>5, OneMore, ZenonT(60)
  <2> HIDE DEF s
  <2>9. FracAt(b.frac[m]) = s % FracTurn
    BY <2>2 DEF s
  <2>10. c.frac[m].increment = q /\ FracAt(c.frac[m]) = (x + u * q) % FracTurn
    <3>1. CASE ReadsFrac(y, m)
      <4>1. FracInc(b.frac[m]).increment = q
        BY <2>2, <2>6, FracFacts
      <4>2. FracAt(FracInc(b.frac[m])) = ((s % FracTurn) + q) % FracTurn
        BY <2>2, <2>6, <2>9, FracIncMoves
      <4>3. ((s % FracTurn) + q) % FracTurn = (s + q) % FracTurn
        BY <2>5, <2>8, FracTurnTwice
      <4>4. u = t + 1
        BY <2>3, <3>1
      <4> QED
        BY <2>7, <2>8, <3>1, <4>1, <4>2, <4>3, <4>4
    <3>2. CASE ~ ReadsFrac(y, m)
      BY <2>2, <2>3, <2>7, <3>2
    <3> QED
      BY <3>1, <3>2
  <2> QED
    BY <2>2, <2>3, <2>6, <2>10 DEF c, u
<1>4. Good \in SUBSET (0 .. n)
  OBVIOUS
<1>5. n \in Good
  <2>1. Good = 0 .. n
    <3> HIDE DEF Good
    <3> QED
      BY <1>2, <1>3, <1>4, AllPositions
  <2>2. n \in 0 .. n
    OBVIOUS
  <2> HIDE DEF Good
  <2> QED
    BY <2>1, <2>2
<1>6. ReadsOf(code, m) = Cardinality(R(n))
  BY ReadsOfAll
<1> QED
  BY <1>5, <1>6

------------------------------------------------------------------------------
(* A tape's machine along a run.                                           *)

\* The byte held is the one of an access at most five accesses ago.
Holding(addr, v) == Selected(addr) /\ (addr \div 256) % 16 = 0 /\ Lo(addr) = v
Remembers(b, addrs, p) ==
  b.pending => LET d == b.accesses - b.at_hold
               IN d \in 0 .. 5 /\ d < p /\ Holding(addrs[p - d], b.hold)

\* A cell that is not as it was has the byte held five accesses before one of it.
StoredAt(addrs, j, i, v) == addrs[j] % BankSize = i % BankSize /\ Holding(addrs[j - 5], v)
Accounted(old, ram, addrs, p) ==
  \A i \in DOMAIN ram : ArCell(old, i) # ram[i] => \E j \in 6 .. p : StoredAt(addrs, j, i, ram[i])

LEMMA RemembersOn ==
  ASSUME NEW b, IsAr(b), NEW c, IsAr(c), NEW addrs, NEW p \in Nat,
         Remembers(b, addrs, p), Holds(b, c, addrs[p + 1])
  PROVE  Remembers(c, addrs, p + 1)
<1> SUFFICES ASSUME c.pending
             PROVE  LET d == c.accesses - c.at_hold
                    IN d \in 0 .. 5 /\ d < p + 1 /\ Holding(addrs[p + 1 - d], c.hold)
  BY DEF Remembers
<1> DEFINE d == b.accesses - b.at_hold
           e == c.accesses - c.at_hold
<1>1. b.accesses \in Int /\ b.at_hold \in Int /\ c.accesses \in Int /\ c.at_hold \in Int
  BY DEF IsAr
<1>2. c.accesses = b.accesses + 1
  BY DEF Holds
<1>3. CASE /\ Selected(addrs[p + 1]) /\ (addrs[p + 1] \div 256) % 16 = 0
           /\ c.hold = Lo(addrs[p + 1]) /\ c.at_hold = c.accesses
  <2>1. e = 0 /\ e \in 0 .. 5 /\ p + 1 - e = p + 1 /\ e < p + 1
    BY <1>1, <1>3
  <2>2. Holding(addrs[p + 1], c.hold)
    BY <1>3 DEF Holding
  <2> HIDE DEF e
  <2>3. Holding(addrs[p + 1 - e], c.hold)
    BY <2>1, <2>2
  <2> QED
    BY <2>1, <2>3 DEF e
<1>4. CASE b.pending /\ c.hold = b.hold /\ c.at_hold = b.at_hold /\ c.accesses <= c.at_hold + 5
  <2>1. d \in 0 .. 5 /\ d < p /\ Holding(addrs[p - d], b.hold)
    BY <1>4 DEF Remembers
  <2>2. e = d + 1 /\ d \in Int /\ e <= 5
    BY <1>1, <1>2, <1>4
  <2> HIDE DEF d, e
  <2>3. e \in 0 .. 5 /\ e < p + 1 /\ p + 1 - e = p - d
    BY <2>1, <2>2
  <2>4. Holding(addrs[p + 1 - e], c.hold)
    BY <1>4, <2>1, <2>3
  <2> QED
    BY <2>3, <2>4 DEF e
<1> QED
  BY <1>3, <1>4 DEF Holds

LEMMA AccountedOn ==
  ASSUME NEW b, IsAr(b), NEW c, NEW addrs, NEW p \in Nat, NEW old,
         Remembers(b, addrs, p), StoresHeld(b, c, addrs[p + 1]), Accounted(old, b.ram, addrs, p)
  PROVE  Accounted(old, c.ram, addrs, p + 1)
<1> SUFFICES ASSUME NEW i \in DOMAIN c.ram, ArCell(old, i) # c.ram[i]
             PROVE  \E j \in 6 .. p + 1 : StoredAt(addrs, j, i, c.ram[i])
  BY DEF Accounted
<1>1. ASSUME i \in DOMAIN b.ram, b.ram[i] = c.ram[i]
      PROVE  \E j \in 6 .. p + 1 : StoredAt(addrs, j, i, c.ram[i])
  <2>1. PICK j \in 6 .. p : StoredAt(addrs, j, i, b.ram[i])
    BY <1>1 DEF Accounted
  <2>2. j \in 6 .. p + 1
    OBVIOUS
  <2> QED
    BY <1>1, <2>1, <2>2
<1>2. CASE c.ram = b.ram
  BY <1>1, <1>2
<1>3. CASE /\ b.pending /\ b.accesses + 1 = b.at_hold + 5
           /\ Touched(b.ram, c.ram, addrs[p + 1], b.hold)
  <2>1. PICK t : t % BankSize = addrs[p + 1] % BankSize /\ c.ram = ArPut(b.ram, t, b.hold)
    BY <1>3 DEF Touched
  <2>2. i \in DOMAIN b.ram \cup {t} /\ c.ram[i] = IF i = t THEN b.hold ELSE b.ram[i]
    BY <2>1 DEF ArPut
  <2>3. CASE i # t
    BY <1>1, <2>2, <2>3
  <2>4. CASE i = t
    <3> DEFINE d == b.accesses - b.at_hold
               j == p + 1
    <3>1. d \in 0 .. 5 /\ d < p /\ Holding(addrs[p - d], b.hold)
      BY <1>3 DEF Remembers
    <3>2. d = 4
      <4>1. b.accesses \in Int /\ b.at_hold \in Int
        BY DEF IsAr
      <4> QED
        BY <1>3, <4>1
    <3>3. j \in 6 .. p + 1 /\ p - 4 = j - 5
      BY <3>1, <3>2
    <3> HIDE DEF d
    <3>4. Holding(addrs[j - 5], c.ram[i]) /\ addrs[j] % BankSize = i % BankSize
      BY <2>1, <2>2, <2>4, <3>1, <3>2, <3>3
    <3> HIDE DEF j
    <3>5. StoredAt(addrs, j, i, c.ram[i])
      BY <3>4 DEF StoredAt
    <3> QED
      BY <3>3, <3>5
  <2> QED
    BY <2>3, <2>4
<1> QED
  BY <1>2, <1>3 DEF StoresHeld

LEMMA ArRuns ==
  ASSUME NEW f, NEW code \in Seq(BusAccesses), NEW arm, Runs(f, code, arm), IsAr(cart),
         NEW addrs, NEW t \in Nat, Remembers(cart, addrs, t),
         \A i \in 1 .. Len(code) : addrs[t + i] = code[i].addr
  PROVE  LET n == Len(code)
         IN /\ IsAr(f[n].cart) /\ Remembers(f[n].cart, addrs, t + n)
            /\ (\A i \in 1 .. n : code[i].addr # FastLoad)
                 => Accounted(cart.ram, f[n].cart.ram, addrs, t + n)
<1> DEFINE n == Len(code)
           Plainly == \A i \in 1 .. n : code[i].addr # FastLoad
           Good == {k \in 0 .. n :
                      /\ IsAr(f[k].cart) /\ Remembers(f[k].cart, addrs, t + k)
                      /\ Plainly => Accounted(cart.ram, f[k].cart.ram, addrs, t + k)}
<1>1. n \in Nat /\ \A i \in 1 .. n : code[i] \in BusAccesses
  OBVIOUS
<1>2. 0 \in Good
  <2>1. f[0].cart = cart /\ t + 0 = t
    BY DEF Runs
  <2>2. Accounted(cart.ram, cart.ram, addrs, t)
    BY DEF Accounted, ArCell
  <2> QED
    BY <1>1, <2>1, <2>2
<1>3. ASSUME NEW k \in 1 .. n, k - 1 \in Good PROVE k \in Good
  <2> DEFINE s == f[k - 1]
             x == code[k]
             c == f[k].cart
             p == t + (k - 1)
  <2>1. c = BusCycle(s, x, arm).cart /\ x \in BusAccesses /\ IsAr(s.cart)
    BY <1>1, <1>3 DEF Runs
  <2>2. p \in Nat /\ p + 1 = t + k /\ addrs[p + 1] = x.addr
    OBVIOUS
  <2>3. Remembers(s.cart, addrs, p) /\ (Plainly => Accounted(cart.ram, s.cart.ram, addrs, p))
    BY <1>3
  <2>4. Plainly => x.addr # FastLoad
    OBVIOUS
  <2> HIDE DEF s, x, c, p, Plainly
  <2>5. IsAr(c) /\ Holds(s.cart, c, x.addr) /\ (x.addr # FastLoad => StoresHeld(s.cart, c, x.addr))
    BY <2>1, ArCycle
  <2>6. Remembers(c, addrs, p + 1)
    BY <2>1, <2>2, <2>3, <2>5, RemembersOn
  <2>7. Plainly => Accounted(cart.ram, c.ram, addrs, p + 1)
    BY <2>1, <2>2, <2>3, <2>4, <2>5, AccountedOn
  <2> QED
    BY <2>2, <2>5, <2>6, <2>7 DEF c
<1>4. Good \in SUBSET (0 .. n)
  OBVIOUS
<1>5. n \in Good
  <2>1. Good = 0 .. n
    <3> HIDE DEF Good
    <3> QED
      BY <1>1, <1>2, <1>3, <1>4, AllPositions
  <2>2. n \in 0 .. n
    BY <1>1
  <2> HIDE DEF Good
  <2> QED
    BY <2>1, <2>2
<1> QED
  BY <1>5

\* The addresses so far and those of an instruction, and the latest of them.
LEMMA HeldIs ==
  ASSUME NEW old \in Seq(BusAddrs), NEW code \in Seq(BusAccesses)
  PROVE  LET held == old \o AddrsOf(code)
         IN /\ held \in Seq(BusAddrs) /\ Len(held) = Len(old) + Len(code)
            /\ \A i \in 1 .. Len(old) : held[i] = old[i]
            /\ \A i \in 1 .. Len(code) : held[Len(old) + i] = code[i].addr
<1> DEFINE addrs == AddrsOf(code)
<1>1. addrs \in Seq(BusAddrs) /\ Len(addrs) = Len(code) /\ \A i \in 1 .. Len(code) : addrs[i] = code[i].addr
  <2>1. DOMAIN code = 1 .. Len(code) /\ Len(code) \in Nat
    OBVIOUS
  <2>2. \A i \in 1 .. Len(code) : code[i].addr \in BusAddrs
    <3>1. \A i \in 1 .. Len(code) : code[i] \in BusAccesses
      OBVIOUS
    <3> QED
      BY <3>1 DEF BusAccesses
  <2>3. addrs = [i \in 1 .. Len(code) |-> code[i].addr]
    BY <2>1 DEF AddrsOf
  <2> QED
    BY <2>1, <2>2, <2>3
<1> HIDE DEF addrs
<1> QED
  BY <1>1 DEF addrs

LEMMA LatestKeeps ==
  ASSUME NEW addrs \in Seq(BusAddrs), NEW b, Remembers(b, addrs, Len(addrs))
  PROVE  Latest(addrs) \in Seq(BusAddrs) /\ Remembers(b, Latest(addrs), Len(Latest(addrs)))
<1> DEFINE N == Len(addrs)
           late == Latest(addrs)
<1>1. N \in Nat
  OBVIOUS
<1>2. CASE N <= 6
  <2>1. late = SubSeq(addrs, 1, N)
    <3>1. ~ (N > 6)
      BY <1>1, <1>2
    <3> QED
      BY <3>1, Zenon DEF Latest, TrailLength
  <2>2. late = addrs
    BY <2>1
  <2> QED
    BY <2>2
<1>3. CASE N > 6
  <2>1. late = SubSeq(addrs, N - 5, N)
    BY <1>1, <1>3 DEF Latest, TrailLength
  <2> HIDE DEF late
  <2>2. late \in Seq(BusAddrs) /\ Len(late) = 6 /\ \A i \in 1 .. 6 : late[i] = addrs[N - 6 + i]
    BY <1>1, <1>3, <2>1
  <2>3. ASSUME b.pending
        PROVE  LET d == b.accesses - b.at_hold IN d \in 0 .. 5 /\ d < 6 /\ Holding(late[6 - d], b.hold)
    <3> DEFINE d == b.accesses - b.at_hold
    <3>1. d \in 0 .. 5 /\ Holding(addrs[N - d], b.hold)
      BY <2>3 DEF Remembers
    <3> HIDE DEF d
    <3>2. 6 - d \in 1 .. 6 /\ N - 6 + (6 - d) = N - d /\ d < 6
      BY <1>1, <3>1
    <3>3. late[6 - d] = addrs[N - d]
      BY <2>2, <3>2
    <3> QED
      BY <3>1, <3>2, <3>3 DEF d
  <2>4. Remembers(b, late, 6)
    BY <2>3 DEF Remembers
  <2> QED
    BY <2>2, <2>4 DEF late
<1> QED
  BY <1>1, <1>2, <1>3

------------------------------------------------------------------------------
(* Steps of the specification.                                             *)

\* IsMachine, board by board.
LEMMA IsMachineIs ==
  ASSUME NEW b, b.kind \in Kinds
  PROVE  IsMachine(b) <=> b \in DpcBoards \/ IsDpcPlus(b) \/ IsCdfBoard(b) \/ IsAr(b)
<1>1. CASE b.kind = "DPC"
  <2>1. ~ IsCdf(b)
    BY <1>1 DEF IsCdf, CdfKinds
  <2>2. IsMachine(b) <=> b \in DpcBoards
    BY <1>1, <2>1 DEF IsMachine
  <2> QED
    BY <1>1, <2>1, <2>2, KindsDiffer
<1>2. CASE b.kind = "DPC+"
  <2>1. ~ IsCdf(b)
    BY <1>2 DEF IsCdf, CdfKinds
  <2>2. IsMachine(b) <=> IsDpcPlus(b)
    BY <1>2, <2>1 DEF IsMachine
  <2> QED
    BY <1>2, <2>1, <2>2, KindsDiffer
<1>3. CASE b.kind = "AR"
  <2>1. ~ IsCdf(b)
    BY <1>3 DEF IsCdf, CdfKinds
  <2>2. IsMachine(b) <=> IsAr(b)
    BY <1>3, <2>1 DEF IsMachine
  <2> QED
    BY <1>3, <2>1, <2>2, KindsDiffer
<1>4. CASE b.kind \in CdfKinds
  <2>1. IsCdf(b) /\ b.kind # "DPC" /\ b.kind # "DPC+" /\ b.kind # "AR"
    BY <1>4 DEF IsCdf, CdfKinds
  <2>2. IsMachine(b) <=> IsCdfBoard(b)
    BY <2>1 DEF IsMachine
  <2> QED
    BY <2>1, <2>2, KindsDiffer
<1> QED
  BY <1>1, <1>2, <1>3, <1>4 DEF Kinds

\* The inductive invariant: the board, what its clock says, and what a tape's
\* machine holds.
MachineInv ==
  /\ clock \in Nat
  /\ \/ cart \in DpcMoving
     \/ IsDpcPlus(cart) /\ cart.beats = clock % 59
     \/ IsCdfBoard(cart) /\ cart.beats = clock % 59
     \/ IsAr(cart) /\ trail \in Seq(BusAddrs) /\ Remembers(cart, trail, Len(trail))

LEMMA MachineStarts ==
  ASSUME CoprocessorInit
  PROVE  MachineInv
<1>1. cart.kind \in Kinds /\ IsMachine(cart) /\ (cart.kind = "DPC" => cart.random # 255)
      /\ (cart.kind = "AR" => ~ cart.pending)
  BY CoprocessorAssumption, Zenon DEF CoprocessorInit
<1>2. cart \in DpcBoards \/ IsDpcPlus(cart) \/ IsCdfBoard(cart) \/ IsAr(cart)
  BY <1>1, IsMachineIs
<1>3. clock = IF "beats" \in DOMAIN cart THEN cart.beats ELSE 0
  BY DEF CoprocessorInit
<1>4. CASE cart \in DpcBoards
  <2>1. clock = 0
    BY <1>3, <1>4 DEF DpcBoards
  <2> QED
    BY <1>1, <1>4, <2>1, KindsDiffer DEF MachineInv, DpcMoving
<1>5. CASE IsDpcPlus(cart)
  <2>1. "beats" \in DOMAIN cart /\ cart.beats \in 0 .. 58
    BY <1>5 DEF IsDpcPlus
  <2>2. clock = cart.beats
    BY <1>3, <2>1
  <2>3. clock \in Nat /\ cart.beats = clock % 59
    BY <2>1, <2>2
  <2> QED
    BY <1>5, <2>3 DEF MachineInv
<1>6. CASE IsCdfBoard(cart)
  <2>1. "beats" \in DOMAIN cart /\ cart.beats \in 0 .. 58
    BY <1>6 DEF IsCdfBoard
  <2>2. clock = cart.beats
    BY <1>3, <2>1
  <2>3. clock \in Nat /\ cart.beats = clock % 59
    BY <2>1, <2>2
  <2> QED
    BY <1>6, <2>3 DEF MachineInv
<1>7. CASE IsAr(cart)
  <2>1. clock = 0
    BY <1>3, <1>7 DEF IsAr
  <2>2. trail = <<>> /\ trail \in Seq(BusAddrs)
    BY DEF CoprocessorInit
  <2>3. Remembers(cart, trail, Len(trail))
    BY <1>1, <1>7, KindsDiffer DEF Remembers
  <2> QED
    BY <1>7, <2>1, <2>2, <2>3 DEF MachineInv
<1> QED
  BY <1>2, <1>4, <1>5, <1>6, <1>7

\* An instruction is a run of the machine.
LEMMA ExecuteRuns ==
  ASSUME NEW code \in Seq(BusAccesses), Execute(code), cart.kind \in Kinds
  PROVE  \E f : \E arm \in ArmRuns :
            /\ Runs(f, code, arm) /\ cart' = f[Len(code)].cart
            /\ last'.code = code /\ clock' = clock + Len(code)
<1>1. PICK arm \in ArmRuns : cart' = Executed(code, arm).cart /\ last'.code = code
  BY DEF Execute
<1>2. Len(code) \in Nat
  OBVIOUS
<1>3. PICK f : /\ f[0].cart = cart /\ Executed(code, arm) = f[Len(code)]
               /\ \A i \in 1 .. Len(code) : f[i] = BusCycle(f[i - 1], code[i], arm)
  BY <1>2, ExecutedIs
<1>4. Runs(f, code, arm)
  BY <1>3 DEF Runs
<1>5. clock' = clock + Len(code)
  BY DEF Execute
<1> QED
  BY <1>1, <1>3, <1>4, <1>5, Zenon

\* What a program of the ARM stores.
LEMMA ArmFacts ==
  ASSUME NEW arm \in ArmRuns
  PROVE  arm["DPC+"].stores \in Seq(DpcPlusStores) /\ CdfPrograms(arm)
BY CoprocessorAssumption, Zenon DEF Stores, DpcPlusStores, CdfPrograms

LEMMA DpcStep ==
  ASSUME NEW code \in Seq(BusAccesses), Execute(code), cart \in DpcMoving
  PROVE  cart' \in DpcMoving
<1>1. cart.kind \in Kinds
  BY KindsDiffer DEF DpcMoving, Kinds
<1>2. PICK f : \E arm \in ArmRuns : Runs(f, code, arm) /\ cart' = f[Len(code)].cart
  BY <1>1, ExecuteRuns
<1> QED
  BY <1>2, DpcRuns

\* The music of a board, and what a run has to do with it.
Played(b, c, from, to, top) ==
  \A m \in 0 .. 2 :
    c.music[m].count = (b.music[m].count + (Periods(to) - Periods(from)) * b.music[m].freq) % top

LEMMA LongCount ==
  ASSUME NEW k \in LongCounts
  PROVE  k \in Nat /\ k % LongTurn = k
BY DEF LongCounts, LongTurn

LEMMA LongMusic ==
  ASSUME NEW x \in Musics(4095)
  PROVE  x.freq \in Nat /\ x.count \in Nat /\ x.count % LongTurn = x.count
<1>1. x \in [waveform : Nat, freq : Nat, count : LongCounts]
  BY DEF Musics, LongCounts
<1>2. x.freq \in Nat /\ x.count \in LongCounts
  BY <1>1
<1> QED
  BY <1>2, LongCount

LEMMA MusicTypes ==
  ASSUME NEW b, NEW m \in 0 .. 2
  PROVE  /\ IsDpcPlus(b) => /\ b.music[m].freq \in Nat /\ b.music[m].count \in Nat
                            /\ b.music[m].count % 32 = b.music[m].count
         /\ IsCdfBoard(b) => /\ b.music[m].freq \in Nat /\ b.music[m].count \in Nat
                             /\ b.music[m].count % LongTurn = b.music[m].count
<1>1. ASSUME IsDpcPlus(b)
      PROVE  b.music[m].freq \in Nat /\ b.music[m].count \in Nat /\ b.music[m].count % 32 = b.music[m].count
  <2>1. b.music[m] \in Musics(31)
    BY <1>1 DEF IsDpcPlus
  <2>2. b.music[m].freq \in Nat /\ b.music[m].count \in 0 .. 31
    BY <2>1 DEF Musics
  <2> QED
    BY <2>2
<1>2. ASSUME IsCdfBoard(b)
      PROVE  /\ b.music[m].freq \in Nat /\ b.music[m].count \in Nat
             /\ b.music[m].count % LongTurn = b.music[m].count
  <2>1. b.music[m] \in Musics(4095)
    BY <1>2 DEF IsCdfBoard
  <2> QED
    BY <2>1, LongMusic
<1> QED
  BY <1>1, <1>2

LEMMA Reading ==
  ASSUME NEW code \in Seq(BusAccesses), ~ Sets(code)
  PROVE  \A i \in 1 .. Len(code) : code[i].op = "read"
<1> TAKE i \in 1 .. Len(code)
<1>1. i \in DOMAIN code /\ code[i] \in BusAccesses
  OBVIOUS
<1>2. code[i].op # "write"
  BY <1>1, Zenon DEF Sets
<1> QED
  BY <1>1, <1>2 DEF BusAccesses

LEMMA DpcPlusStep ==
  ASSUME NEW code \in Seq(BusAccesses), Execute(code), IsDpcPlus(cart), clock \in Nat,
         cart.beats = clock % 59
  PROVE  /\ IsDpcPlus(cart') /\ cart'.beats = clock' % 59
         /\ ~ Sets(code) =>
              /\ Played(cart, cart', clock, clock', 32)
              /\ ~ cart.fast =>
                   \A m \in 0 .. 7 :
                     FracAt(cart'.frac[m]) =
                       (FracAt(cart.frac[m]) + ReadsOf(code, m) * cart.frac[m].increment) % FracTurn
<1> DEFINE n == Len(code)
<1>1. cart.kind \in Kinds /\ n \in Nat
  BY KindsDiffer DEF Kinds
<1>2. PICK f : \E arm \in ArmRuns : /\ Runs(f, code, arm) /\ cart' = f[Len(code)].cart
                                    /\ last'.code = code /\ clock' = clock + Len(code)
  BY <1>1, ExecuteRuns
<1>3. PICK arm \in ArmRuns : Runs(f, code, arm) /\ cart' = f[n].cart /\ clock' = clock + n
  BY <1>2
<1>4. arm["DPC+"].stores \in Seq(DpcPlusStores)
  BY ArmFacts
<1>5. \A k \in 0 .. n : IsDpcPlus(f[k].cart) /\ f[k].cart.beats = (clock + k) % 59
  BY <1>3, <1>4, DpcPlusRuns
<1>6. n \in 0 .. n /\ 0 \in 0 .. n
  BY <1>1
<1>7. IsDpcPlus(cart') /\ cart'.beats = clock' % 59
  BY <1>3, <1>5, <1>6
<1>8. ASSUME ~ Sets(code)
      PROVE  /\ Played(cart, cart', clock, clock', 32)
             /\ ~ cart.fast =>
                  \A m \in 0 .. 7 :
                    FracAt(cart'.frac[m]) =
                      (FracAt(cart.frac[m]) + ReadsOf(code, m) * cart.frac[m].increment) % FracTurn
  <2> DEFINE g == [k \in 0 .. n |-> f[k].cart]
  <2>1. \A i \in 1 .. n : code[i].op = "read"
    BY <1>8, Reading
  <2>2. ASSUME NEW i \in 1 .. n
        PROVE  /\ MusicMoves(f[i - 1].cart, f[i].cart, 32) /\ f[i].cart.fast = f[i - 1].cart.fast
               /\ ~ f[i - 1].cart.fast => Stepped(f[i - 1].cart, f[i].cart, Register(code[i]))
    <3> DEFINE s == f[i - 1]
               x == code[i]
    <3>1. x \in BusAccesses /\ x.op = "read" /\ IsDpcPlus(s.cart) /\ f[i].cart = BusCycle(s, x, arm).cart
      <4>1. i - 1 \in 0 .. n
        BY <1>1
      <4> QED
        BY <1>3, <1>5, <2>1, <4>1 DEF Runs
    <3> HIDE DEF s, x
    <3>2. LET c == BusCycle(s, x, arm).cart
          IN /\ MusicMoves(s.cart, c, 32) /\ c.fast = s.cart.fast
             /\ ~ s.cart.fast => Stepped(s.cart, c, Register(x))
      BY <1>4, <3>1, DpcPlusCycle
    <3> QED
      BY <3>1, <3>2 DEF s, x
  <2>3. g[0] = cart /\ g[n] = cart'
    BY <1>3, <1>6 DEF Runs
  <2>4. /\ \A i \in 0 .. n : IsDpcPlus(g[i])
        /\ \A i \in 1 .. n : /\ MusicMoves(g[i - 1], g[i], 32) /\ g[i].fast = g[i - 1].fast
                             /\ ~ g[i - 1].fast => Stepped(g[i - 1], g[i], Register(code[i]))
    <3>1. \A i \in 0 .. n : g[i] = f[i].cart
      OBVIOUS
    <3>2. \A i \in 1 .. n : i \in 0 .. n /\ i - 1 \in 0 .. n
      BY <1>1
    <3> HIDE DEF g
    <3>3. \A i \in 0 .. n : IsDpcPlus(g[i])
      BY <1>5, <3>1
    <3>4. \A i \in 1 .. n : /\ MusicMoves(g[i - 1], g[i], 32) /\ g[i].fast = g[i - 1].fast
                            /\ ~ g[i - 1].fast => Stepped(g[i - 1], g[i], Register(code[i]))
      BY <2>2, <3>1, <3>2
    <3> QED
      BY <3>3, <3>4
  <2> HIDE DEF g
  <2>5. Played(cart, cart', clock, clock', 32)
    <3> SUFFICES ASSUME NEW m \in 0 .. 2
                 PROVE  cart'.music[m].count =
                          (cart.music[m].count + (Periods(clock') - Periods(clock)) * cart.music[m].freq) % 32
      BY DEF Played
    <3>1. /\ cart.music[m].freq \in Nat /\ cart.music[m].count \in Nat
          /\ cart.music[m].count % 32 = cart.music[m].count
      BY MusicTypes
    <3>2. /\ g[0].music[m].freq \in Nat /\ g[0].music[m].count \in Nat
          /\ g[0].music[m].count % 32 = g[0].music[m].count /\ g[0].beats = clock % 59
      BY <2>3, <3>1
    <3>3. g[n].music[m].count =
            (g[0].music[m].count + (Periods(clock + n) - Periods(clock)) * g[0].music[m].freq) % 32
      <4> DEFINE top == 32
      <4>1. top \in {32, LongTurn} /\ n \in Nat
        BY <1>1
      <4>2. \A i \in 1 .. n : MusicMoves(g[i - 1], g[i], top)
        BY <2>4, Zenon
      <4>3. g[0].music[m].count % top = g[0].music[m].count
        BY <3>2
      <4> HIDE DEF top
      <4>4. g[n].music[m].count =
              (g[0].music[m].count + (Periods(clock + n) - Periods(clock)) * g[0].music[m].freq) % top
        BY <3>2, <4>1, <4>2, <4>3, MusicAlong
      <4> QED
        BY <4>4 DEF top
    <3> QED
      BY <1>3, <2>3, <3>3
  <2>6. ASSUME NEW m \in 0 .. 7, ~ cart.fast
        PROVE  FracAt(cart'.frac[m]) =
                 (FracAt(cart.frac[m]) + ReadsOf(code, m) * cart.frac[m].increment) % FracTurn
    <3>1. FracAt(g[n].frac[m]) =
            (FracAt(g[0].frac[m]) + ReadsOf(code, m) * g[0].frac[m].increment) % FracTurn
      BY <1>1, <2>1, <2>3, <2>4, <2>6, FracAlong
    <3> QED
      BY <2>3, <3>1
  <2> QED
    BY <2>5, <2>6
<1> QED
  BY <1>7, <1>8

LEMMA CdfStep ==
  ASSUME NEW code \in Seq(BusAccesses), Execute(code), IsCdfBoard(cart), clock \in Nat,
         cart.beats = clock % 59
  PROVE  /\ IsCdfBoard(cart') /\ cart'.beats = clock' % 59
         /\ ~ Sets(code) => Played(cart, cart', clock, clock', LongTurn)
<1> DEFINE n == Len(code)
<1>1. cart.kind \in Kinds /\ n \in Nat
  BY KindsDiffer DEF Kinds, IsCdf
<1>2. PICK f : \E arm \in ArmRuns : /\ Runs(f, code, arm) /\ cart' = f[Len(code)].cart
                                    /\ last'.code = code /\ clock' = clock + Len(code)
  BY <1>1, ExecuteRuns
<1>3. PICK arm \in ArmRuns : Runs(f, code, arm) /\ cart' = f[n].cart /\ clock' = clock + n
  BY <1>2
<1>4. CdfPrograms(arm)
  BY ArmFacts
<1>5. \A k \in 0 .. n : IsCdfBoard(f[k].cart) /\ f[k].cart.beats = (clock + k) % 59
  BY <1>3, <1>4, CdfRuns
<1>6. n \in 0 .. n /\ 0 \in 0 .. n
  BY <1>1
<1>7. IsCdfBoard(cart') /\ cart'.beats = clock' % 59
  BY <1>3, <1>5, <1>6
<1>8. ASSUME ~ Sets(code)
      PROVE  Played(cart, cart', clock, clock', LongTurn)
  <2> DEFINE g == [k \in 0 .. n |-> f[k].cart]
  <2>1. \A i \in 1 .. n : code[i].op = "read"
    BY <1>8, Reading
  <2>2. ASSUME NEW i \in 1 .. n
        PROVE  MusicMoves(f[i - 1].cart, f[i].cart, LongTurn)
    <3> DEFINE s == f[i - 1]
               x == code[i]
    <3>1. x \in BusAccesses /\ x.op = "read" /\ IsCdfBoard(s.cart) /\ f[i].cart = BusCycle(s, x, arm).cart
      <4>1. i - 1 \in 0 .. n
        BY <1>1
      <4> QED
        BY <1>3, <1>5, <2>1, <4>1 DEF Runs
    <3> HIDE DEF s, x
    <3>2. MusicMoves(s.cart, BusCycle(s, x, arm).cart, LongTurn)
      BY <1>4, <3>1, CdfCycle
    <3> QED
      BY <3>1, <3>2 DEF s, x
  <2>3. g[0] = cart /\ g[n] = cart'
    BY <1>3, <1>6 DEF Runs
  <2>4. \A i \in 1 .. n : MusicMoves(g[i - 1], g[i], LongTurn)
    <3>1. \A i \in 0 .. n : g[i] = f[i].cart
      OBVIOUS
    <3>2. \A i \in 1 .. n : i \in 0 .. n /\ i - 1 \in 0 .. n
      BY <1>1
    <3> HIDE DEF g
    <3> QED
      BY <2>2, <3>1, <3>2
  <2> HIDE DEF g
  <2> SUFFICES ASSUME NEW m \in 0 .. 2
               PROVE  cart'.music[m].count =
                        (cart.music[m].count + (Periods(clock') - Periods(clock)) * cart.music[m].freq) % LongTurn
    BY DEF Played
  <2>5. /\ cart.music[m].freq \in Nat /\ cart.music[m].count \in Nat
        /\ cart.music[m].count % LongTurn = cart.music[m].count
    BY MusicTypes
  <2>6. /\ g[0].music[m].freq \in Nat /\ g[0].music[m].count \in Nat
        /\ g[0].music[m].count % LongTurn = g[0].music[m].count /\ g[0].beats = clock % 59
    BY <2>3, <2>5
  <2>7. g[n].music[m].count =
          (g[0].music[m].count + (Periods(clock + n) - Periods(clock)) * g[0].music[m].freq) % LongTurn
    BY <1>1, <2>4, <2>6, MusicAlong
  <2> QED
    BY <1>3, <2>3, <2>7
<1> QED
  BY <1>7, <1>8

\* A stall is a run of ticks.
LEMMA StallRuns ==
  ASSUME NEW k \in Stalls, Stall(k)
  PROVE  \E f : /\ k \in Nat /\ f[0] = cart /\ cart' = f[k] /\ \A i \in 1 .. k : f[i] = Tick(f[i - 1])
                /\ last'.code = <<>> /\ clock' = clock + k
<1>1. k \in Nat
  BY CoprocessorAssumption
<1>2. cart' = Ticked(k) /\ last'.code = <<>> /\ clock' = clock + k
  BY DEF Stall
<1>3. PICK f : f[0] = cart /\ Ticked(k) = f[k] /\ \A i \in 1 .. k : f[i] = Tick(f[i - 1])
  BY <1>1, TickedIs
<1> QED
  BY <1>1, <1>2, <1>3

LEMMA DpcPlusTick ==
  ASSUME NEW b, IsDpcPlus(b)
  PROVE  IsDpcPlus(Tick(b)) /\ MusicMoves(b, Tick(b), 32) /\ Tick(b).frac = b.frac
<1>1. b.kind = "DPC+" /\ ~ IsCdf(b)
  BY KindsDiffer
<1>2. Tick(b) = MusicTick(b)
  BY <1>1, Zenon DEF Tick
<1> QED
  BY <1>2, MusicTickFacts

LEMMA CdfBoardTick ==
  ASSUME NEW b, IsCdfBoard(b)
  PROVE  IsCdfBoard(Tick(b)) /\ MusicMoves(b, Tick(b), LongTurn)
<1>1. IsCdf(b) /\ b.kind # "DPC" /\ b.kind # "DPC+" /\ b.kind # "AR"
  BY KindsDiffer
<1>2. Tick(b) = CdfTick(b)
  BY <1>1, Zenon DEF Tick
<1> QED
  BY <1>2, CdfTickFacts DEF LongTurn

LEMMA DpcPlusStall ==
  ASSUME NEW k \in Stalls, Stall(k), IsDpcPlus(cart), clock \in Nat, cart.beats = clock % 59
  PROVE  /\ IsDpcPlus(cart') /\ cart'.beats = clock' % 59 /\ Played(cart, cart', clock, clock', 32)
         /\ cart'.frac = cart.frac
<1>1. PICK f : /\ k \in Nat /\ f[0] = cart /\ cart' = f[k] /\ \A i \in 1 .. k : f[i] = Tick(f[i - 1])
               /\ last'.code = <<>> /\ clock' = clock + k
  BY StallRuns
<1> DEFINE Good == {i \in 0 .. k : IsDpcPlus(f[i]) /\ f[i].frac = cart.frac}
<1>2. Good = 0 .. k
  <2>1. 0 \in Good
    BY <1>1
  <2>2. ASSUME NEW i \in 1 .. k, i - 1 \in Good PROVE i \in Good
    <3>1. f[i] = Tick(f[i - 1]) /\ IsDpcPlus(f[i - 1]) /\ f[i - 1].frac = cart.frac
      BY <1>1, <2>2
    <3> QED
      BY <3>1, DpcPlusTick
  <2>3. Good \in SUBSET (0 .. k)
    OBVIOUS
  <2> HIDE DEF Good
  <2> QED
    BY <1>1, <2>1, <2>2, <2>3, AllPositions
<1>3. \A i \in 0 .. k : IsDpcPlus(f[i]) /\ f[i].frac = cart.frac
  BY <1>2
<1> HIDE DEF Good
<1>4. k \in 0 .. k /\ \A i \in 1 .. k : i - 1 \in 0 .. k
  BY <1>1
<1>5. \A i \in 1 .. k : MusicMoves(f[i - 1], f[i], 32)
  BY <1>1, <1>3, <1>4, DpcPlusTick
<1>6. ASSUME NEW m \in 0 .. 2
      PROVE  /\ f[k].beats = (clock + k) % 59
             /\ f[k].music[m].count =
                  (f[0].music[m].count + (Periods(clock + k) - Periods(clock)) * f[0].music[m].freq) % 32
  <2> DEFINE top == 32
  <2>0. top \in {32, LongTurn} /\ k \in Nat
    BY <1>1
  <2>1. /\ cart.music[m].freq \in Nat /\ cart.music[m].count \in Nat
        /\ cart.music[m].count % 32 = cart.music[m].count
    BY MusicTypes
  <2>2. /\ f[0].music[m].freq \in Nat /\ f[0].music[m].count \in Nat
        /\ f[0].music[m].count % 32 = f[0].music[m].count /\ f[0].beats = clock % 59
    BY <1>1, <2>1
  <2> QED
    <3>1. \A i \in 1 .. k : MusicMoves(f[i - 1], f[i], top)
      BY <1>5, Zenon
    <3>2. f[0].music[m].count % top = f[0].music[m].count
      BY <2>2
    <3> HIDE DEF top
    <3>3. /\ f[k].beats = (clock + k) % 59
          /\ f[k].music[m].count =
               (f[0].music[m].count + (Periods(clock + k) - Periods(clock)) * f[0].music[m].freq) % top
      BY <2>0, <2>2, <3>1, <3>2, MusicAlong
    <3> QED
      BY <3>3 DEF top
<1>7. Played(cart, cart', clock, clock', 32)
  BY <1>1, <1>6 DEF Played
<1>8. cart'.beats = clock' % 59
  <2>1. 0 \in 0 .. 2
    OBVIOUS
  <2> QED
    BY <1>1, <1>6, <2>1
<1> QED
  BY <1>1, <1>3, <1>4, <1>7, <1>8

LEMMA CdfStall ==
  ASSUME NEW k \in Stalls, Stall(k), IsCdfBoard(cart), clock \in Nat, cart.beats = clock % 59
  PROVE  IsCdfBoard(cart') /\ cart'.beats = clock' % 59 /\ Played(cart, cart', clock, clock', LongTurn)
<1>1. PICK f : /\ k \in Nat /\ f[0] = cart /\ cart' = f[k] /\ \A i \in 1 .. k : f[i] = Tick(f[i - 1])
               /\ last'.code = <<>> /\ clock' = clock + k
  BY StallRuns
<1> DEFINE Good == {i \in 0 .. k : IsCdfBoard(f[i])}
<1>2. Good = 0 .. k
  <2>1. 0 \in Good
    BY <1>1
  <2>2. ASSUME NEW i \in 1 .. k, i - 1 \in Good PROVE i \in Good
    <3>1. f[i] = Tick(f[i - 1]) /\ IsCdfBoard(f[i - 1])
      BY <1>1, <2>2
    <3> QED
      BY <3>1, CdfBoardTick
  <2>3. Good \in SUBSET (0 .. k)
    OBVIOUS
  <2> HIDE DEF Good
  <2> QED
    BY <1>1, <2>1, <2>2, <2>3, AllPositions
<1>3. \A i \in 0 .. k : IsCdfBoard(f[i])
  BY <1>2
<1> HIDE DEF Good
<1>4. k \in 0 .. k /\ \A i \in 1 .. k : i - 1 \in 0 .. k
  BY <1>1
<1>5. \A i \in 1 .. k : MusicMoves(f[i - 1], f[i], LongTurn)
  BY <1>1, <1>3, <1>4, CdfBoardTick
<1>6. ASSUME NEW m \in 0 .. 2
      PROVE  /\ f[k].beats = (clock + k) % 59
             /\ f[k].music[m].count =
                  (f[0].music[m].count + (Periods(clock + k) - Periods(clock)) * f[0].music[m].freq) % LongTurn
  <2>1. /\ cart.music[m].freq \in Nat /\ cart.music[m].count \in Nat
        /\ cart.music[m].count % LongTurn = cart.music[m].count
    BY MusicTypes
  <2>2. /\ f[0].music[m].freq \in Nat /\ f[0].music[m].count \in Nat
        /\ f[0].music[m].count % LongTurn = f[0].music[m].count /\ f[0].beats = clock % 59
    BY <1>1, <2>1
  <2> QED
    BY <1>1, <1>5, <2>2, MusicAlong
<1>7. Played(cart, cart', clock, clock', LongTurn)
  BY <1>1, <1>6 DEF Played
<1>8. cart'.beats = clock' % 59
  <2>1. 0 \in 0 .. 2
    OBVIOUS
  <2> QED
    BY <1>1, <1>6, <2>1
<1> QED
  BY <1>1, <1>3, <1>4, <1>7, <1>8

LEMMA ArStep ==
  ASSUME NEW code \in Seq(BusAccesses), Execute(code), IsAr(cart), trail \in Seq(BusAddrs),
         Remembers(cart, trail, Len(trail))
  PROVE  LET held == trail \o AddrsOf(code)
         IN /\ IsAr(cart') /\ trail' \in Seq(BusAddrs) /\ Remembers(cart', trail', Len(trail'))
            /\ (\A i \in 1 .. Len(code) : code[i].addr # FastLoad)
                 => Accounted(cart.ram, cart'.ram, held, Len(held))
<1> DEFINE n == Len(code)
           t == Len(trail)
           held == trail \o AddrsOf(code)
<1>1. cart.kind \in Kinds /\ cart.kind = "AR" /\ n \in Nat /\ t \in Nat
  BY KindsDiffer DEF Kinds
<1>2. PICK f : \E arm \in ArmRuns : /\ Runs(f, code, arm) /\ cart' = f[Len(code)].cart
                                    /\ last'.code = code /\ clock' = clock + Len(code)
  BY <1>1, ExecuteRuns
<1>3. PICK arm \in ArmRuns : Runs(f, code, arm) /\ cart' = f[n].cart
  BY <1>2
<1>4. trail' = Latest(held)
  BY <1>1 DEF Execute
<1>5. /\ held \in Seq(BusAddrs) /\ Len(held) = t + n
      /\ \A i \in 1 .. t : held[i] = trail[i]
      /\ \A i \in 1 .. n : held[t + i] = code[i].addr
  BY HeldIs
<1> HIDE DEF held
<1>6. Remembers(cart, held, t)
  <2> SUFFICES ASSUME cart.pending
               PROVE  LET d == cart.accesses - cart.at_hold
                      IN d \in 0 .. 5 /\ d < t /\ Holding(held[t - d], cart.hold)
    BY DEF Remembers
  <2> DEFINE d == cart.accesses - cart.at_hold
  <2>1. d \in 0 .. 5 /\ d < t /\ Holding(trail[t - d], cart.hold)
    BY DEF Remembers
  <2> HIDE DEF d
  <2>2. t - d \in 1 .. t
    BY <1>1, <2>1
  <2>3. held[t - d] = trail[t - d]
    BY <1>5, <2>2
  <2> QED
    BY <2>1, <2>3 DEF d
<1>7. /\ IsAr(cart') /\ Remembers(cart', held, t + n)
      /\ (\A i \in 1 .. n : code[i].addr # FastLoad) => Accounted(cart.ram, cart'.ram, held, t + n)
  BY <1>1, <1>3, <1>5, <1>6, ArRuns
<1>8. trail' \in Seq(BusAddrs) /\ Remembers(cart', trail', Len(trail'))
  BY <1>4, <1>5, <1>7, LatestKeeps
<1> QED
  BY <1>5, <1>7, <1>8 DEF held

LEMMA MachineKinds ==
  ASSUME MachineInv
  PROVE  /\ cart.kind \in Kinds /\ IsMachine(cart)
         /\ cart.kind = "DPC" => cart \in DpcMoving
         /\ cart.kind = "DPC+" => IsDpcPlus(cart) /\ cart.beats = clock % 59
         /\ IsCdf(cart) => IsCdfBoard(cart) /\ cart.beats = clock % 59
         /\ cart.kind = "AR" => IsAr(cart) /\ trail \in Seq(BusAddrs) /\ Remembers(cart, trail, Len(trail))
<1>1. cart.kind \in Kinds
  BY KindsDiffer DEF MachineInv, DpcMoving, Kinds, IsCdf
<1>2. IsMachine(cart)
  BY <1>1, IsMachineIs DEF MachineInv, DpcMoving
<1> QED
  BY <1>1, <1>2, KindsDiffer DEF MachineInv, DpcMoving, IsCdf, CdfKinds

LEMMA MachineSteps ==
  ASSUME MachineInv, CoprocessorNext
  PROVE  \/ \E code \in Seq(BusAccesses) : Execute(code) /\ last'.code = code
         \/ \E k \in Stalls : Stall(k) /\ last'.code = <<>> /\ ~ Sets(last'.code)
<1>1. cart.kind \in Kinds
  BY MachineKinds
<1>2. CASE \E code \in Programs[cart.kind] : Execute(code)
  <2>1. PICK code \in Programs[cart.kind] : Execute(code)
    BY <1>2
  <2>2. Programs[cart.kind] \subseteq Seq(BusAccesses)
    BY <1>1, CoprocessorAssumption
  <2>3. last'.code = code
    BY <2>1 DEF Execute
  <2> QED
    BY <2>1, <2>2, <2>3
<1>3. CASE \E k \in Stalls : Stall(k)
  <2>1. PICK k \in Stalls : Stall(k)
    BY <1>3
  <2>2. last'.code = <<>>
    BY <2>1 DEF Stall
  <2>3. ~ Sets(last'.code)
    BY <2>2 DEF Sets
  <2> QED
    BY <2>1, <2>2, <2>3
<1> QED
  BY <1>2, <1>3 DEF CoprocessorNext

LEMMA MachineGoesOn ==
  ASSUME MachineInv, [CoprocessorNext]_coprocessorVars
  PROVE  MachineInv'
<1>1. CASE UNCHANGED coprocessorVars
  BY <1>1 DEF MachineInv, coprocessorVars, Remembers
<1>2. ASSUME NEW code \in Seq(BusAccesses), Execute(code) PROVE MachineInv'
  <2>1. clock' \in Nat
    <3>1. clock \in Nat /\ Len(code) \in Nat
      BY DEF MachineInv
    <3>2. clock' = clock + Len(code)
      BY <1>2 DEF Execute
    <3> QED
      BY <3>1, <3>2
  <2>2. CASE cart \in DpcMoving
    BY <1>2, <2>1, <2>2, DpcStep DEF MachineInv
  <2>3. CASE IsDpcPlus(cart) /\ cart.beats = clock % 59
    BY <1>2, <2>1, <2>3, DpcPlusStep DEF MachineInv
  <2>4. CASE IsCdfBoard(cart) /\ cart.beats = clock % 59
    BY <1>2, <2>1, <2>4, CdfStep DEF MachineInv
  <2>5. CASE IsAr(cart) /\ trail \in Seq(BusAddrs) /\ Remembers(cart, trail, Len(trail))
    <3>1. IsAr(cart') /\ trail' \in Seq(BusAddrs) /\ Remembers(cart', trail', Len(trail'))
      BY <1>2, <2>5, ArStep
    <3>2. Remembers(cart, trail, Len(trail))'
      BY <3>1 DEF Remembers
    <3> QED
      BY <2>1, <3>1, <3>2 DEF MachineInv
  <2> QED
    BY <2>2, <2>3, <2>4, <2>5 DEF MachineInv
<1>3. ASSUME NEW k \in Stalls, Stall(k) PROVE MachineInv'
  <2>1. cart.kind # "DPC" /\ cart.kind # "AR"
    BY <1>3 DEF Stall
  <2>2. clock' \in Nat
    <3>1. clock \in Nat /\ k \in Nat
      BY CoprocessorAssumption DEF MachineInv
    <3>2. clock' = clock + k
      BY <1>3 DEF Stall
    <3> QED
      BY <3>1, <3>2
  <2>3. CASE IsDpcPlus(cart) /\ cart.beats = clock % 59
    BY <1>3, <2>2, <2>3, DpcPlusStall DEF MachineInv
  <2>4. CASE IsCdfBoard(cart) /\ cart.beats = clock % 59
    BY <1>3, <2>2, <2>4, CdfStall DEF MachineInv
  <2>5. CASE cart \in DpcMoving \/ IsAr(cart)
    BY <2>1, <2>5, KindsDiffer DEF DpcMoving
  <2> QED
    BY <2>3, <2>4, <2>5 DEF MachineInv
<1>4. CASE CoprocessorNext
  BY <1>2, <1>3, <1>4, MachineSteps
<1> QED
  BY <1>1, <1>4

LEMMA MachineAlways == CoprocessorSpec => []MachineInv
<1>1. CoprocessorInit => MachineInv
  BY MachineStarts
<1>2. MachineInv /\ [CoprocessorNext]_coprocessorVars => MachineInv'
  BY MachineGoesOn
<1> QED
  BY <1>1, <1>2, PTL DEF CoprocessorSpec

\* The cartridge stays a board of its kind: registers, counters and fetchers in
\* their ranges, the cells of the tape's RAM outside the BIOS, through every
\* access, load, ARM program and stall.
THEOREM BoardsStay == CoprocessorSpec => [](cart.kind \in Kinds /\ IsMachine(cart))
<1>1. MachineInv => cart.kind \in Kinds /\ IsMachine(cart)
  BY MachineKinds
<1> QED
  BY <1>1, MachineAlways, PTL

\* Whatever program runs on a DPC board, its random number never becomes 255,
\* the one value that its shift register cannot leave (lib.rs, BankDpc).
THEOREM NumberMoves == CoprocessorSpec => []RandomNeverSticks
<1>1. MachineInv => RandomNeverSticks
  <2> SUFFICES ASSUME MachineInv, cart.kind = "DPC" PROVE cart.random # 255
    BY DEF RandomNeverSticks
  <2> QED
    BY MachineKinds DEF DpcMoving
<1> QED
  BY <1>1, MachineAlways, PTL

\* Whatever program runs on a tape's machine, a cell of its RAM changes only
\* by an access five accesses after one that held the byte it gets, or by a
\* load, and the BIOS never changes (lib.rs, BankAr).
THEOREM TapeIsWritten == CoprocessorSpec => TapeWrites
<1> DEFINE A == cart.kind = "AR" =>
                  /\ \A i \in DOMAIN cart'.ram : i < Bios * BankSize
                  /\ ~ Loads => \A i \in DOMAIN cart'.ram :
                       ArCell(cart.ram, i) # cart'.ram[i] =>
                         LET held == trail \o AddrsOf(last'.code)
                         IN \E j \in 6 .. Len(held) :
                              /\ held[j] % BankSize = i % BankSize
                              /\ Selected(held[j - 5])
                              /\ (held[j - 5] \div 256) % 16 = 0
                              /\ Lo(held[j - 5]) = cart'.ram[i]
<1>1. MachineInv /\ CoprocessorNext => A
  <2> SUFFICES ASSUME MachineInv, CoprocessorNext, cart.kind = "AR" PROVE A
    OBVIOUS
  <2>1. IsAr(cart) /\ trail \in Seq(BusAddrs) /\ Remembers(cart, trail, Len(trail))
    BY MachineKinds
  <2>2. PICK code \in Seq(BusAccesses) : Execute(code) /\ last'.code = code
    BY MachineSteps DEF Stall
  <2> DEFINE held == trail \o AddrsOf(code)
  <2>3. /\ IsAr(cart')
        /\ (\A i \in 1 .. Len(code) : code[i].addr # FastLoad)
              => Accounted(cart.ram, cart'.ram, held, Len(held))
    BY <2>1, <2>2, ArStep
  <2>4. ASSUME NEW i \in DOMAIN cart'.ram PROVE i < Bios * BankSize
    <3> DEFINE most == Bios * BankSize
    <3>1. most \in Int
      BY DEF Bios, BankSize
    <3>2. i \in 0 .. most - 1
      BY <2>3, <2>4, Zenon DEF IsAr
    <3> HIDE DEF most
    <3>3. i < most
      BY <3>1, <3>2
    <3> QED
      BY <3>3 DEF most
  <2>5. ASSUME ~ Loads, NEW i \in DOMAIN cart'.ram, ArCell(cart.ram, i) # cart'.ram[i]
        PROVE  \E j \in 6 .. Len(held) : /\ held[j] % BankSize = i % BankSize
                                         /\ Selected(held[j - 5])
                                         /\ (held[j - 5] \div 256) % 16 = 0
                                         /\ Lo(held[j - 5]) = cart'.ram[i]
    <3>1. \A n \in 1 .. Len(code) : code[n].addr # FastLoad
      <4>1. DOMAIN code = 1 .. Len(code)
        OBVIOUS
      <4> QED
        BY <2>2, <2>5, <4>1, Zenon DEF Loads
    <3> HIDE DEF held
    <3>2. \E j \in 6 .. Len(held) : StoredAt(held, j, i, cart'.ram[i])
      BY <2>3, <2>5, <3>1, Zenon DEF Accounted
    <3> QED
      BY <3>2, Zenon DEF StoredAt, Holding
  <2> QED
    BY <2>2, <2>4, <2>5, Zenon
<1>2. MachineInv /\ [CoprocessorNext]_coprocessorVars => [A]_coprocessorVars
  BY <1>1
<1> QED
  BY <1>2, MachineAlways, PTL DEF CoprocessorSpec, TapeWrites

\* Whatever program runs on a DPC+ or a CDF board, and however long it waits
\* for the beam, a fetcher with a fraction moves on by its increment at each of
\* its reads and a music fetcher by its frequency once in 59 cycles (lib.rs,
\* BankDpcPlus and BankCdf).
THEOREM FetchersLoseNothing == CoprocessorSpec => FetchersExact
<1> DEFINE A == (cart.kind = "DPC+" \/ IsCdf(cart)) /\ ~ Sets(last'.code) =>
                  /\ cart.kind = "DPC+" /\ ~ cart.fast =>
                       \A i \in 0 .. 7 :
                         FracAt(cart'.frac[i]) =
                           (FracAt(cart.frac[i]) + ReadsOf(last'.code, i) * cart.frac[i].increment) % FracTurn
                  /\ \A m \in 0 .. 2 :
                       cart'.music[m].count =
                         (cart.music[m].count + (Periods(clock') - Periods(clock)) * cart.music[m].freq)
                           % (IF cart.kind = "DPC+" THEN 32 ELSE 4096)
<1>1. MachineInv /\ CoprocessorNext => A
  <2> SUFFICES ASSUME MachineInv, CoprocessorNext, cart.kind = "DPC+" \/ IsCdf(cart), ~ Sets(last'.code)
               PROVE  /\ cart.kind = "DPC+" /\ ~ cart.fast =>
                           \A i \in 0 .. 7 :
                             FracAt(cart'.frac[i]) =
                               (FracAt(cart.frac[i]) + ReadsOf(last'.code, i) * cart.frac[i].increment) % FracTurn
                      /\ Played(cart, cart', clock, clock', IF cart.kind = "DPC+" THEN 32 ELSE LongTurn)
    BY DEF Played, LongTurn
  <2>1. clock \in Nat
    BY DEF MachineInv
  <2>2. CASE cart.kind = "DPC+"
    <3>1. IsDpcPlus(cart) /\ cart.beats = clock % 59
      BY <2>2, MachineKinds
    <3>2. ASSUME NEW code \in Seq(BusAccesses), Execute(code), last'.code = code
          PROVE  /\ ~ cart.fast =>
                      \A i \in 0 .. 7 :
                        FracAt(cart'.frac[i]) =
                          (FracAt(cart.frac[i]) + ReadsOf(last'.code, i) * cart.frac[i].increment) % FracTurn
                 /\ Played(cart, cart', clock, clock', 32)
      BY <2>1, <3>1, <3>2, DpcPlusStep
    <3>3. ASSUME NEW k \in Stalls, Stall(k), last'.code = <<>>
          PROVE  /\ \A i \in 0 .. 7 :
                      FracAt(cart'.frac[i]) =
                        (FracAt(cart.frac[i]) + ReadsOf(last'.code, i) * cart.frac[i].increment) % FracTurn
                 /\ Played(cart, cart', clock, clock', 32)
      <4>1. cart'.frac = cart.frac /\ Played(cart, cart', clock, clock', 32)
        BY <2>1, <3>1, <3>3, DpcPlusStall
      <4>2. ASSUME NEW i \in 0 .. 7
            PROVE  FracAt(cart.frac[i]) =
                     (FracAt(cart.frac[i]) + ReadsOf(<<>>, i) * cart.frac[i].increment) % FracTurn
        <5>1. ReadsOf(<<>>, i) = 0
          <6>1. {j \in DOMAIN <<>> : <<>>[j].op = "read" /\ <<>>[j].addr = \h1018 + i} = {}
            OBVIOUS
          <6> QED
            BY <6>1, FS_EmptySet DEF ReadsOf
        <5> DEFINE f == cart.frac[i]
        <5>2. f \in Fracs
          BY <3>1 DEF IsDpcPlus
        <5> HIDE DEF f
        <5>3. f.increment \in Nat /\ FracAt(f) \in Int /\ 0 <= FracAt(f) /\ FracAt(f) < FracTurn
          BY <5>2, IncrementIsNat, FracIncMoves
        <5>4. FracAt(f) = (FracAt(f) + 0 * f.increment) % FracTurn
          BY <5>3 DEF FracTurn
        <5> QED
          BY <5>1, <5>4 DEF f
      <4> QED
        BY <3>3, <4>1, <4>2
    <3> QED
      BY <2>2, <3>2, <3>3, MachineSteps
  <2>3. CASE IsCdf(cart)
    <3>1. IsCdfBoard(cart) /\ cart.beats = clock % 59 /\ cart.kind # "DPC+"
      BY <2>3, MachineKinds, KindsDiffer
    <3>2. ASSUME NEW code \in Seq(BusAccesses), Execute(code), last'.code = code
          PROVE  Played(cart, cart', clock, clock', LongTurn)
      BY <2>1, <3>1, <3>2, CdfStep
    <3>3. ASSUME NEW k \in Stalls, Stall(k)
          PROVE  Played(cart, cart', clock, clock', LongTurn)
      BY <2>1, <3>1, <3>3, CdfStall
    <3>4. Played(cart, cart', clock, clock', LongTurn)
      BY <3>2, <3>3, MachineSteps
    <3> QED
      BY <3>1, <3>4
  <2> QED
    BY <2>2, <2>3
<1>2. MachineInv /\ [CoprocessorNext]_coprocessorVars => [A]_coprocessorVars
  BY <1>1
<1> QED
  BY <1>2, MachineAlways, PTL DEF CoprocessorSpec, FetchersExact
==============================================================================
