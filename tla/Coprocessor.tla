---------------------------- MODULE Coprocessor ----------------------------
(***************************************************************************)
(* The cartridges with a machine of their own, DPC, DPC+, the CDF family   *)
(* and the Supercharger, under a program: the instructions of the program  *)
(* run in any order, each one as the accesses that the CPU of              *)
(* crates/rusty2600-cpu makes for it, the cartridge's clock ticking before *)
(* each (crates/rusty2600-core/src/scheduler.rs).                          *)
(***************************************************************************)
EXTENDS Accesses, Dpc, Cdf, Supercharger

CONSTANTS Machines,     \* the boards a program may find itself on
          Programs,     \* the instructions of a program, by the kind of the board
          Code,         \* the bytes of the program, by address
          ArmRuns,      \* what the ARM's programs do, by the kind of the board
          Stalls,       \* how long the CPU may wait for the beam
          MaxClock      \* bound: the CPU cycles of a program, by the kind of the board

Kinds == {"DPC", "DPC+", "AR"} \cup CdfKinds
Stores(values) == Seq([addr : Nat, v : values])

IsMachine(b) ==
  CASE b.kind = "DPC"  -> b \in DpcBoards
    [] b.kind = "DPC+" -> IsDpcPlus(b)
    [] b.kind = "AR"   -> IsAr(b)
    [] IsCdf(b)        -> IsCdfBoard(b)

\* A board starts without a byte held, and never with the number that sticks.
ASSUME CoprocessorAssumption ==
  /\ \A b \in Machines :
        /\ b.kind \in Kinds /\ IsMachine(b)
        /\ b.kind = "DPC" => b.random # 255
        /\ b.kind = "AR" => ~ b.pending
  /\ \A kind \in Kinds : Programs[kind] \subseteq Seq(BusAccesses)
  /\ \A arm \in ArmRuns :
        /\ arm["DPC+"].stores \in Stores(0 .. 255)
        /\ \A kind \in CdfKinds : arm[kind].stores \in Stores(Nat) /\ arm[kind].v \in Nat
  /\ Stalls \subseteq Nat

VARIABLES cart,         \* the cartridge's board
          last,         \* the instruction that ran last, and the bytes it got
          riot,         \* the cells of the console's RAM the tape's BIOS reads
          trail,        \* the latest addresses, on a board that counts them
          clock         \* CPU cycles gone by

coprocessorVars == <<cart, last, riot, trail, clock>>

\* An address of the cartridge's half of the space.
Selected(addr) == addr >= \h1000

CoprocessorInit ==
  /\ cart \in Machines
  /\ last = [code |-> <<>>, bytes |-> <<>>]
  /\ riot = [a \in {\h80, \hFE, \hFF} |-> 0]
  /\ trail = <<>>
  /\ clock = IF "beats" \in DOMAIN cart THEN cart.beats ELSE 0

------------------------------------------------------------------------------
(* The bus.                                                                *)

\* Board::tick, which most boards leave empty.
Tick(b) == CASE b.kind = "DPC+" -> MusicTick(b)
             [] IsCdf(b) -> CdfTick(b)
             [] b.kind \in {"DPC", "AR"} -> b

\* bus.rs hands the AR's board's pokes to the console's RAM at once.
Poked(cells, pokes) == [a \in DOMAIN cells |-> IF a \in DOMAIN pokes THEN pokes[a] ELSE cells[a]]
Quiet(b) == IF b.kind = "AR" THEN [b EXCEPT !.pokes = NoPokes] ELSE b

CodeAt(addr) == IF addr \in DOMAIN Code THEN Code[addr] ELSE 0

\* An access of the cartridge's half: <<the board after it, the byte>>.
InCartridge(b, x, arm) ==
  LET read == x.op = "read"
  IN CASE b.kind = "DPC"  -> IF read THEN <<DpcRead(b, x.addr), DpcValue(b, x.addr, CodeAt(x.addr))>>
                             ELSE <<DpcWrite(b, x.addr, x.v), x.v>>
       [] b.kind = "DPC+" -> IF read THEN DpcPlusRead(b, x.addr, CodeAt(x.addr))
                             ELSE <<DpcPlusWrite(b, x.addr, x.v, arm[b.kind].stores), x.v>>
       [] IsCdf(b)        -> IF read THEN CdfRead(b, x.addr)
                             ELSE <<CdfWrite(b, x.addr, x.v, arm[b.kind]), x.v>>
       [] b.kind = "AR"   -> IF read
                             THEN LET n == ArRead(b, x.addr)
                                  IN <<n, ArCell(n.ram, ImageIndex(n, x.addr))>>
                             ELSE <<ArWrite(b, x.addr), x.v>>

\* An access of the console's half, by the cells of its RAM.
InConsole(b, cells, x) ==
  LET v == IF x.op = "write" \/ x.addr \notin DOMAIN cells THEN x.v ELSE cells[x.addr]
  IN <<IF b.kind = "AR" THEN ArSnoop(b, x.addr, v) ELSE b, v>>

\* One cycle of the CPU on [cart, riot, bytes].
BusCycle(s, x, arm) ==
  LET ticked == Tick(s.cart)
      got    == IF Selected(x.addr) THEN InCartridge(ticked, x, arm) ELSE InConsole(ticked, s.riot, x)
      cells  == IF x.op = "write" /\ x.addr \in DOMAIN s.riot THEN [s.riot EXCEPT ![x.addr] = x.v]
                ELSE s.riot
  IN [cart  |-> Quiet(got[1]),
      riot  |-> IF got[1].kind = "AR" THEN Poked(cells, got[1].pokes) ELSE cells,
      bytes |-> Append(s.bytes, got[2])]

------------------------------------------------------------------------------
(* The program.                                                            *)

TrailLength == 6
Latest(addrs) == SubSeq(addrs, IF Len(addrs) > TrailLength THEN Len(addrs) - TrailLength + 1 ELSE 1,
                        Len(addrs))

\* An instruction's accesses, one after the other.
Executed(code, arm) ==
  LET after[i \in 0 .. Len(code)] ==
        IF i = 0 THEN [cart |-> cart, riot |-> riot, bytes |-> <<>>]
        ELSE BusCycle(after[i - 1], code[i], arm)
  IN after[Len(code)]

AddrsOf(code) == [i \in DOMAIN code |-> code[i].addr]

Execute(code) ==
  /\ clock + Len(code) <= MaxClock[cart.kind]
  /\ \E arm \in ArmRuns :
       LET after == Executed(code, arm)
       IN /\ cart' = after.cart
          /\ riot' = after.riot
          /\ last' = [code |-> code, bytes |-> after.bytes]
  /\ trail' = IF cart.kind = "AR" THEN Latest(trail \o AddrsOf(code)) ELSE <<>>
  /\ clock' = clock + Len(code)

\* The CPU waits for the beam: the board ticks and nothing is accessed.
Ticked(n) ==
  LET after[i \in 0 .. n] == IF i = 0 THEN cart ELSE Tick(after[i - 1])
  IN after[n]

Stall(n) ==
  /\ cart.kind \notin {"DPC", "AR"}
  /\ clock + n <= MaxClock[cart.kind]
  /\ cart' = Ticked(n)
  /\ last' = [code |-> <<>>, bytes |-> <<>>]
  /\ clock' = clock + n
  /\ UNCHANGED <<riot, trail>>

CoprocessorNext ==
  \/ \E code \in Programs[cart.kind] : Execute(code)
  \/ \E n \in Stalls : Stall(n)

CoprocessorSpec == CoprocessorInit /\ [][CoprocessorNext]_coprocessorVars

------------------------------------------------------------------------------
(* Properties.                                                             *)

\* Whatever a DPC program reads and writes, its random number never reaches
\* the one value that its shift register cannot leave.
RandomNeverSticks == cart.kind = "DPC" => cart.random # 255

\* A cell of the Supercharger's RAM changes only by an access five accesses
\* after one that held the byte it gets, or by a load; and no access changes
\* the BIOS.
Loads == \E i \in DOMAIN last'.code : last'.code[i].addr = FastLoad
TapeWrites ==
  [][cart.kind = "AR" =>
       /\ \A i \in DOMAIN cart'.ram : i < Bios * BankSize
       /\ ~ Loads => \A i \in DOMAIN cart'.ram :
            ArCell(cart.ram, i) # cart'.ram[i] =>
              LET held == trail \o AddrsOf(last'.code)
              IN \E j \in 6 .. Len(held) :
                   /\ held[j] % BankSize = i % BankSize
                   /\ Selected(held[j - 5])
                   /\ (held[j - 5] \div 256) % 16 = 0
                   /\ Lo(held[j - 5]) = cart'.ram[i]]_coprocessorVars

\* Fetchers lose nothing.  A fractional fetcher's pointer and fraction, taken as
\* one number, grow by its increment at each of its reads; a music fetcher's
\* count grows by its frequency once in every 59 cycles, over any mix of
\* accesses and stalls, unless the program or the ARM sets it in between.
FracAt(f) == (f.hi * 256 + f.low) * 256 + f.count
FracTurn == 16 * 256 * 256
ReadsOf(code, i) == Cardinality({j \in DOMAIN code : code[j].op = "read" /\ code[j].addr = \h1018 + i})
Sets(code) == \E j \in DOMAIN code : code[j].op = "write"
Periods(c) == c \div MusicDivide
FetchersExact ==
  [][(cart.kind = "DPC+" \/ IsCdf(cart)) /\ ~ Sets(last'.code) =>
       /\ cart.kind = "DPC+" /\ ~ cart.fast =>
            \A i \in 0 .. 7 :
              FracAt(cart'.frac[i]) =
                (FracAt(cart.frac[i]) + ReadsOf(last'.code, i) * cart.frac[i].increment) % FracTurn
       /\ \A m \in 0 .. 2 :
            cart'.music[m].count =
              (cart.music[m].count + (Periods(clock') - Periods(clock)) * cart.music[m].freq)
                % (IF cart.kind = "DPC+" THEN 32 ELSE 4096)]_coprocessorVars

\* A JMP whose operand names a stream goes where the stream's next two bytes
\* say, and no other instruction moves a stream of jump targets, whatever
\* bytes its operands and data happen to be.
IsJump(code) == Len(code) = 3 /\ code = JumpTo(code[1].addr) /\ CodeAt(code[1].addr) = \h4C
Streams == {Jump, Jump + 1}
FastJump ==
  [][IsCdf(cart) /\ cart.fast /\ cart.bank \in {0, 1} /\ last'.code # <<>> /\ ~ Sets(last'.code) =>
       LET named  == CodeAt(last'.code[1].addr + 1)
           version == Version(cart.kind)
           at(s, n) == (Index(cart, s) + n) % version.indices
           taken == IsJump(last'.code) /\ named \in version.jumpLows
       IN /\ LET s == Jump + named
             IN taken /\ at(s, 1) < version.dataSize =>
                  /\ SubSeq(last'.bytes, 2, 3) =
                       <<Cells(cart.data, at(s, 0)), Cells(cart.data, at(s, 1))>>
                  /\ Index(cart', s) = at(s, 2)
          /\ \A s \in Streams : ~ (taken /\ s = Jump + named) =>
               Index(cart', s) = at(s, 0)]_coprocessorVars

==============================================================================
