------------------------------ MODULE Accesses ------------------------------
(* Instructions of a program on a cartridge, as the accesses [op, addr, v] *)
(* that the CPU of crates/rusty2600-cpu makes for them from pc on.         *)
EXTENDS Integers, Sequences

BusAddrs == 0 .. \h1FFF
BusBytes == 0 .. 255
BusAccesses == [op : {"read", "write"}, addr : BusAddrs, v : BusBytes]
Rd(addr) == [op |-> "read", addr |-> addr, v |-> 0]
Wr(addr, v) == [op |-> "write", addr |-> addr, v |-> v]

Implied(pc) == <<Rd(pc), Rd(pc + 1)>>                       \* NOP: reads its successor too
Immediate(pc) == <<Rd(pc), Rd(pc + 1)>>
LoadAbs(pc, addr) == <<Rd(pc), Rd(pc + 1), Rd(pc + 2), Rd(addr)>>
LoadX(pc, addr) == <<Rd(pc), Rd(pc + 1), Rd(pc + 2), Rd(addr - 256), Rd(addr)>>   \* over a page
StoreAbs(pc, addr, v) == <<Rd(pc), Rd(pc + 1), Rd(pc + 2), Wr(addr, v)>>
StoreZp(pc, addr, v) == <<Rd(pc), Rd(pc + 1), Wr(addr, v)>>
JumpTo(pc) == <<Rd(pc), Rd(pc + 1), Rd(pc + 2)>>

\* What a tape program does to store v at addr: it holds v, waits and touches.
Idiom(pc, v, addr) == LoadAbs(pc, \h1000 + v) \o Implied(pc + 3) \o LoadAbs(pc + 4, addr)
==============================================================================
