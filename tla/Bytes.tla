-------------------------------- MODULE Bytes --------------------------------
(* Arithmetic on bytes and words as the code does it: modulo their width.  *)
EXTENDS Integers

Byte(v) == v % 256
Word(v) == v % 65536
Hi(w) == (w \div 256) % 256
Lo(w) == w % 256
Addr(lo, hi) == hi * 256 + lo
Inc(v) == (v + 1) % 256
Dec(v) == (v + 255) % 256
Offset(addr) == addr % 4096       \* in the window of a cartridge

Bit(v, i) == (v \div 2^i) % 2
Bits(v, w) == {i \in 0 .. w - 1 : Bit(v, i) = 1}
Flag(b) == IF b THEN 1 ELSE 0

\* The number whose bits are S; the bitwise operations on it.
OfBits(S, w) ==
  LET sum[i \in 0 .. w] == IF i = 0 THEN 0 ELSE sum[i - 1] + IF i - 1 \in S THEN 2^(i - 1) ELSE 0
  IN sum[w]
And(u, v) == OfBits(Bits(u, 8) \cap Bits(v, 8), 8)
Or(u, v) == OfBits(Bits(u, 8) \cup Bits(v, 8), 8)
Xor(u, v) == OfBits((Bits(u, 8) \ Bits(v, 8)) \cup (Bits(v, 8) \ Bits(u, 8)), 8)
==============================================================================
