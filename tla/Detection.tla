----------------------------- MODULE Detection -----------------------------
(***************************************************************************)
(* detect() of crates/rusty2600-cart/src/lib.rs: which board an image is   *)
(* given.  An image is its size and its marks, the signatures found in its *)
(* bytes.  A mark carries the name of the scheme that looks for it:        *)
(*                                                                         *)
(*   "SC"           every bank's first 128 bytes are repeated in the next  *)
(*   "3F", "3E"     STA $3F at least twice, STA $3E at least once          *)
(*   "F8"           STA $1FF9 (or $FFF9) at least twice                    *)
(*   "xF", "xFSC"   the letters of the EF, DF and BF family near the end   *)
(*   "EFop"         an access to EF's first hotspot                        *)
(*   "CDF0", "CDF1" the CDF driver's name with that version byte, twice    *)
(*   the others     one of the scheme's hotspot instructions, or its name  *)
(***************************************************************************)
EXTENDS Boards

LoadSize == 8448        \* one load of a Supercharger tape

Marks == {"SC", "3F", "3E", "F8", "CV", "E7", "E0", "UA", "FE", "0840", "4A50", "X07",
          "EF", "EFSC", "DF", "DFSC", "BF", "BFSC", "EFop",
          "DPC+", "CDF0", "CDF1", "CDFJ", "CDFJ+"}

\* A test and the board it selects: all of has, none of lacks.
If(has, kind) == [has |-> has, lacks |-> {}, kind |-> kind]
Unless(has, lacks, kind) == [has |-> has, lacks |-> lacks, kind |-> kind]
Else(kind) == If({}, kind)

If3E == If({"3E", "3F"}, "3E")      \* is_probably_3e asks for STA $3F too
If3F == If({"3F"}, "3F")

Chain2K == <<If({"CV"}, "CV"), Else("2K")>>
Chain4K == <<If({"CV"}, "CV"), Else("4K")>>
Chain8K == <<If({"SC"}, "F8SC"), If({"E0"}, "E0"), If3E, If3F, If({"UA"}, "UA"),
             Unless({"FE"}, {"F8"}, "FE"), If({"0840"}, "0840"), Else("F8")>>
Chain16K == <<If({"E7"}, "E7"), If({"SC"}, "F6SC"), Else("F6")>>
Chain32K == <<If({"SC"}, "F4SC"), If3E, If3F, Else("F4")>>
\* The EF, DF and BF boards: "xFxF" is looked for first, then "xFSC".
Chain64K == <<If3E, If3F, If({"4A50"}, "4A50"), If({"EF"}, "EF"), If({"EFSC"}, "EFSC"),
              If({"EFop"}, "EF"), If({"X07"}, "X07"), Else("F0")>>
BugChain128K == <<If3F, If3E, If({"DF"}, "DF"), If({"DFSC"}, "DFSC"), If({"4A50"}, "4A50"), Else("SB")>>
Chain128K == <<If3E, If({"DF"}, "DF"), If({"DFSC"}, "DFSC"), If3F, If({"4A50"}, "4A50"), Else("SB")>>
Chain256K == <<If3E, If({"BF"}, "BF"), If({"BFSC"}, "BFSC"), If3F, Else("SB")>>

Chain(size) ==
  CASE size = 2 * K   -> Chain2K
    [] size = 4 * K   -> Chain4K
    [] size = 8 * K   -> Chain8K
    [] size \in 10 * K .. 10 * K + 256 -> <<Else("DPC")>>
    [] size = 12 * K  -> <<Else("FA")>>
    [] size = 16 * K  -> Chain16K
    [] size = 32 * K  -> Chain32K
    [] size = 64 * K  -> Chain64K
    [] size = 128 * K -> Chain128K
    [] size = 256 * K -> Chain256K
    [] OTHER          -> <<Else("none")>>

Matches(test, marks) == test.has \subseteq marks /\ test.lacks \cap marks = {}
FirstMatch(chain, marks) ==
  chain[CHOOSE i \in DOMAIN chain :
          /\ Matches(chain[i], marks)
          /\ \A j \in 1 .. i - 1 : ~ Matches(chain[j], marks)].kind

\* BankDpcPlus::new: 8K of driver, data and frequencies around 1 to 8 banks.
DpcPlusTakes(size) == (size - 8 * K) % (4 * K) = 0 /\ (size - 8 * K) \div (4 * K) \in 1 .. 8

\* fingerprint_cdf, and BankCdf::new: seven banks behind a driver of 2K and,
\* before CDFJ+, 2K of the program's own.
CdfKind(marks) ==
  IF "CDFJ+" \in marks THEN "CDFJ+"
  ELSE IF "CDFJ" \in marks THEN "CDFJ"
  ELSE IF "CDF0" \in marks THEN "CDF0"
  ELSE IF "CDF1" \in marks THEN "CDF1"
  ELSE "none"
CdfTakes(kind, size) == size >= 2 * K + 28 * K + IF kind = "CDFJ+" THEN 0 ELSE 2 * K


Detect(image) ==
  LET cdf == CdfKind(image.marks)
  IN IF image.size % LoadSize = 0 /\ image.size \div LoadSize \in 1 .. 32 THEN "AR"
     ELSE IF "DPC+" \in image.marks /\ DpcPlusTakes(image.size) THEN "DPC+"
     ELSE IF cdf # "none" /\ CdfTakes(cdf, image.size) THEN cdf
     ELSE FirstMatch(Chain(image.size), image.marks)

\* What each board's new() takes, for all boards of the enum Cartridge.
Takes(kind, size) ==
  CASE kind = "AR"   -> size % LoadSize = 0 /\ size \div LoadSize \in 1 .. 32
    [] kind = "DPC"  -> size >= 10 * K
    [] kind = "DPC+" -> DpcPlusTakes(size)
    [] kind \in {"CDF0", "CDF1", "CDFJ", "CDFJ+"} -> CdfTakes(kind, size)
    [] OTHER -> Fits(kind, size)

==============================================================================
