------------------------------ MODULE MCConsole ------------------------------
(* The console's frame loop on a line of four CPU cycles, the plain boards,  *)
(* and those with a machine of their own, each alone, in one run; part says  *)
(* which.                                                                    *)
EXTENDS Lockstep, Cartridge, Coprocessor, TLC

VARIABLE part       \* the part that runs

------------------------------------------------------------------------------
(* One image for every scheme, images with the marks of two schemes, and   *)
(* the addresses at which the boards divide the address space.             *)

Im(kib, marks) == [size |-> kib * K, marks |-> marks]
MCImages ==
  {Im(2, {}), Im(2, {"CV"}), Im(4, {}), Im(4, {"CV"}), Im(10, {}), Im(12, {}),
   Im(8, {}), Im(8, {"SC"}), Im(8, {"E0"}), Im(8, {"3F"}), Im(8, {"3E", "3F"}), Im(8, {"3E"}),
   Im(8, {"UA"}), Im(8, {"FE"}), Im(8, {"FE", "F8"}), Im(8, {"0840"}), Im(16, {}),
   Im(16, {"E7", "SC"}), Im(16, {"SC"}), Im(32, {}), Im(32, {"SC"}), Im(32, {"3F"}),
   Im(32, {"DPC+"}), Im(32, {"CDF1"}), Im(32, {"CDFJ"}), Im(8, {"CDFJ"}), Im(9, {"DPC+"}),
   Im(64, {}), Im(64, {"EF"}), Im(64, {"EFSC"}), Im(64, {"EFop"}), Im(64, {"X07"}),
   Im(64, {"4A50"}), Im(128, {}), Im(128, {"3E", "3F"}), Im(128, {"DF"}), Im(128, {"DFSC"}),
   Im(128, {"3F", "4A50"}), Im(256, {}), Im(256, {"BF"}), Im(256, {"BFSC"}),
   Im(256, {"3E", "3F"}), [size |-> LoadSize, marks |-> {}],
   [size |-> 4 * LoadSize, marks |-> {"CDFJ"}]}

MCAddresses == [kind \in Plain |->
  {\h1000, \h10FF, \h003E, \h01FE} \cup
  CASE HasRun(kind) -> {\h1080, \h1F7F, \h1F80, \h1FBF, \h1FC0, \h1FDF, \h1FE0, \h1FEF, \h1FF0,
                        \h1FF4, \h1FF7, \h1FF8, \h1FF9, \h1FFA, \h1FFB, \h1FFC}
    [] kind = "E7" -> {\h1400, \h1800, \h1900, \h1FE0, \h1FE6, \h1FE7, \h1FE8, \h1FEB, \h1FEC}
    [] kind = "E0" -> {\h1400, \h1FE0, \h1FE7, \h1FE8, \h1FED, \h1FF0, \h1FF3, \h1FF8}
    [] kind = "F0" -> {\h1FEF, \h1FF0, \h1FF1}
    [] kind \in {"3F", "3E"} -> {\h1400, \h1800, \h003F, \h013F, \h1FFC}
    [] kind = "4A50" -> {\h1800, \h1E05, \h1F70, \h0074, \h0075, \h0078, \h04D2,
                         \h09FF, \h0E1F, \h0E4F, \h0F41}
    [] OTHER -> {\h1400, \h1800, \h0220, \h0240, \h0800, \h0840, \h08ED, \h08ED, \h0FFF}]
MCValues == {0, \h4F, \hFF}

------------------------------------------------------------------------------
(* A board of each kind with a machine; programs of a few instructions.    *)

\* Two jumps to a stream, loads of a stream and of the amplitude, loads whose
\* data are the bytes of those instructions, and a NOP.
MCCode ==
  \h1100 :> \h4C @@ \h1101 :> 0 @@ \h1102 :> 0 @@ \h1110 :> \h4C @@ \h1111 :> 1 @@ \h1112 :> 0
    @@ \h1120 :> \hA9 @@ \h1121 :> 0 @@ \h1130 :> \hAD @@ \h1131 :> 0 @@ \h1132 :> \h11
    @@ \h1140 :> \hEA @@ \h1141 :> \hEA @@ \h1150 :> \hA9 @@ \h1151 :> 35

NoCells == [i \in {} |-> 0]
Banked(offset) ==
  [i \in {offset + (a % 4096) + b : a \in DOMAIN MCCode, b \in {0, 4096}} |->
     LET a == \h1000 + ((i - offset) % 4096) IN IF a \in DOMAIN MCCode THEN MCCode[a] ELSE 0]
MCCdfBoard(kind, features) ==
  [NewCdf(kind, features, Banked(IF kind = "CDFJ+" THEN 0 ELSE 2048))
     EXCEPT !.data = 0 :> 17 @@ 1 :> 33 @@ 2 :> 65 @@ 3 :> 129, !.beats = 50]
MCTape == <<[number |-> 1, pages |-> <<0, 1>> :> 9 @@ <<3, 0>> :> 5 @@ <<2, 7>> :> 6,
             config |-> 28, startLow |-> 16, startHigh |-> \hF0]>>

MCMachines ==
  {[NewDpc EXCEPT !.random = r] : r \in {1, 127}}
    \cup {[NewDpcPlus(6, 0 :> 17, 4 :> 9) EXCEPT !.beats = 50]}
    \cup {MCCdfBoard("CDF1", NoFeatures), MCCdfBoard("CDFJ", NoFeatures),
          MCCdfBoard("CDFJ+", Features(TRUE, FALSE, 0))}
    \cup {NewAr(MCTape)}

Stored(addr, v) == [addr |-> addr, v |-> v]
Nowhere == Stored(2^29, 0)
MCCdfStores(kind) ==
  LET fetchers == Sram + Version(kind).fetchers
  IN <<Stored(fetchers + 4 * Jump, 256 * 4094), Stored(fetchers, 128),
       Stored(fetchers + 4 * Version(kind).streams, 384), Stored(Sram + 2048 + 3, 130)>>
MCCdfProgram(stores) == [stores |-> stores, call |-> "set_note", m |-> 1, v |-> 700]

\* A program that does what it is for, over the code too, and one with a fault.
MCArmRuns ==
  LET dpcPlus == <<Stored(Sram + 3072, 34), Stored(3072 + \h151, 24), Stored(Sram + 3072 + 4096 + 19, 80)>>
  IN {"DPC" :> <<>> @@ "AR" :> <<>> @@ "DPC+" :> [stores |-> dpcPlus]
        @@ [k \in CdfKinds |-> MCCdfProgram(MCCdfStores(k))],
      "DPC" :> <<>> @@ "AR" :> <<>> @@ "DPC+" :> [stores |-> <<Nowhere>> \o dpcPlus]
        @@ [k \in CdfKinds |-> MCCdfProgram(SubSeq(MCCdfStores(k), 1, 2) \o <<Nowhere>>)]}

At1(kind) == {Immediate(\h1120), JumpTo(\h1100), LoadAbs(\h1130, \h1100), Implied(\h1140)}
MCInstructions == [kind \in Kinds |->
  CASE kind = "DPC" ->
         {<<Rd(\h1000)>>, <<Rd(\h1004)>>, <<Rd(\h1010)>>, <<Rd(\h1038)>>, <<Wr(\h1040, 1)>>, <<Wr(\h1048, 0)>>,
          <<Wr(\h1050, 2)>>, <<Wr(\h1058, 16)>>, <<Rd(\h1FF8)>>, <<Wr(\h1070, 0)>>}
    [] kind = "DPC+" ->
         {LoadAbs(\h1140, \h1018), LoadAbs(\h1140, \h1000), LoadAbs(\h1140, \h1001), Immediate(\h1150),
          StoreAbs(\h1140, \h1038, 128), StoreAbs(\h1140, \h1038, 255), StoreAbs(\h1140, \h1018 + \h10, 255),
          StoreAbs(\h1140, \h1058, 0), StoreAbs(\h1140, \h1075, 4), StoreAbs(\h1140, \h105A, 255)}
    [] kind = "AR" ->
         {LoadAbs(\h1A00, \h101A), LoadAbs(\h1A00, \h1FF8), LoadAbs(\h1A00, \h1123), LoadX(\h1A00, \h1123),
          LoadX(\h1A00, \h1923), StoreZp(\h1A00, \h80, 1), LoadAbs(\h1A00, \h1850), Implied(\h1A00),
          Idiom(\h1A00, 7, \h1123)}
    [] OTHER ->
         At1(kind) \cup
         {JumpTo(\h1110), Immediate(\h1150), LoadAbs(\h1130, \h1120), LoadAbs(\h1130, \h1FF6),
          StoreAbs(\h1140, \h1FF2, 0), StoreAbs(\h1140, \h1FF3, 255), StoreAbs(\h1140, \h1FF0, 77)}]
MCStalls == {1, 9}
MCMaxClock == [kind \in Kinds |-> CASE kind = "DPC" -> 7 [] kind = "AR" -> 24 [] OTHER -> 66]

------------------------------------------------------------------------------

Nobody == cart = [kind |-> "none"] /\ last = <<>> /\ riot = <<>> /\ trail = <<>> /\ clock = 0

ConsoleInit ==
  /\ Init /\ CartridgeInit
  /\ \/ part = "loop" /\ Nobody
     \/ part = "board" /\ phase = 0 /\ Nobody
     \/ part = "machine" /\ phase = 0 /\ CoprocessorInit

ConsoleNext ==
  \/ part = "loop" /\ Next /\ UNCHANGED <<part, cartridgeVars, coprocessorVars>>
  \/ part = "board" /\ CartridgeNext /\ UNCHANGED <<part, vars, coprocessorVars>>
  \/ part = "machine" /\ CoprocessorNext /\ UNCHANGED <<part, vars, cartridgeVars>>

\* Only the loop has something to wait for.
InLoop(Action) == part = "loop" /\ Action /\ UNCHANGED part

ConsoleSpec ==
  /\ ConsoleInit
  /\ [][ConsoleNext]_<<part, vars, cartridgeVars, coprocessorVars>>
  /\ WF_<<part, vars>>(InLoop(Reset)) /\ WF_<<part, vars>>(InLoop(EndReset))
  /\ WF_<<part, vars>>(InLoop(StallCycle)) /\ WF_<<part, vars>>(InLoop(Cycle))
  /\ WF_<<part, vars>>(InLoop(BeginInstruction)) /\ WF_<<part, vars>>(InLoop(EndInstruction))
  /\ WF_<<part, vars>>(InLoop(JammedStep))
==============================================================================
