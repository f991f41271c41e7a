-------------------------------- MODULE Tia --------------------------------
(***************************************************************************)
(* The TIA's objects, collision latches, sound channels and paddle inputs  *)
(* (crates/rusty2600-tia), one color clock at a time; the beam's registers *)
(* that stall the CPU are in Lockstep.  A program is what the console may  *)
(* do at a clock: write a register, read INPT0 to INPT3, or be given a     *)
(* paddle's position; at most one of these per clock.                      *)
(*                                                                         *)
(* A byte register that is only taken apart is kept as the number it is; a *)
(* flag register is a Boolean; the playfield's parts and the collision     *)
(* registers are the sets of their bits that are on.  The voltage of a paddle's capacitor is kept as *)
(* how far it has come: it rises by Rate(position) each clock, and falls   *)
(* by Drain each clock while it is dumped; INPT turns over at Threshold.   *)
(* The code's curves are exponentials, one rising and one falling: within  *)
(* each of the two, stretches of time add up as the straight lines' do,    *)
(* which is what lets the code bring the charge up to date only now and    *)
(* then.  Which shade a color register holds is left out: color is the     *)
(* register's index.                                                       *)
(***************************************************************************)
EXTENDS FiniteSets, Bytes

CONSTANTS Programs,       \* what the console runs
          Begin(_),       \* the TIA when a program begins: [obj, clock, line, channel]
          Offers(_, _),   \* what a program may do at a clock: <<what, where, value>>
          End(_),         \* the last clock of a program
          Rate(_), Drain, Threshold

VARIABLES program,
          now,            \* paddle_clock
          clock, line,    \* color_clock and scanline
          obj,            \* objects: the registers, pf as PF0, PF1 and PF2
          asked,          \* the bytes last written to PF0, PF1 and PF2
          cx,             \* collisions: the bits that are on, as <<register, bit>>
          color, tag,     \* current_color and current_object_tag
          channels,       \* audio.channels
          sound,          \* the last mixed sample that was pushed
          paddles,        \* AnalogPaddle: [level, position, last, dumped]
          busy,           \* the clock of the last access
          seen,           \* the columns that each object has lit on this line
          quiet,          \* no register was written since the line began
          level,          \* a paddle's charge, brought up to date at every clock
          tone            \* a channel since its output last changed: [clocks, freq, mode]

objVars   == <<obj, cx, asked>>
picture   == <<clock, line, color, tag, seen, quiet>>
audio     == <<channels, sound, tone>>
inputs    == <<paddles, level>>
tiaVars == <<program, now, busy, objVars, picture, audio, inputs>>

LineClocks == 228
Hblank == 68
Black == -1
Columns == 160
DrawnLines == 300
Things == {"PF", "BL", "P0", "P1", "M0", "M1"}
BitOf(v, i) == Bit(v, i) = 1

\* The registers of the objects, and a sound channel.
Objects ==
  [pf : [0 .. 2 -> SUBSET (0 .. 7)], grp : [0 .. 1 -> 0 .. 255], oldgrp : [0 .. 1 -> 0 .. 255],
   nusiz : [0 .. 1 -> 0 .. 255], pos : [0 .. 4 -> 0 .. Columns - 1], hm : [0 .. 4 -> -8 .. 7],
   ctrlpf : 0 .. 255, refp : [0 .. 1 -> BOOLEAN], enam : [0 .. 1 -> BOOLEAN], enabl : BOOLEAN,
   vdelp : [0 .. 1 -> BOOLEAN], resmp : [0 .. 1 -> BOOLEAN]]
Channel ==
  [control : 0 .. 255, freq : 0 .. 31, volume : 0 .. 15, divider : 0 .. 31, output : 0 .. 1,
   poly4 : 0 .. 15, poly5 : 0 .. 31, prescale : 0 .. 341]

\* What the code's types and its list of registers allow an access to say.
Where(reg) ==
  CASE reg \in {"NUSIZ", "REFP", "GRP", "ENAM", "VDELP", "RESMP", "AUDC", "AUDF", "AUDV"} -> 0 .. 1
    [] reg = "PF" -> 0 .. 2
    [] reg \in {"INPT", "paddle"} -> 0 .. 3
    [] reg \in {"RES", "HM"} -> 0 .. 4
    [] OTHER -> {0}
RatesFit == \A v \in 0 .. 255 : Rate(v) \in Nat
BeginFits(b) ==
  /\ b.obj \in Objects
  /\ b.clock \in Nat /\ b.clock < LineClocks /\ b.line \in Nat /\ b.line < 65536
  /\ b.channel \in [0 .. 1 -> Channel]
  /\ \A i \in 0 .. 1 : b.channel[i].divider = 0 /\ b.channel[i].prescale = 0
AccessFits(a) == a[2] \in Where(a[1]) /\ a[3] \in 0 .. 255
ProgramFits(p) ==
  /\ BeginFits(Begin(p))
  /\ End(p) \in Nat
  /\ \A t \in 0 .. End(p) - 1 : \A a \in Offers(p, t) : AccessFits(a)
TiaAssumption ==
  /\ Drain \in Nat \ {0} /\ Threshold \in Nat
  /\ RatesFit
  /\ \A p \in Programs : ProgramFits(p)

------------------------------------------------------------------------------
(* render_pixel: what is lit at column x.                                  *)

PlayfieldColumn(o, x) ==
  LET i == x \div 4
  IN IF i < 20 THEN i ELSE IF BitOf(o.ctrlpf, 0) THEN 39 - i ELSE i - 20
Playfield(o, x) ==
  LET i == PlayfieldColumn(o, x)
  IN CASE i \in 0 .. 3   -> 4 + i \in o.pf[0]
       [] i \in 4 .. 11  -> 11 - i \in o.pf[1]
       [] i \in 12 .. 19 -> i - 12 \in o.pf[2]

Copies(nusiz) == <<{0}, {0, 16}, {0, 32}, {0, 16, 32}, {0, 64}, {0}, {0, 32, 64}, {0}>>[(nusiz % 8) + 1]
Scale(nusiz) == CASE nusiz % 8 = 5 -> 2 [] nusiz % 8 = 7 -> 4 [] nusiz % 8 \notin {5, 7} -> 1
\* A missile's width, from NUSIZ, and the ball's, from CTRLPF.
Size(v) == <<1, 2, 4, 8>>[((v \div 16) % 4) + 1]

\* How far x is into one of the copies that begin at pos: the offsets below width.
Diff(x, pos) == (x + Columns - pos) % Columns
BugInto(x, pos, nusiz, width) == {x - pos - start : start \in Copies(nusiz)} \cap 0 .. width - 1
Into(x, pos, nusiz, width) == {Diff(x, pos) - start : start \in Copies(nusiz)} \cap 0 .. width - 1

Ball(o, x) == o.enabl /\ Diff(x, o.pos[4]) < Size(o.ctrlpf)
Graphics(o, i) == IF o.vdelp[i] THEN o.oldgrp[i] ELSE o.grp[i]
Player(o, i, x) ==
  \E offset \in Into(x, o.pos[i], o.nusiz[i], 8 * Scale(o.nusiz[i])) :
    LET k == offset \div Scale(o.nusiz[i])
    IN BitOf(Graphics(o, i), IF o.refp[i] THEN k ELSE 7 - k)
Missile(o, i, x) ==
  /\ o.enam[i] /\ ~ o.resmp[i]
  /\ Into(x, o.pos[2 + i], o.nusiz[i], Size(o.nusiz[i])) # {}

Lit(o, x) ==
  {t \in Things : \/ t = "PF" /\ Playfield(o, x)
                  \/ t = "BL" /\ Ball(o, x)
                  \/ t = "P0" /\ Player(o, 0, x)
                  \/ t = "P1" /\ Player(o, 1, x)
                  \/ t = "M0" /\ Missile(o, 0, x)
                  \/ t = "M1" /\ Missile(o, 1, x)}

\* The latches that a dot turns on.
LatchOf ==
  [l \in {"CXM0P", "CXM1P", "CXP0FB", "CXP1FB", "CXM0FB", "CXM1FB", "CXBLPF", "CXPPMM"} \X {7, 6}
     \ {<<"CXBLPF", 6>>} |->
   CASE l = <<"CXM0P", 7>>  -> {"M0", "P1"}  [] l = <<"CXM0P", 6>>  -> {"M0", "P0"}
     [] l = <<"CXM1P", 7>>  -> {"M1", "P0"}  [] l = <<"CXM1P", 6>>  -> {"M1", "P1"}
     [] l = <<"CXP0FB", 7>> -> {"P0", "PF"}  [] l = <<"CXP0FB", 6>> -> {"P0", "BL"}
     [] l = <<"CXP1FB", 7>> -> {"P1", "PF"}  [] l = <<"CXP1FB", 6>> -> {"P1", "BL"}
     [] l = <<"CXM0FB", 7>> -> {"M0", "PF"}  [] l = <<"CXM0FB", 6>> -> {"M0", "BL"}
     [] l = <<"CXM1FB", 7>> -> {"M1", "PF"}  [] l = <<"CXM1FB", 6>> -> {"M1", "BL"}
     [] l = <<"CXBLPF", 7>> -> {"BL", "PF"}
     [] l = <<"CXPPMM", 7>> -> {"P0", "P1"}  [] l = <<"CXPPMM", 6>> -> {"M0", "M1"}]
Collide(lit) == {l \in DOMAIN LatchOf : LatchOf[l] \subseteq lit}

\* The color register that shows, by CTRLPF's priority and score bits.
FieldColor(o, lit, x) ==
  IF "PF" \notin lit THEN 2 ELSE IF BitOf(o.ctrlpf, 1) THEN (IF x < Columns \div 2 THEN 0 ELSE 1) ELSE 2
Color(o, lit, x) ==
  LET field == lit \cap {"PF", "BL"} # {}
  IN IF BitOf(o.ctrlpf, 2) /\ field THEN FieldColor(o, lit, x)
     ELSE IF lit \cap {"P0", "M0"} # {} THEN 0
     ELSE IF lit \cap {"P1", "M1"} # {} THEN 1
     ELSE IF field THEN FieldColor(o, lit, x)
     ELSE 3

\* The object that the sprite packs are told of, in its own chain of choices.
Choose(lit, order) ==
  IF lit = {} THEN "BK" ELSE order[CHOOSE i \in 1 .. 6 : order[i] \in lit /\ \A j \in 1 .. i - 1 : order[j] \notin lit]
BugTag(o, lit) ==
  IF BitOf(o.ctrlpf, 2) THEN Choose(lit, <<"BL", "PF", "P0", "M0", "P1", "M1">>)
  ELSE Choose(lit, <<"P0", "M0", "P1", "M1", "PF", "BL">>)
Tag(o, lit) ==
  IF BitOf(o.ctrlpf, 2) THEN Choose(lit, <<"PF", "BL", "P0", "M0", "P1", "M1">>)
  ELSE Choose(lit, <<"P0", "M0", "P1", "M1", "PF", "BL">>)

------------------------------------------------------------------------------
(* Channel::tick.                                                          *)

Differ(p, q) == IF p # q THEN 1 ELSE 0
Shifted(v, in, size) == (2 * v + in) % size
In5(c) == Differ(BitOf(c.poly5, 4), BitOf(c.poly5, 3))
In4(c) == Differ(BitOf(c.poly4, 3), BitOf(c.poly4, 2))
Step5(c) == [c EXCEPT !.poly5 = Shifted(@, In5(c), 32)]
Step4(c) == [c EXCEPT !.poly4 = Shifted(@, In4(c), 16)]
Out4(c) == [c EXCEPT !.output = c.poly4 % 2]
Out5(c) == [c EXCEPT !.output = c.poly5 % 2]
Flip(c) == [c EXCEPT !.output = 1 - @]

Waveform(c) ==
  LET mode == c.control % 16
      next5 == Step5(c)
  IN CASE mode \in {0, 11} -> [c EXCEPT !.output = 1]
       [] mode = 1 -> Out4(Step4(c))
       [] mode = 2 -> Out4(IF next5.poly5 % 2 = 1 THEN Step4(next5) ELSE next5)
       [] mode = 3 -> Out4([next5 EXCEPT !.poly4 = Shifted(@, (In4(c) + next5.poly5) % 2, 16)])
       [] mode \in {4, 5, 12, 13} -> Flip(c)
       [] mode \in {6, 9, 10, 14} -> Out5(next5)
       [] mode \in {7, 15} -> IF next5.poly5 % 2 = 1 THEN Flip(next5) ELSE next5
       [] mode = 8 -> LET noise == [c EXCEPT !.poly5 = Shifted(@, Differ(BitOf(c.poly5, 4), BitOf(c.poly4, 3)), 32)]
                      IN Out4([noise EXCEPT !.poly4 = Shifted(@, noise.poly5 % 2, 16)])

Prescale(c) == IF c.control % 16 >= 12 THEN 342 ELSE 114
BugTickChannel(c) ==
  IF c.prescale + 1 < Prescale(c) THEN [c EXCEPT !.prescale = @ + 1]
  ELSE IF c.divider <= 1 THEN Waveform([c EXCEPT !.prescale = 0, !.divider = c.freq])
  ELSE [c EXCEPT !.prescale = 0, !.divider = @ - 1]
TickChannel(c) ==
  IF c.prescale + 1 < Prescale(c) THEN [c EXCEPT !.prescale = @ + 1]
  ELSE IF c.divider = 0 THEN Waveform([c EXCEPT !.prescale = 0, !.divider = c.freq])
  ELSE [c EXCEPT !.prescale = 0, !.divider = @ - 1]

Sample(cs) == cs[0].output * cs[0].volume + cs[1].output * cs[1].volume

------------------------------------------------------------------------------
(* AnalogPaddle.                                                           *)

Unplugged == -1
Rise(q, clocks) == IF q.position = Unplugged THEN 0 ELSE clocks * Rate(q.position)
Charged(q, clocks) ==
  IF q.dumped THEN (IF q.level > clocks * Drain THEN q.level - clocks * Drain ELSE 0)
  ELSE q.level + Rise(q, clocks)
UpdateCharge(q, t) == [q EXCEPT !.level = Charged(q, t - q.last), !.last = t]
BugSetPosition(q, position, t) == [q EXCEPT !.position = position]
SetPosition(q, position, t) == [UpdateCharge(q, t) EXCEPT !.position = position]
Vblank(q, value, t) == [UpdateCharge(q, t) EXCEPT !.dumped = BitOf(value, 7)]
Inpt(q, t) == ~ q.dumped /\ UpdateCharge(q, t).level > Threshold

------------------------------------------------------------------------------
(* write_register: the registers of the objects.                           *)

\* A strobe before the visible part of the line counts as one at its start.
ResolvePosition(delay) ==
  LET visible == IF clock > Hblank THEN clock - Hblank ELSE 0
  IN (visible + delay) % Columns
SignExtend4bit(v) == IF v \div 16 >= 8 THEN v \div 16 - 16 ELSE v \div 16
Moved(pos, hm) == (IF pos - hm < 0 THEN pos - hm + Columns ELSE pos - hm) % Columns

\* GRP0 and GRP1 each keep the other's byte for its delayed drawing.
Grp(o, i, v) == [o EXCEPT !.oldgrp[1 - i] = o.grp[1 - i], !.grp[i] = v]

\* The mask under a new PF0 covers the whole register, so its bits only ever
\* come on; PF1 and PF2 are replaced.
\* Registers that come in an array: where names the player, missile, ball (by
\* its index in pos and hm) or the part of the playfield.
WriteRegister(o, reg, i, v) ==
  CASE reg = "NUSIZ"  -> [o EXCEPT !.nusiz[i] = v]
    [] reg = "CTRLPF" -> [o EXCEPT !.ctrlpf = v]
    [] reg = "REFP"   -> [o EXCEPT !.refp[i] = BitOf(v, 3)]
    [] reg = "PF"     -> [o EXCEPT !.pf[i] = IF i = 0 THEN @ \cup (Bits(v, 8) \cap 4 .. 7) ELSE Bits(v, 8)]
    [] reg = "RES"    -> [o EXCEPT !.pos[i] = ResolvePosition(IF i < 2 THEN 5 ELSE 4)]
    [] reg = "GRP"    -> Grp(o, i, v)
    [] reg = "ENAM"   -> [o EXCEPT !.enam[i] = BitOf(v, 1)]
    [] reg = "ENABL"  -> [o EXCEPT !.enabl = BitOf(v, 1)]
    [] reg = "HM"     -> [o EXCEPT !.hm[i] = SignExtend4bit(v)]
    [] reg = "VDELP"  -> [o EXCEPT !.vdelp[i] = BitOf(v, 0)]
    [] reg = "RESMP"  -> [o EXCEPT !.resmp[i] = BitOf(v, 1)]
    [] reg = "HMOVE"  -> [o EXCEPT !.pos = [j \in DOMAIN @ |-> Moved(@[j], o.hm[j])]]
    [] reg = "HMCLR"  -> [o EXCEPT !.hm = [j \in DOMAIN @ |-> 0]]
ObjectRegisters == {"NUSIZ", "CTRLPF", "REFP", "PF", "RES", "GRP", "ENAM", "ENABL", "HM", "VDELP",
                    "RESMP", "HMOVE", "HMCLR"}

WriteChannel(c, reg, v) ==
  CASE reg = "AUDC" -> [c EXCEPT !.control = v]
    [] reg = "AUDF" -> [c EXCEPT !.freq = v % 32]
    [] reg = "AUDV" -> [c EXCEPT !.volume = v % 16]

------------------------------------------------------------------------------
(* Actions.                                                                *)

Running == now < End(program)
Offered(what) == {a \in Offers(program, now) : a[1] = what}

\* One access at most in a clock.
Access ==
  /\ Running
  /\ busy # now
  /\ busy' = now
  /\ UNCHANGED <<program, now>>

WriteObject ==
  /\ Access
  /\ \E reg \in ObjectRegisters : \E a \in Offered(reg) :
       /\ obj' = WriteRegister(obj, reg, a[2], a[3])
       /\ asked' = IF reg = "PF" THEN [asked EXCEPT ![a[2]] = Bits(a[3], 8)] ELSE asked
  /\ quiet' = FALSE
  /\ UNCHANGED <<cx, clock, line, color, tag, seen, audio, inputs>>

\* CXCLR.
ClearCollisions ==
  /\ Access
  /\ Offered("CXCLR") # {}
  /\ cx' = {}
  /\ quiet' = FALSE
  /\ UNCHANGED <<obj, asked, clock, line, color, tag, seen, audio, inputs>>

\* RSYNC: the line begins again.
Rsync ==
  /\ Access
  /\ Offered("RSYNC") # {}
  /\ clock' = 0
  /\ quiet' = FALSE
  /\ UNCHANGED <<objVars, line, color, tag, seen, audio, inputs>>

WriteAudio ==
  /\ Access
  /\ \E reg \in {"AUDC", "AUDF", "AUDV"} : \E a \in Offered(reg) :
       /\ channels' = [channels EXCEPT ![a[2]] = WriteChannel(@, reg, a[3])]
       /\ tone' = [tone EXCEPT ![a[2]].mode = IF reg = "AUDC" THEN -1 ELSE @]
  /\ UNCHANGED <<objVars, picture, sound, inputs>>

\* VBLANK: its top bit dumps the capacitors of all the paddles.
WriteVblank ==
  /\ Access
  /\ \E a \in Offered("VBLANK") : paddles' = [i \in DOMAIN paddles |-> Vblank(paddles[i], a[3], now)]
  /\ UNCHANGED <<objVars, picture, audio, level>>

\* cpu_read of INPT0 to INPT3.
ReadInpt ==
  /\ Access
  /\ \E a \in Offered("INPT") : paddles' = [paddles EXCEPT ![a[2]] = UpdateCharge(@, now)]
  /\ UNCHANGED <<objVars, picture, audio, level>>

SetPaddlePosition ==
  /\ Access
  /\ \E a \in Offered("paddle") : paddles' = [paddles EXCEPT ![a[2]] = SetPosition(@, a[3], now)]
  /\ UNCHANGED <<objVars, picture, audio, level>>

Wraps == clock + 1 >= LineClocks
Clock == IF Wraps THEN 0 ELSE clock + 1
Line == IF Wraps THEN (line + 1) % 65536 ELSE line

RenderPixel ==
  IF Clock < Hblank \/ Line >= DrawnLines
  THEN /\ color' = Black
       /\ tag' = "BK"
       /\ seen' = IF Wraps THEN [t \in Things |-> {}] ELSE seen
       /\ UNCHANGED cx
  ELSE LET x   == Clock - Hblank
           lit == Lit(obj, x)
       IN /\ color' = Color(obj, lit, x)
          /\ tag' = Tag(obj, lit)
          /\ seen' = [t \in Things |-> IF t \in lit THEN seen[t] \cup {x} ELSE seen[t]]
          /\ cx' = cx \cup Collide(lit)

\* tick_color_clock.
TickColorClock ==
  /\ Running
  /\ now' = now + 1
  /\ clock' = Clock
  /\ line' = Line
  /\ RenderPixel
  /\ quiet' = (Wraps \/ quiet)
  /\ channels' = [i \in 0 .. 1 |-> TickChannel(channels[i])]
  /\ sound' = IF Clock \in {114, 227} THEN Sample(channels') ELSE sound
  /\ tone' = [i \in 0 .. 1 |->
                IF channels'[i].output # channels[i].output
                THEN [clocks |-> 0, freq |-> channels'[i].freq, mode |-> channels'[i].control % 16]
                ELSE [tone[i] EXCEPT !.clocks = @ + 1]]
  /\ level' = [i \in DOMAIN level |-> Charged([paddles[i] EXCEPT !.level = level[i]], 1)]
  /\ UNCHANGED <<program, busy, obj, asked, paddles>>

TiaInit ==
  /\ program \in Programs
  /\ obj = Begin(program).obj
  /\ asked = obj.pf
  /\ clock = Begin(program).clock
  /\ line = Begin(program).line
  /\ channels = Begin(program).channel
  /\ now = 0 /\ busy = -1
  /\ cx = {} /\ color = Black /\ tag = "BK" /\ sound = 0
  /\ paddles = [i \in 0 .. 3 |-> [level |-> 0, position |-> Unplugged, last |-> 0, dumped |-> FALSE]]
  /\ seen = [t \in Things |-> {}]
  /\ quiet = FALSE
  /\ level = [i \in 0 .. 3 |-> 0]
  /\ tone = [i \in 0 .. 1 |-> [clocks |-> 0, freq |-> 0, mode |-> channels[i].control % 16]]

TiaNext ==
  \/ TickColorClock
  \/ WriteObject \/ ClearCollisions \/ Rsync \/ WriteAudio \/ WriteVblank
  \/ ReadInpt \/ SetPaddlePosition

TiaSpec == TiaInit /\ [][TiaNext]_tiaVars

------------------------------------------------------------------------------
(* Properties.                                                             *)

\* The columns that an object covers, by where it is and not by where the beam
\* is: copies that run over the right edge come in again at the left.
Spread(pos, nusiz, width) == {(pos + start + k) % Columns : start \in Copies(nusiz), k \in 0 .. width - 1}
PlayerColumns(o, i) ==
  UNION {Spread(o.pos[i] + k * Scale(o.nusiz[i]), o.nusiz[i], Scale(o.nusiz[i])) :
           k \in {j \in 0 .. 7 : BitOf(Graphics(o, i), IF o.refp[i] THEN j ELSE 7 - j)}}
FieldColumns(o) ==
  LET half == [i \in 0 .. 19 |-> IF i < 4 THEN 4 + i \in o.pf[0]
                                 ELSE IF i < 12 THEN 11 - i \in o.pf[1] ELSE i - 12 \in o.pf[2]]
  IN {x \in 0 .. Columns - 1 : IF x < 80 THEN half[x \div 4]
                               ELSE half[IF BitOf(o.ctrlpf, 0) THEN (159 - x) \div 4 ELSE (x - 80) \div 4]}
Covers(o, t) ==
  CASE t = "PF" -> FieldColumns(o)
    [] t = "BL" -> IF o.enabl THEN Spread(o.pos[4], 0, Size(o.ctrlpf)) ELSE {}
    [] t \in {"P0", "P1"} -> PlayerColumns(o, IF t = "P0" THEN 0 ELSE 1)
    [] t \in {"M0", "M1"} ->
         LET i == IF t = "M0" THEN 0 ELSE 1
         IN IF o.enam[i] /\ ~ o.resmp[i] THEN Spread(o.pos[2 + i], o.nusiz[i], Size(o.nusiz[i])) ELSE {}

\* A line on which nothing is written shows every object whole, wherever strobes
\* and HMOVE have put it and at whatever edge, and two objects collide on it
\* exactly when their columns meet: after such a line, their latch is on.
LineWhole ==
  quiet /\ clock = LineClocks - 1 /\ line < DrawnLines =>
    /\ \A t \in Things : seen[t] = Covers(obj, t)
    /\ \A l \in DOMAIN LatchOf :
         (\A s, t \in LatchOf[l] : s # t => Covers(obj, s) \cap Covers(obj, t) # {}) => l \in cx

\* When a dot is drawn, the object the sprite packs are told of is one whose color
\* it is, whatever overlaps, in either priority and in score mode.
TagIsDrawn ==
  [][now' # now /\ color' # Black =>
       color' \in CASE tag' = "BK" -> {3} [] tag' \in {"P0", "M0"} -> {0} [] tag' \in {"P1", "M1"} -> {1}
                    [] tag' = "BL" -> {2}
                    [] tag' = "PF" -> IF BitOf(obj.ctrlpf, 1) THEN {IF clock' - Hblank < 80 THEN 0 ELSE 1}
                                      ELSE {2}]_tiaVars

\* A pure tone's output changes after exactly so many clocks as the frequency
\* says that was in the register at its last change, however often AUDF is
\* written in between.
Pure == {4, 5, 12, 13}
TonePeriod ==
  [][\A i \in 0 .. 1 :
       channels'[i].output # channels[i].output /\ tone[i].mode \in Pure
         => tone[i].clocks + 1 = Prescale(channels[i]) * (tone[i].freq + 1)]_tiaVars

\* INPT0 to INPT3 show what a capacitor charged at every clock would show, though
\* the code looks at the clock only at a read, a VBLANK write or a new position:
\* reading often, or being told the same position twice, changes nothing.
PaddleExact ==
  \A i \in 0 .. 3 : Inpt(paddles[i], now) <=> (~ paddles[i].dumped /\ level[i] > Threshold)

\* docs/tia.md: "The playfield can be rewritten mid-line"; what is drawn is what
\* was written last.
FieldAsWritten == FieldColumns(obj) = FieldColumns([obj EXCEPT !.pf = asked])

==============================================================================
