--------------------------- MODULE RollbackProofs ----------------------------
(***************************************************************************)
(* The safety of a netplay game for any inputs, delay, window and length.  *)
(*                                                                         *)
(* AsIfKnown and RollbackReady speak of a peer between two redraws; a      *)
(* redraw takes one step per request.  Busy is the loop's invariant: the   *)
(* requests not yet served lead from the machine and the cells as they     *)
(* are to the game as it is known by now.  Resting adds to the two         *)
(* properties what the library's window rests on: how far a peer is ahead  *)
(* of what it has heard, and how many of its own inputs are registered.    *)
(***************************************************************************)
EXTENDS Rollback, SequenceTheorems, WellFoundedInduction, TLAPS

\* What has arrived has been sent.
NetOK ==
  /\ own \in [Peers -> Seq(Inputs)]
  /\ heard \in [Peers -> Nat]
  /\ \A p \in Peers : heard[p] <= Len(own[Other(p)])

\* The first n frames of the game as p knows it now, and one of them.
KnownGame(p, n) == Known(p, own[p], heard[p], gone[p], n)
Frame(p, f) == <<own[p][f], RemoteInput(p, heard[p], gone[p], f - 1)>>

\* A frame can be rolled back to, and so can every one before n that may be wrong.
Saved(p, f) == cells[p][Cell(f)] = [frame |-> f, machine |-> KnownGame(p, f)]
ReadyBelow(p, n) == ~ gone[p] => \A f \in heard[p] .. n - 1 : Saved(p, f)

\* rs plays frame n + 1 of a game, saves, and so on until c is saved; and plays k more.
AdvanceNext(game, rs, n, c, k) ==
  /\ Len(rs) = 2 * (c - n) + k
  /\ \A j \in Nat : 2 * j + 1 <= Len(rs) => rs[2 * j + 1] = Advance(game[n + j + 1])
  /\ \A j \in Nat : 2 * j + 2 <= Len(rs) => rs[2 * j + 2] = Save(n + j + 1)

\* The same, but frame n is to be saved first.
SaveNext(game, rs, n, c, k) ==
  /\ Len(rs) = 2 * (c - n) + k + 1
  /\ \A j \in Nat : 2 * j + 1 <= Len(rs) => rs[2 * j + 1] = Save(n + j)
  /\ \A j \in Nat : 2 * j + 2 <= Len(rs) => rs[2 * j + 2] = Advance(game[n + j + 1])

\* The same, but frame n is to be loaded first.
LoadNext(game, rs, n, c, k) ==
  /\ rs # <<>>
  /\ Head(rs) = Load(n)
  /\ AdvanceNext(game, Tail(rs), n, c, k)

\* Between two redraws.
Resting(p) ==
  \E c \in 0 .. MaxFrames :
    /\ Len(machine[p]) = c
    /\ (c = 0 /\ own[p] = <<>>) \/ Len(own[p]) \in {c + Delay, c + Delay + 1}
    /\ ~ gone[p] => c - heard[p] <= Window
    /\ machine[p] = KnownGame(p, c)
    /\ ReadyBelow(p, c)

\* In the loop of a redraw that found the machine at frame c, and plays k more.
Loading(p, c, k) ==
  \E n \in 0 .. c - 1 : /\ LoadNext(KnownGame(p, c + 1), requests[p], n, c, k)
                        /\ Saved(p, n)
                        /\ ReadyBelow(p, n)
Saving(p, c, k) ==
  \E n \in 0 .. c : /\ SaveNext(KnownGame(p, c + 1), requests[p], n, c, k)
                    /\ machine[p] = KnownGame(p, n)
                    /\ ReadyBelow(p, n)
Playing(p, c, k) ==
  \E n \in 0 .. c : /\ AdvanceNext(KnownGame(p, c + 1), requests[p], n, c, k)
                    /\ machine[p] = KnownGame(p, n)
                    /\ ReadyBelow(p, n + 1)
Played(p, c, k) ==
  /\ k = 1
  /\ requests[p] = <<>>
  /\ machine[p] = KnownGame(p, c + 1)
  /\ ReadyBelow(p, c + 1)
InWindow(p, c, k) ==
  /\ Len(own[p]) = c + Delay + 1
  /\ ~ gone[p] => c - heard[p] + k <= Window
Busy(p) ==
  \E c \in 0 .. MaxFrames - 1, k \in 0 .. 1 :
    /\ InWindow(p, c, k)
    /\ Loading(p, c, k) \/ Saving(p, c, k) \/ Playing(p, c, k) \/ Played(p, c, k)

IInv ==
  /\ TypeOK
  /\ \A p \in Peers : /\ phase[p] \in {"syncing", "running"} => Resting(p)
                      /\ phase[p] = "handling" => Busy(p)

------------------------------------------------------------------------------
(* The library's cells and the known game.                                 *)

\* A set of frames that is not empty has a first one.
LEMMA FirstFrame ==
  ASSUME NEW T \in SUBSET Nat, T # {}
  PROVE  \E x \in T : \A y \in T : x <= y
<1> DEFINE R == {ss \in Nat \X Nat : ss[1] < ss[2]}
<1>1. IsWellFoundedOn(R, Nat)
  BY NatLessThanWellFounded, Zenon DEF OpToRel
<1>2. \E x \in T : \A y \in T : ~ (<<y, x>> \in R)
  <2> HIDE DEF R
  <2> QED
    BY <1>1, WFMin, Zenon
<1>3. \A x, y \in Nat : ~ (<<y, x>> \in R) => x <= y
  OBVIOUS
<1> HIDE DEF R
<1> QED
  BY <1>2, <1>3

\* There are two peers.
LEMMA OtherFacts ==
  ASSUME NEW p \in Peers
  PROVE  /\ Other(p) \in Peers /\ Other(p) # p
         /\ \A q \in Peers : q # p => q = Other(p)
BY DEF Peers, Other

\* The frames of one window have cells of their own.
LEMMA CellFacts ==
  ASSUME NEW f \in Nat, NEW g \in Nat
  PROVE  /\ Cell(f) \in 0 .. Window
         /\ f < g /\ g - f <= Window => Cell(f) # Cell(g)
<1> DEFINE w == Window + 1
<1>1. w \in Nat /\ w > 0
  BY WindowAssumption
<1>2. Cell(f) = f % w /\ Cell(g) = g % w
  BY DEF Cell
<1> HIDE DEF w
<1>3. f % w \in 0 .. w - 1
  BY <1>1
<1>4. ASSUME f < g, g - f < w, f % w = g % w
      PROVE  FALSE
  <2>1. f = w * (f \div w) + (f % w) /\ g = w * (g \div w) + (g % w)
    BY <1>1
  <2>2. f \div w \in Int /\ g \div w \in Int
    BY <1>1
  <2> DEFINE d == (g \div w) - (f \div w)
  <2>3. g - f = w * d /\ d \in Int
    BY <2>1, <2>2, <1>1, <1>4
  <2> HIDE DEF d
  <2>4. d > 0
    BY <2>3, <1>1, <1>4
  <2>5. w * d >= w
    BY <2>3, <2>4, <1>1
  <2> QED
    BY <2>3, <2>5, <1>1, <1>4
<1>5. Cell(f) \in 0 .. Window
  BY <1>2, <1>3, WindowAssumption DEF w
<1>6. f < g /\ g - f <= Window => Cell(f) # Cell(g)
  <2>1. g - f <= Window => g - f < w
    BY WindowAssumption DEF w
  <2> QED
    BY <2>1, <1>2, <1>4
<1> QED
  BY <1>5, <1>6

\* A frame that both inputs are known or guessed for.
LEMMA FrameType ==
  ASSUME NetOK, NEW p \in Peers, NEW f \in 1 .. Len(own[p])
  PROVE  Frame(p, f) \in Inputs \X Inputs
<1>1. own[p] \in Seq(Inputs) /\ own[Other(p)] \in Seq(Inputs)
  BY OtherFacts DEF NetOK
<1>2. heard[p] \in Nat /\ heard[p] <= Len(own[Other(p)])
  BY DEF NetOK
<1>3. own[p][f] \in Inputs
  BY <1>1
<1>4. RemoteInput(p, heard[p], gone[p], f - 1) \in Inputs
  <2>1. f - 1 \in Nat
    BY <1>1
  <2>2. CASE f - 1 < heard[p]
    BY <1>1, <1>2, <2>1, <2>2 DEF RemoteInput
  <2>3. CASE ~ (f - 1 < heard[p])
    BY <1>1, <1>2, <2>1, <2>3, InputAssumption DEF RemoteInput
  <2> QED
    BY <2>2, <2>3
<1> QED
  BY <1>3, <1>4 DEF Frame

\* The known game is the sequence of its frames.
LEMMA KnownFacts ==
  ASSUME NetOK, NEW p \in Peers, NEW n \in Nat, n <= Len(own[p])
  PROVE  /\ KnownGame(p, n) \in Games
         /\ Len(KnownGame(p, n)) = n
         /\ \A f \in 1 .. n : KnownGame(p, n)[f] = Frame(p, f)
<1>1. KnownGame(p, n) = [f \in 1 .. n |-> Frame(p, f)]
  BY DEF KnownGame, Known, Frame
<1>2. own[p] \in Seq(Inputs)
  BY DEF NetOK
<1>3. \A f \in 1 .. n : f \in 1 .. Len(own[p])
  BY <1>2
<1>4. \A f \in 1 .. n : Frame(p, f) \in Inputs \X Inputs
  BY <1>3, FrameType
<1>5. KnownGame(p, n) \in [1 .. n -> Inputs \X Inputs]
  BY <1>1, <1>4
<1>6. KnownGame(p, n) \in Seq(Inputs \X Inputs)
  BY <1>5, SeqDef
<1> QED
  BY <1>1, <1>5, <1>6, LenProperties DEF Games

\* One frame more, and the frames before one.
LEMMA KnownGrows ==
  ASSUME NetOK, NEW p \in Peers, NEW n \in Nat, n + 1 <= Len(own[p])
  PROVE  Append(KnownGame(p, n), Frame(p, n + 1)) = KnownGame(p, n + 1)
<1>1. own[p] \in Seq(Inputs) /\ n <= Len(own[p])
  BY DEF NetOK
<1> DEFINE s == KnownGame(p, n)
           t == KnownGame(p, n + 1)
           x == Frame(p, n + 1)
<1>2. s \in Games /\ Len(s) = n /\ \A f \in 1 .. n : s[f] = Frame(p, f)
  BY <1>1, KnownFacts
<1>3. t \in Games /\ Len(t) = n + 1 /\ \A f \in 1 .. n + 1 : t[f] = Frame(p, f)
  BY <1>1, KnownFacts
<1>4. x \in Inputs \X Inputs
  BY <1>1, FrameType
<1> HIDE DEF s, t
<1>5. /\ Append(s, x) \in Games /\ Len(Append(s, x)) = n + 1
      /\ \A i \in 1 .. n : Append(s, x)[i] = s[i]
      /\ Append(s, x)[n + 1] = x
  BY <1>2, <1>4, AppendProperties DEF Games
<1>6. \A i \in 1 .. n + 1 : Append(s, x)[i] = t[i]
  BY <1>2, <1>3, <1>5
<1> QED
  BY <1>3, <1>5, <1>6, SeqEqual DEF Games, s, t

LEMMA KnownPrefix ==
  ASSUME NetOK, NEW p \in Peers, NEW n \in Nat, n <= Len(own[p]), NEW f \in 0 .. n
  PROVE  SubSeq(KnownGame(p, n), 1, f) = KnownGame(p, f)
<1>1. own[p] \in Seq(Inputs) /\ f \in Nat /\ f <= Len(own[p])
  BY DEF NetOK
<1> DEFINE s == KnownGame(p, n)
           t == KnownGame(p, f)
<1>2. s \in Games /\ Len(s) = n /\ \A i \in 1 .. n : s[i] = Frame(p, i)
  BY KnownFacts
<1>3. t \in Games /\ Len(t) = f /\ \A i \in 1 .. f : t[i] = Frame(p, i)
  BY <1>1, KnownFacts
<1> HIDE DEF s, t
<1>4. \A i \in 1 .. f : s[i] \in Inputs \X Inputs
  BY <1>2 DEF Games
<1>5. /\ SubSeq(s, 1, f) \in Games /\ Len(SubSeq(s, 1, f)) = f
      /\ \A i \in 1 .. f : SubSeq(s, 1, f)[i] = s[i]
  BY <1>1, <1>4, SubSeqProperties DEF Games
<1>6. \A i \in 1 .. f : SubSeq(s, 1, f)[i] = t[i]
  BY <1>2, <1>3, <1>5
<1> QED
  BY <1>3, <1>5, <1>6, SeqEqual DEF Games, s, t

\* The same, as one formula that holds after a step as well.
KnownOK ==
  NetOK => \A p \in Peers, n \in Nat : n <= Len(own[p]) =>
    /\ KnownGame(p, n) \in Games /\ Len(KnownGame(p, n)) = n
    /\ \A f \in 1 .. n : KnownGame(p, n)[f] = Frame(p, f)
    /\ \A f \in 0 .. n : SubSeq(KnownGame(p, n), 1, f) = KnownGame(p, f)

\* It holds in every state,
LEMMA KnownAlways == KnownOK
BY KnownFacts, KnownPrefix DEF KnownOK

\* and so in the next one.
LEMMA KnownNext == KnownOK'
BY KnownAlways, PTL

\* What p knows does not change with what it has not heard.
LEMMA KnownStays ==
  ASSUME NetOK, NEW p \in Peers,
         own'[p] = own[p], heard'[p] = heard[p], gone'[p] = gone[p],
         \A f \in 1 .. heard[p] : own'[Other(p)][f] = own[Other(p)][f]
  PROVE  /\ \A f \in Nat : f # 0 => Frame(p, f)' = Frame(p, f)
         /\ \A n \in Nat : KnownGame(p, n)' = KnownGame(p, n)
<1>1. heard[p] \in Nat
  BY DEF NetOK
<1>2. ASSUME NEW f \in Nat, f # 0
      PROVE  RemoteInput(p, heard[p], gone[p], f - 1)' = RemoteInput(p, heard[p], gone[p], f - 1)
  <2>1. f - 1 \in Nat
    BY <1>2
  <2>2. CASE f - 1 < heard[p]
    BY <1>1, <2>1, <2>2 DEF RemoteInput
  <2>3. CASE ~ (f - 1 < heard[p])
    BY <1>1, <2>1, <2>3 DEF RemoteInput
  <2> QED
    BY <2>2, <2>3
<1>3. \A f \in Nat : f # 0 => Frame(p, f)' = Frame(p, f)
  BY <1>2 DEF Frame
<1>4. ASSUME NEW n \in Nat
      PROVE  KnownGame(p, n)' = KnownGame(p, n)
  <2>1. KnownGame(p, n)' = [f \in 1 .. n |-> Frame(p, f)']
    BY DEF KnownGame, Known, Frame
  <2>2. KnownGame(p, n) = [f \in 1 .. n |-> Frame(p, f)]
    BY DEF KnownGame, Known, Frame
  <2> QED
    BY <2>1, <2>2, <1>3
<1> QED
  BY <1>3, <1>4

------------------------------------------------------------------------------
(* What is left of the requests when the first has been served.            *)

\* The kind of a request is what the loop matches on.
LEMMA KindFacts ==
  /\ \A f \in Nat : Save(f).kind = "save" /\ Load(f).kind = "load"
  /\ \A x : Advance(x).kind = "advance"
BY DEF Save, Load, Advance

\* A save at the head: playing on comes next.
LEMMA TailOfSave ==
  ASSUME NEW game, NEW rs \in Seq(Requests), NEW c \in Nat, NEW n \in 0 .. c, NEW k \in 0 .. 1,
         SaveNext(game, rs, n, c, k)
  PROVE  /\ rs # <<>> /\ Head(rs) = Save(n)
         /\ AdvanceNext(game, Tail(rs), n, c, k)
<1> DEFINE ts == Tail(rs)
<1>1. Len(rs) = 2 * (c - n) + k + 1
  BY DEF SaveNext
<1>2. rs # <<>> /\ Len(rs) \in Nat
  BY <1>1
<1>3. Head(rs) = Save(n)
  <2>1. \A j \in Nat : 2 * j + 1 <= Len(rs) => rs[2 * j + 1] = Save(n + j)
    BY DEF SaveNext
  <2>2. 0 \in Nat /\ 2 * 0 + 1 <= Len(rs)
    BY <1>1
  <2>3. rs[2 * 0 + 1] = Save(n + 0)
    BY <2>1, <2>2
  <2> QED
    BY <1>2, <2>3
<1>4. Len(ts) = Len(rs) - 1 /\ \A i \in 1 .. Len(ts) : ts[i] = rs[i + 1]
  BY <1>2, HeadTailProperties
<1> HIDE DEF ts
<1>5. ASSUME NEW j \in Nat, 2 * j + 1 <= Len(ts)
      PROVE  ts[2 * j + 1] = Advance(game[n + j + 1])
  <2>1. ts[2 * j + 1] = rs[2 * j + 2] /\ 2 * j + 2 <= Len(rs)
    BY <1>2, <1>4, <1>5
  <2> QED
    BY <2>1 DEF SaveNext
<1>6. ASSUME NEW j \in Nat, 2 * j + 2 <= Len(ts)
      PROVE  ts[2 * j + 2] = Save(n + j + 1)
  <2>1. ts[2 * j + 2] = rs[2 * (j + 1) + 1] /\ 2 * (j + 1) + 1 <= Len(rs) /\ j + 1 \in Nat
    BY <1>2, <1>4, <1>6
  <2>2. rs[2 * (j + 1) + 1] = Save(n + (j + 1))
    BY <2>1 DEF SaveNext
  <2>3. n + (j + 1) = n + j + 1
    OBVIOUS
  <2> QED
    BY <2>1, <2>2, <2>3
<1> QED
  BY <1>1, <1>2, <1>3, <1>4, <1>5, <1>6 DEF AdvanceNext, ts

\* A frame at the head: its save comes next, or it was the last.
LEMMA TailOfAdvance ==
  ASSUME NEW game, NEW rs \in Seq(Requests), NEW c \in Nat, NEW n \in 0 .. c, NEW k \in 0 .. 1,
         AdvanceNext(game, rs, n, c, k), rs # <<>>
  PROVE  /\ Head(rs) = Advance(game[n + 1])
         /\ n < c => SaveNext(game, Tail(rs), n + 1, c, k)
         /\ n = c => k = 1 /\ Tail(rs) = <<>>
<1> DEFINE ts == Tail(rs)
<1>1. Len(rs) = 2 * (c - n) + k
  BY DEF AdvanceNext
<1>2. Len(rs) \in Nat /\ Len(rs) > 0
  BY EmptySeq
<1>3. Head(rs) = Advance(game[n + 1])
  <2>1. rs[2 * 0 + 1] = Advance(game[n + 0 + 1])
    BY <1>2 DEF AdvanceNext
  <2> QED
    BY <1>2, <2>1
<1>4. ts \in Seq(Requests) /\ Len(ts) = Len(rs) - 1 /\ \A i \in 1 .. Len(ts) : ts[i] = rs[i + 1]
  BY <1>2, HeadTailProperties
<1> HIDE DEF ts
<1>5. ASSUME NEW j \in Nat, 2 * j + 1 <= Len(ts)
      PROVE  ts[2 * j + 1] = Save((n + 1) + j)
  <2>1. ts[2 * j + 1] = rs[2 * j + 2] /\ 2 * j + 2 <= Len(rs)
    BY <1>2, <1>4, <1>5
  <2>2. (n + 1) + j = n + j + 1
    OBVIOUS
  <2> QED
    BY <2>1, <2>2 DEF AdvanceNext
<1>6. ASSUME NEW j \in Nat, 2 * j + 2 <= Len(ts)
      PROVE  ts[2 * j + 2] = Advance(game[(n + 1) + j + 1])
  <2>1. ts[2 * j + 2] = rs[2 * (j + 1) + 1] /\ 2 * (j + 1) + 1 <= Len(rs) /\ j + 1 \in Nat
    BY <1>2, <1>4, <1>6
  <2>2. rs[2 * (j + 1) + 1] = Advance(game[n + (j + 1) + 1])
    BY <2>1 DEF AdvanceNext
  <2>3. n + (j + 1) + 1 = (n + 1) + j + 1
    OBVIOUS
  <2> QED
    BY <2>1, <2>2, <2>3
<1>7. Len(ts) = 2 * (c - (n + 1)) + k + 1
  BY <1>1, <1>4
<1>8. SaveNext(game, ts, n + 1, c, k)
  BY <1>5, <1>6, <1>7 DEF SaveNext
<1>9. n = c => k = 1 /\ ts = <<>>
  BY <1>1, <1>2, <1>4, EmptySeq
<1> QED
  BY <1>3, <1>8, <1>9 DEF ts

------------------------------------------------------------------------------
(* What the library asks for at a call.                                    *)

\* The current frame is played, or the window is used up.
Last(game, c, k) == IF k = 1 THEN <<Advance(game[c + 1])>> ELSE <<>>

\* What the library asks for are requests.
LEMMA RequestTypes ==
  /\ \A f \in Nat : Save(f) \in Requests /\ Load(f) \in Requests
  /\ \A x \in Inputs \X Inputs : Advance(x) \in Requests
BY DEF Requests, Save, Load, Advance

\* Sequences of one and of two.
LEMMA ShortSequences ==
  ASSUME NEW S, NEW x \in S, NEW y \in S
  PROVE  /\ <<x>> \in Seq(S) /\ Len(<<x>>) = 1 /\ <<x>>[1] = x
         /\ <<x>> \o <<y>> \in Seq(S) /\ Len(<<x>> \o <<y>>) = 2
         /\ (<<x>> \o <<y>>)[1] = x /\ (<<x>> \o <<y>>)[2] = y
         /\ <<>> \o <<x>> = <<x>> /\ <<x>> \o <<>> = <<x>>
<1>1. /\ <<x>> \in Seq(S) /\ Len(<<x>>) = 1 /\ <<x>>[1] = x
      /\ <<y>> \in Seq(S) /\ Len(<<y>>) = 1 /\ <<y>>[1] = y
  OBVIOUS
<1>2. <<>> \o <<x>> = <<x>> /\ <<x>> \o <<>> = <<x>>
  BY <1>1, ConcatEmptySeq
<1> DEFINE a == <<x>>
           b == <<y>>
<1> HIDE DEF a, b
<1>3. /\ a \in Seq(S) /\ Len(a) = 1 /\ a[1] = x
      /\ b \in Seq(S) /\ Len(b) = 1 /\ b[1] = y
  BY <1>1 DEF a, b
<1>4. /\ a \o b \in Seq(S) /\ Len(a \o b) = 2
      /\ (a \o b)[1] = x /\ (a \o b)[2] = y
  <2>1. /\ a \o b \in Seq(S) /\ Len(a \o b) = Len(a) + Len(b)
        /\ \A i \in 1 .. Len(a) + Len(b) :
              (a \o b)[i] = IF i <= Len(a) THEN a[i] ELSE b[i - Len(a)]
    BY <1>3, ConcatProperties
  <2>2. 1 \in 1 .. Len(a) + Len(b) /\ 2 \in 1 .. Len(a) + Len(b)
    BY <1>3
  <2>3. (a \o b)[1] = a[1]
    BY <2>1, <2>2, <1>3
  <2>4. (a \o b)[2] = b[1]
    BY <2>1, <2>2, <1>3
  <2> QED
    BY <2>1, <2>3, <2>4, <1>3
<1> QED
  BY <1>1, <1>2, <1>4 DEF a, b

\* A call with nothing to replay.
LEMMA CallForward ==
  ASSUME NEW c \in Nat, NEW game \in Games, Len(game) = c + 1, NEW k \in 0 .. 1,
         NEW rs, rs = <<>> \o <<Save(c)>> \o Last(game, c, k)
  PROVE  rs \in Seq(Requests) /\ SaveNext(game, rs, c, c, k)
<1>1. game[c + 1] \in Inputs \X Inputs
  BY DEF Games
<1>2. Save(c) \in Requests /\ Advance(game[c + 1]) \in Requests
  BY <1>1, RequestTypes
<1>3. <<>> \o <<Save(c)>> = <<Save(c)>>
  BY <1>2, ShortSequences
<1>4. CASE k = 1
  <2>1. rs = <<Save(c)>> \o <<Advance(game[c + 1])>>
    BY <1>3, <1>4 DEF Last
  <2>2. /\ rs \in Seq(Requests) /\ Len(rs) = 2
        /\ rs[1] = Save(c) /\ rs[2] = Advance(game[c + 1])
    <3> DEFINE x == Save(c)
               y == Advance(game[c + 1])
    <3> HIDE DEF x, y
    <3>1. x \in Requests /\ y \in Requests
      BY <1>2 DEF x, y
    <3>2. /\ <<x>> \o <<y>> \in Seq(Requests) /\ Len(<<x>> \o <<y>>) = 2
          /\ (<<x>> \o <<y>>)[1] = x /\ (<<x>> \o <<y>>)[2] = y
      BY <3>1, ShortSequences
    <3>3. rs = <<x>> \o <<y>>
      BY <2>1 DEF x, y
    <3>4. rs \in Seq(Requests) /\ Len(rs) = 2 /\ rs[1] = x /\ rs[2] = y
      BY <3>2, <3>3, Zenon
    <3> QED
      BY <3>4 DEF x, y
  <2>3. \A j \in Nat : 2 * j + 1 <= 2 => j = 0
    OBVIOUS
  <2>4. \A j \in Nat : 2 * j + 2 <= 2 => j = 0
    OBVIOUS
  <2>5. rs[2 * 0 + 1] = Save(c + 0) /\ rs[2 * 0 + 2] = Advance(game[c + 0 + 1])
    BY <2>2
  <2> QED
    BY <1>4, <2>2, <2>3, <2>4, <2>5 DEF SaveNext
<1>5. CASE k = 0
  <2>1. rs = <<Save(c)>> \o <<>>
    BY <1>3, <1>5 DEF Last
  <2>2. rs \in Seq(Requests) /\ Len(rs) = 1 /\ rs[1] = Save(c)
    <3> DEFINE x == Save(c)
    <3> HIDE DEF x
    <3>1. x \in Requests
      BY <1>2 DEF x
    <3>2. /\ <<x>> \in Seq(Requests) /\ Len(<<x>>) = 1 /\ <<x>>[1] = x
          /\ <<x>> \o <<>> = <<x>>
      BY <3>1, ShortSequences
    <3>3. rs = <<x>>
      BY <2>1, <3>2 DEF x
    <3>4. rs \in Seq(Requests) /\ Len(rs) = 1 /\ rs[1] = x
      BY <3>2, <3>3, Zenon
    <3> QED
      BY <3>4 DEF x
  <2>3. \A j \in Nat : 2 * j + 1 <= 1 => j = 0
    OBVIOUS
  <2>4. rs[2 * 0 + 1] = Save(c + 0)
    BY <2>2
  <2> QED
    BY <1>5, <2>2, <2>3, <2>4 DEF SaveNext
<1> QED
  BY <1>4, <1>5

\* A rollback, as it is asked for.
LEMMA ReplayFacts ==
  ASSUME NEW c \in Nat, NEW game \in Games, Len(game) = c + 1, NEW first \in 0 .. c - 1,
         NEW rs, rs = Replay(first, SubSeq(game, 1, c))
  PROVE  /\ rs \in Seq(Requests) /\ Len(rs) = 2 * (c - first)
         /\ rs[1] = Load(first)
         /\ \A j \in Nat : 2 * j + 2 <= Len(rs) => rs[2 * j + 2] = Advance(game[first + j + 1])
         /\ \A j \in Nat : 2 * j + 3 <= Len(rs) => rs[2 * j + 3] = Save(first + j + 1)
<1> DEFINE old == SubSeq(game, 1, c)
           L == 2 * (c - first)
<1>1. \A i \in 1 .. c : game[i] \in Inputs \X Inputs
  BY DEF Games
<1>2. old \in Games /\ Len(old) = c /\ \A i \in 1 .. c : old[i] = game[i]
  BY <1>1, SubSeqProperties DEF Games
<1> HIDE DEF old
<1>3. rs = [i \in 1 .. L |-> IF i = 1 THEN Load(first)
                             ELSE IF i % 2 = 0 THEN Advance(old[first + i \div 2])
                             ELSE Save(first + i \div 2)]
  BY <1>2 DEF Replay, old
<1>4. L \in Nat /\ L >= 2
  OBVIOUS
<1> HIDE DEF L
<1>5. rs[1] = Load(first)
  BY <1>3, <1>4
<1>6. ASSUME NEW j \in Nat, 2 * j + 2 <= L
      PROVE  rs[2 * j + 2] = Advance(game[first + j + 1]) /\ first + j + 1 \in 1 .. c
  <2>1. (2 * j + 2) % 2 = 0 /\ (2 * j + 2) \div 2 = j + 1 /\ 2 * j + 2 # 1 /\ 2 * j + 2 \in 1 .. L
    BY <1>4, <1>6
  <2>2. first + (j + 1) \in 1 .. c
    BY <1>6 DEF L
  <2>3. rs[2 * j + 2] = Advance(old[first + (j + 1)])
    BY <1>3, <2>1
  <2>4. first + (j + 1) = first + j + 1
    OBVIOUS
  <2> QED
    BY <1>2, <2>2, <2>3, <2>4
<1>7. ASSUME NEW j \in Nat, 2 * j + 3 <= L
      PROVE  rs[2 * j + 3] = Save(first + j + 1)
  <2>1. (2 * j + 3) % 2 # 0 /\ (2 * j + 3) \div 2 = j + 1 /\ 2 * j + 3 # 1 /\ 2 * j + 3 \in 1 .. L
    BY <1>4, <1>7
  <2>2. rs[2 * j + 3] = Save(first + (j + 1))
    BY <1>3, <2>1
  <2>3. first + (j + 1) = first + j + 1
    OBVIOUS
  <2> QED
    BY <2>2, <2>3
<1>8. rs \in Seq(Requests)
  <2>1. ASSUME NEW i \in 1 .. L
        PROVE  rs[i] \in Requests
    <3>1. CASE i = 1
      BY <3>1, <1>5, RequestTypes
    <3>2. CASE i # 1 /\ i % 2 = 0
      <4>1. PICK j \in Nat : i = 2 * j + 2
        <5>1. i = 2 * (i \div 2 - 1) + 2 /\ i \div 2 - 1 \in Nat
          BY <3>2, <1>4
        <5> QED
          BY <5>1
      <4> QED
        BY <4>1, <1>6, <1>1, <1>4, RequestTypes
    <3>3. CASE i # 1 /\ i % 2 # 0
      <4>1. PICK j \in Nat : i = 2 * j + 3
        <5>1. i = 2 * (i \div 2 - 1) + 3 /\ i \div 2 - 1 \in Nat
          BY <3>3, <1>4
        <5> QED
          BY <5>1
      <4>2. first + j + 1 \in Nat
        OBVIOUS
      <4> QED
        BY <4>1, <4>2, <1>7, <1>4, RequestTypes
    <3> QED
      BY <3>1, <3>2, <3>3
  <2>2. rs \in [1 .. L -> Requests]
    BY <1>3, <2>1
  <2> QED
    BY <2>2, <1>4, SeqDef
<1>9. Len(rs) = L
  BY <1>3, <1>4, <1>8, LenProperties
<1> QED
  BY <1>5, <1>6, <1>7, <1>8, <1>9 DEF L

\* A call with a rollback: the load, and then frame after frame.
LEMMA CallBack ==
  ASSUME NEW c \in Nat, NEW game \in Games, Len(game) = c + 1, NEW k \in 0 .. 1,
         NEW first \in 0 .. c - 1,
         NEW rs, rs = Replay(first, SubSeq(game, 1, c)) \o <<Save(c)>> \o Last(game, c, k)
  PROVE  rs \in Seq(Requests) /\ LoadNext(game, rs, first, c, k)
<1> DEFINE s == Replay(first, SubSeq(game, 1, c))
           t == s \o <<Save(c)>>
           more == Last(game, c, k)
           L == 2 * (c - first)
<1>1. /\ s \in Seq(Requests) /\ Len(s) = L
      /\ s[1] = Load(first)
      /\ \A j \in Nat : 2 * j + 2 <= L => s[2 * j + 2] = Advance(game[first + j + 1])
      /\ \A j \in Nat : 2 * j + 3 <= L => s[2 * j + 3] = Save(first + j + 1)
  <2> HIDE DEF s, t, more, L
  <2>1. \A u : u = Replay(first, SubSeq(game, 1, c)) =>
          /\ u \in Seq(Requests) /\ Len(u) = 2 * (c - first)
          /\ u[1] = Load(first)
          /\ \A j \in Nat : 2 * j + 2 <= Len(u) => u[2 * j + 2] = Advance(game[first + j + 1])
          /\ \A j \in Nat : 2 * j + 3 <= Len(u) => u[2 * j + 3] = Save(first + j + 1)
    BY ReplayFacts
  <2>2. /\ s \in Seq(Requests) /\ Len(s) = 2 * (c - first)
        /\ s[1] = Load(first)
        /\ \A j \in Nat : 2 * j + 2 <= Len(s) => s[2 * j + 2] = Advance(game[first + j + 1])
        /\ \A j \in Nat : 2 * j + 3 <= Len(s) => s[2 * j + 3] = Save(first + j + 1)
    BY <2>1, Zenon DEF s
  <2>3. Len(s) = L
    BY <2>2 DEF L
  <2> QED
    BY <2>2, <2>3
<1> HIDE DEF s
<1>2. Save(c) \in Requests /\ Advance(game[c + 1]) \in Requests
  BY RequestTypes DEF Games
<1>3. /\ t \in Seq(Requests) /\ Len(t) = L + 1
      /\ \A i \in 1 .. L : t[i] = s[i]
      /\ t[L + 1] = Save(c)
  <2>1. <<Save(c)>> \in Seq(Requests) /\ Len(<<Save(c)>>) = 1 /\ <<Save(c)>>[1] = Save(c)
    BY <1>2, ShortSequences
  <2> HIDE DEF L
  <2>2. L \in Nat
    BY DEF L
  <2> QED
    BY <1>1, <2>1, <2>2, ConcatProperties
<1>4. more \in Seq(Requests) /\ Len(more) = k /\ (k = 1 => more[1] = Advance(game[c + 1]))
  <2>1. CASE k = 1
    BY <2>1, <1>2 DEF Last
  <2>2. CASE k = 0
    BY <2>2 DEF Last
  <2> QED
    BY <2>1, <2>2
<1>5. rs = t \o more
  BY DEF s, t, more
<1> HIDE DEF t, more
<1>6. /\ rs \in Seq(Requests) /\ Len(rs) = L + 1 + k
      /\ \A i \in 1 .. L + 1 : rs[i] = t[i]
      /\ k = 1 => rs[L + 2] = Advance(game[c + 1])
  <2> HIDE DEF L
  <2>1. L \in Nat
    BY DEF L
  <2>2. /\ t \o more \in Seq(Requests) /\ Len(t \o more) = L + 1 + k
        /\ \A i \in 1 .. L + 1 : (t \o more)[i] = t[i]
        /\ k = 1 => (t \o more)[L + 2] = more[1]
    BY <1>3, <1>4, <2>1, ConcatProperties
  <2> QED
    BY <1>4, <1>5, <2>2
<1>7. L \in Nat /\ L >= 2
  OBVIOUS
<1>8. rs # <<>> /\ Head(rs) = Load(first)
  <2>1. rs[1] = s[1]
    <3> HIDE DEF L
    <3>1. 1 \in 1 .. L /\ 1 \in 1 .. L + 1
      BY <1>7
    <3> QED
      BY <3>1, <1>3, <1>6
  <2>2. rs # <<>>
    BY <1>6, <1>7, EmptySeq
  <2> QED
    BY <2>1, <2>2, <1>1, <1>6
<1> DEFINE ts == Tail(rs)
<1>9. Len(ts) = L + k /\ \A i \in 1 .. L + k : ts[i] = rs[i + 1]
  <2> HIDE DEF L
  <2>1. Len(ts) = Len(rs) - 1 /\ \A i \in 1 .. Len(ts) : ts[i] = rs[i + 1]
    BY <1>6, <1>8, HeadTailProperties
  <2> QED
    BY <2>1, <1>6, <1>7
<1> HIDE DEF ts, L
<1>10. ASSUME NEW j \in Nat, 2 * j + 1 <= L + k
       PROVE  ts[2 * j + 1] = Advance(game[first + j + 1])
  <2>1. ts[2 * j + 1] = rs[2 * j + 2]
    <3>1. 2 * j + 1 \in 1 .. L + k /\ (2 * j + 1) + 1 = 2 * j + 2
      BY <1>10, <1>7
    <3> QED
      BY <1>9, <3>1
  <2>2. CASE 2 * j + 2 <= L
    <3>1. 2 * j + 2 \in 1 .. L /\ 2 * j + 2 \in 1 .. L + 1
      BY <2>2, <1>7
    <3>2. rs[2 * j + 2] = s[2 * j + 2]
      BY <3>1, <1>3, <1>6
    <3>3. s[2 * j + 2] = Advance(game[first + j + 1])
      BY <2>2, <1>1
    <3> QED
      BY <2>1, <3>2, <3>3
  <2>3. CASE ~ (2 * j + 2 <= L)
    <3>1. k = 1 /\ 2 * j + 2 = L + 2 /\ first + j + 1 = c + 1
      BY <2>3, <1>10 DEF L
    <3> QED
      BY <2>1, <3>1, <1>6
  <2> QED
    BY <2>2, <2>3
<1>11. ASSUME NEW j \in Nat, 2 * j + 2 <= L + k
       PROVE  ts[2 * j + 2] = Save(first + j + 1)
  <2>1. ts[2 * j + 2] = rs[2 * j + 3]
    <3>1. 2 * j + 2 \in 1 .. L + k /\ (2 * j + 2) + 1 = 2 * j + 3
      BY <1>11, <1>7
    <3> QED
      BY <1>9, <3>1
  <2>2. CASE 2 * j + 3 <= L
    <3>1. 2 * j + 3 \in 1 .. L /\ 2 * j + 3 \in 1 .. L + 1
      BY <2>2, <1>7
    <3>2. rs[2 * j + 3] = s[2 * j + 3]
      BY <3>1, <1>3, <1>6
    <3>3. s[2 * j + 3] = Save(first + j + 1)
      BY <2>2, <1>1
    <3> QED
      BY <2>1, <3>2, <3>3
  <2>3. CASE ~ (2 * j + 3 <= L)
    <3>1. 2 * j + 3 = L + 1 /\ first + j + 1 = c
      BY <2>3, <1>11 DEF L
    <3>2. L + 1 \in 1 .. L + 1
      BY <1>7
    <3> QED
      BY <2>1, <3>1, <3>2, <1>3, <1>6
  <2> QED
    BY <2>2, <2>3
<1>12. AdvanceNext(game, ts, first, c, k)
  BY <1>9, <1>10, <1>11 DEF AdvanceNext, L
<1> QED
  BY <1>6, <1>8, <1>12 DEF LoadNext, ts

------------------------------------------------------------------------------
(* A peer that does not take the step.                                     *)

\* The part of the types the known game rests on.
LEMMA NetFacts ==
  ASSUME TypeOK
  PROVE  NetOK
BY DEF TypeOK, NetOK

\* A saved frame stays saved while the game is known as it was.
LEMMA SavedStays ==
  ASSUME NEW p \in Peers, cells'[p] = cells[p],
         \A n \in Nat : KnownGame(p, n)' = KnownGame(p, n),
         heard'[p] = heard[p], gone'[p] = gone[p], heard[p] \in Nat
  PROVE  /\ \A f \in Nat : Saved(p, f) => Saved(p, f)'
         /\ \A n \in Int : ReadyBelow(p, n) => ReadyBelow(p, n)'
<1>1. \A f \in Nat : Saved(p, f) => Saved(p, f)'
  BY DEF Saved
<1> QED
  BY <1>1 DEF ReadyBelow

\* A peer whose own state a step leaves alone stays where it was, whatever the
\* other one sends.
LEMMA LeftAlone ==
  ASSUME TypeOK, NEW p \in Peers,
         own'[p] = own[p], heard'[p] = heard[p], gone'[p] = gone[p],
         machine'[p] = machine[p], cells'[p] = cells[p], requests'[p] = requests[p],
         \A f \in 1 .. heard[p] : own'[Other(p)][f] = own[Other(p)][f]
  PROVE  /\ Resting(p) => Resting(p)'
         /\ Busy(p) => Busy(p)'
<1>1. \A n \in Nat : KnownGame(p, n)' = KnownGame(p, n)
  BY NetFacts, KnownStays
<1>2. heard[p] \in Nat
  BY DEF TypeOK
<1>3. /\ \A f \in Nat : Saved(p, f) => Saved(p, f)'
      /\ \A n \in Int : ReadyBelow(p, n) => ReadyBelow(p, n)'
  BY <1>1, <1>2, SavedStays
<1>4. ASSUME Resting(p)
      PROVE  Resting(p)'
  <2>1. PICK c \in 0 .. MaxFrames :
          /\ Len(machine[p]) = c
          /\ (c = 0 /\ own[p] = <<>>) \/ Len(own[p]) \in {c + Delay, c + Delay + 1}
          /\ ~ gone[p] => c - heard[p] <= Window
          /\ machine[p] = KnownGame(p, c)
          /\ ReadyBelow(p, c)
    BY <1>4 DEF Resting
  <2>2. c \in Nat /\ c \in Int
    BY FrameAssumption
  <2> QED
    BY <2>1, <2>2, <1>1, <1>3 DEF Resting
<1>5. ASSUME NEW c \in 0 .. MaxFrames - 1, NEW k \in 0 .. 1
      PROVE  /\ InWindow(p, c, k) => InWindow(p, c, k)'
             /\ Loading(p, c, k) => Loading(p, c, k)'
             /\ Saving(p, c, k) => Saving(p, c, k)'
             /\ Playing(p, c, k) => Playing(p, c, k)'
             /\ Played(p, c, k) => Played(p, c, k)'
  <2>1. c \in Nat /\ c + 1 \in Nat
    BY FrameAssumption
  <2>2. KnownGame(p, c + 1)' = KnownGame(p, c + 1)
    BY <1>1, <2>1
  <2>3. InWindow(p, c, k) => InWindow(p, c, k)'
    BY DEF InWindow
  <2>4. Loading(p, c, k) => Loading(p, c, k)'
    BY <1>3, <2>1, <2>2 DEF Loading
  <2>5. Saving(p, c, k) => Saving(p, c, k)'
    BY <1>1, <1>3, <2>1, <2>2 DEF Saving, SaveNext
  <2>6. Playing(p, c, k) => Playing(p, c, k)'
    BY <1>1, <1>3, <2>1, <2>2 DEF Playing, AdvanceNext
  <2>7. Played(p, c, k) => Played(p, c, k)'
    BY <1>3, <2>1, <2>2 DEF Played
  <2> QED
    BY <2>3, <2>4, <2>5, <2>6, <2>7
<1> QED
  BY <1>4, <1>5 DEF Busy

------------------------------------------------------------------------------
(* The steps of the loop.                                                  *)

\* The machine of a frame is its number of frames long.
LEMMA BusyFacts ==
  ASSUME TypeOK, NEW p \in Peers, NEW c \in 0 .. MaxFrames - 1, NEW k \in 0 .. 1,
         InWindow(p, c, k)
  PROVE  /\ c \in Nat /\ c + 1 \in Nat /\ c + 1 <= Len(own[p]) /\ c + 1 <= MaxFrames
         /\ \A n \in 0 .. c + 1 : KnownGame(p, n) \in Games /\ Len(KnownGame(p, n)) = n
<1>1. c \in Nat /\ c + 1 \in Nat /\ c + 1 <= Len(own[p]) /\ c + 1 <= MaxFrames
  BY FrameAssumption, DelayAssumption DEF InWindow
<1>2. own[p] \in Seq(Inputs)
  BY DEF TypeOK
<1>3. \A n \in 0 .. c + 1 : n \in Nat /\ n <= Len(own[p])
  BY <1>1, <1>2
<1> QED
  BY <1>1, <1>3, KnownFacts, NetFacts

\* SaveGameState: the frame about to be played can be rolled back to. No other
\* frame that may be wrong has its cell.
LEMMA SaveStep ==
  ASSUME TypeOK, NEW p \in Peers, SaveGameState(p), Busy(p)
  PROVE  /\ Busy(p)'
         /\ Head(requests[p]).frame \in 0 .. MaxFrames
<1>1. PICK c \in 0 .. MaxFrames - 1, k \in 0 .. 1 :
        /\ InWindow(p, c, k)
        /\ Loading(p, c, k) \/ Saving(p, c, k) \/ Playing(p, c, k) \/ Played(p, c, k)
  BY DEF Busy
<1>2. /\ requests[p] # <<>> /\ Head(requests[p]).kind = "save"
      /\ requests'[p] = Tail(requests[p])
      /\ requests[p] \in Seq(Requests)
      /\ UNCHANGED netVars /\ machine' = machine
  BY DEF SaveGameState, Serve, TypeOK
<1>3. /\ c \in Nat /\ c + 1 \in Nat /\ c <= MaxFrames
      /\ heard[p] \in Nat
  BY <1>1, BusyFacts, FrameAssumption DEF TypeOK
<1>4. ~ Loading(p, c, k)
  <2> SUFFICES ASSUME NEW n \in 0 .. c - 1, Head(requests[p]) = Load(n)
               PROVE  FALSE
    BY DEF Loading, LoadNext
  <2> QED
    BY <1>2, <1>3, KindFacts
<1>5. ~ Playing(p, c, k)
  <2> SUFFICES ASSUME NEW n \in 0 .. c,
                      AdvanceNext(KnownGame(p, c + 1), requests[p], n, c, k)
               PROVE  FALSE
    BY DEF Playing
  <2>1. Head(requests[p]) = Advance(KnownGame(p, c + 1)[n + 1])
    BY <1>2, <1>3, TailOfAdvance
  <2> QED
    BY <1>2, <2>1, KindFacts
<1>6. PICK n \in 0 .. c : /\ SaveNext(KnownGame(p, c + 1), requests[p], n, c, k)
                          /\ machine[p] = KnownGame(p, n)
                          /\ ReadyBelow(p, n)
  BY <1>1, <1>2, <1>4, <1>5 DEF Saving, Played
<1>7. n \in Nat /\ n + 1 \in Int /\ n \in 0 .. MaxFrames
  BY <1>3, FrameAssumption
<1>8. /\ Head(requests[p]) = Save(n)
      /\ AdvanceNext(KnownGame(p, c + 1), requests'[p], n, c, k)
  BY <1>2, <1>3, <1>6, TailOfSave
<1>9. Head(requests[p]).frame = n
  BY <1>8 DEF Save
<1>10. \A m \in Nat : KnownGame(p, m)' = KnownGame(p, m)
  BY <1>2, NetFacts, KnownStays DEF netVars
<1>11. /\ cells'[p][Cell(n)] = [frame |-> n, machine |-> KnownGame(p, n)]
       /\ \A f \in Nat : Cell(f) # Cell(n) => cells'[p][Cell(f)] = cells[p][Cell(f)]
  <2>1. cells' = [cells EXCEPT ![p][Cell(n)] = [frame |-> n, machine |-> KnownGame(p, n)]]
    BY <1>6, <1>9 DEF SaveGameState
  <2>2. /\ cells \in [Peers -> [0 .. Window -> [frame : Nat \union {-1}, machine : Games]]]
        /\ \A f \in Nat : Cell(f) \in 0 .. Window
    BY CellFacts DEF TypeOK
  <2> QED
    BY <2>1, <2>2, <1>7
<1>12. ReadyBelow(p, n + 1)'
  <2> SUFFICES ASSUME ~ gone[p], NEW f \in heard[p] .. n
               PROVE  Saved(p, f)'
    BY <1>2, <1>3, <1>7 DEF ReadyBelow, netVars
  <2>1. f \in Nat
    BY <1>3
  <2>2. CASE f = n
    BY <2>2, <1>7, <1>10, <1>11 DEF Saved
  <2>3. CASE f # n
    <3>1. f \in heard[p] .. n - 1 /\ f < n
      BY <2>3, <1>3, <1>7
    <3>2. n - f <= Window
      BY <1>1, <1>3, <3>1, WindowAssumption DEF InWindow
    <3>3. Cell(f) # Cell(n)
      BY <2>1, <1>7, <3>1, <3>2, CellFacts
    <3>4. Saved(p, f)
      BY <1>6, <3>1 DEF ReadyBelow
    <3> QED
      BY <2>1, <3>3, <3>4, <1>10, <1>11 DEF Saved
  <2> QED
    BY <2>2, <2>3
<1>13. InWindow(p, c, k)'
  BY <1>1, <1>2 DEF InWindow, netVars
<1>14. Playing(p, c, k)'
  BY <1>2, <1>3, <1>6, <1>7, <1>8, <1>10, <1>12 DEF Playing, AdvanceNext
<1> QED
  BY <1>7, <1>9, <1>13, <1>14 DEF Busy

\* LoadGameState: the machine is the one that was saved.
LEMMA LoadStep ==
  ASSUME TypeOK, NEW p \in Peers, LoadGameState(p), Busy(p)
  PROVE  /\ Busy(p)'
         /\ machine'[p] \in Games /\ Len(machine'[p]) <= MaxFrames
         /\ Len(machine'[p]) <= Len(own[p])
<1>1. PICK c \in 0 .. MaxFrames - 1, k \in 0 .. 1 :
        /\ InWindow(p, c, k)
        /\ Loading(p, c, k) \/ Saving(p, c, k) \/ Playing(p, c, k) \/ Played(p, c, k)
  BY DEF Busy
<1>2. /\ requests[p] # <<>> /\ Head(requests[p]).kind = "load"
      /\ requests'[p] = Tail(requests[p])
      /\ requests[p] \in Seq(Requests)
      /\ UNCHANGED netVars /\ cells' = cells
  BY DEF LoadGameState, Serve, TypeOK
<1>3. /\ c \in Nat /\ c + 1 \in Nat /\ c + 1 <= Len(own[p]) /\ c + 1 <= MaxFrames
      /\ \A n \in 0 .. c + 1 : KnownGame(p, n) \in Games /\ Len(KnownGame(p, n)) = n
      /\ heard[p] \in Nat
  BY <1>1, BusyFacts DEF TypeOK
<1>4. ~ Saving(p, c, k)
  <2> SUFFICES ASSUME NEW n \in 0 .. c,
                      SaveNext(KnownGame(p, c + 1), requests[p], n, c, k)
               PROVE  FALSE
    BY DEF Saving
  <2>1. Head(requests[p]) = Save(n) /\ n \in Nat
    BY <1>2, <1>3, TailOfSave
  <2> QED
    BY <1>2, <2>1, KindFacts
<1>5. ~ Playing(p, c, k)
  <2> SUFFICES ASSUME NEW n \in 0 .. c,
                      AdvanceNext(KnownGame(p, c + 1), requests[p], n, c, k)
               PROVE  FALSE
    BY DEF Playing
  <2>1. Head(requests[p]) = Advance(KnownGame(p, c + 1)[n + 1])
    BY <1>2, <1>3, TailOfAdvance
  <2> QED
    BY <1>2, <2>1, KindFacts
<1>6. PICK n \in 0 .. c - 1 : /\ LoadNext(KnownGame(p, c + 1), requests[p], n, c, k)
                              /\ Saved(p, n)
                              /\ ReadyBelow(p, n)
  BY <1>1, <1>2, <1>4, <1>5 DEF Loading, Played
<1>7. n \in 0 .. c /\ n \in 0 .. c + 1 /\ n \in Nat /\ n <= MaxFrames /\ n <= Len(own[p])
  <2>1. own[p] \in Seq(Inputs)
    BY DEF TypeOK
  <2> QED
    BY <1>3, <2>1, FrameAssumption
<1>8. Head(requests[p]).frame = n /\ AdvanceNext(KnownGame(p, c + 1), requests'[p], n, c, k)
  BY <1>2, <1>6 DEF LoadNext, Load
<1>9. \A m \in Nat : KnownGame(p, m)' = KnownGame(p, m)
  BY <1>2, NetFacts, KnownStays DEF netVars
<1>10. machine'[p] = KnownGame(p, n)
  <2>1. machine' = [machine EXCEPT ![p] = cells[p][Cell(n)].machine]
    BY <1>8 DEF LoadGameState
  <2> QED
    BY <2>1, <1>6 DEF Saved, TypeOK
<1>11. ReadyBelow(p, n + 1)'
  <2> SUFFICES ASSUME ~ gone[p], NEW f \in heard[p] .. n
               PROVE  Saved(p, f)'
    BY <1>2, <1>3, <1>7 DEF ReadyBelow, netVars
  <2>1. f \in Nat /\ (f = n \/ f \in heard[p] .. n - 1)
    BY <1>3, <1>7
  <2>2. Saved(p, f)
    BY <2>1, <1>6 DEF ReadyBelow
  <2> QED
    BY <2>1, <2>2, <1>2, <1>9 DEF Saved
<1>12. InWindow(p, c, k)'
  BY <1>1, <1>2 DEF InWindow, netVars
<1>13. Playing(p, c, k)'
  BY <1>3, <1>7, <1>8, <1>9, <1>10, <1>11 DEF Playing, AdvanceNext
<1> QED
  BY <1>3, <1>7, <1>10, <1>12, <1>13 DEF Busy

\* AdvanceFrame's arm: the machine is one known frame further.
LEMMA PlayStep ==
  ASSUME TypeOK, NEW p \in Peers, PlayFrame(p), Busy(p)
  PROVE  /\ Busy(p)'
         /\ machine'[p] \in Games /\ Len(machine'[p]) <= MaxFrames
         /\ Len(machine'[p]) <= Len(own[p])
<1>1. PICK c \in 0 .. MaxFrames - 1, k \in 0 .. 1 :
        /\ InWindow(p, c, k)
        /\ Loading(p, c, k) \/ Saving(p, c, k) \/ Playing(p, c, k) \/ Played(p, c, k)
  BY DEF Busy
<1>2. /\ requests[p] # <<>> /\ Head(requests[p]).kind = "advance"
      /\ requests'[p] = Tail(requests[p])
      /\ requests[p] \in Seq(Requests)
      /\ UNCHANGED netVars /\ cells' = cells
  BY DEF PlayFrame, Serve, TypeOK
<1>3. /\ c \in Nat /\ c + 1 \in Nat /\ c + 1 <= Len(own[p]) /\ c + 1 <= MaxFrames
      /\ \A n \in 0 .. c + 1 : KnownGame(p, n) \in Games /\ Len(KnownGame(p, n)) = n
      /\ heard[p] \in Nat
  BY <1>1, BusyFacts DEF TypeOK
<1>4. ~ Loading(p, c, k)
  <2> SUFFICES ASSUME NEW n \in 0 .. c - 1, Head(requests[p]) = Load(n)
               PROVE  FALSE
    BY DEF Loading, LoadNext
  <2>1. n \in Nat
    BY <1>3
  <2> QED
    BY <1>2, <2>1, KindFacts
<1>5. ~ Saving(p, c, k)
  <2> SUFFICES ASSUME NEW n \in 0 .. c,
                      SaveNext(KnownGame(p, c + 1), requests[p], n, c, k)
               PROVE  FALSE
    BY DEF Saving
  <2>1. Head(requests[p]) = Save(n) /\ n \in Nat
    BY <1>2, <1>3, TailOfSave
  <2> QED
    BY <1>2, <2>1, KindFacts
<1>6. PICK n \in 0 .. c : /\ AdvanceNext(KnownGame(p, c + 1), requests[p], n, c, k)
                          /\ machine[p] = KnownGame(p, n)
                          /\ ReadyBelow(p, n + 1)
  BY <1>1, <1>2, <1>4, <1>5 DEF Playing, Played
<1>7. /\ n \in Nat /\ n + 1 \in Nat /\ n + 1 \in 0 .. c + 1 /\ n + 1 \in 1 .. c + 1
      /\ n + 1 <= MaxFrames /\ n + 1 <= Len(own[p])
  <2>1. own[p] \in Seq(Inputs)
    BY DEF TypeOK
  <2> QED
    BY <1>3, <2>1, FrameAssumption
<1>8. /\ Head(requests[p]) = Advance(KnownGame(p, c + 1)[n + 1])
      /\ n < c => SaveNext(KnownGame(p, c + 1), requests'[p], n + 1, c, k)
      /\ n = c => k = 1 /\ requests'[p] = <<>>
  BY <1>2, <1>3, <1>6, TailOfAdvance
<1>9. Head(requests[p]).inputs = Frame(p, n + 1) /\ Frame(p, n + 1) \in Inputs \X Inputs
  <2>1. KnownGame(p, c + 1)[n + 1] = Frame(p, n + 1)
    BY <1>3, <1>7, NetFacts, KnownFacts
  <2>2. n + 1 \in 1 .. Len(own[p])
    <3>1. own[p] \in Seq(Inputs)
      BY DEF TypeOK
    <3> QED
      BY <1>7, <3>1
  <2> QED
    BY <1>8, <2>1, <2>2, NetFacts, FrameType DEF Advance
<1>10. machine'[p] = KnownGame(p, n + 1)
  <2> DEFINE x == Frame(p, n + 1)
  <2>1. machine' = [machine EXCEPT ![p] = Append(machine[p], <<x[1], x[2]>>)]
    BY <1>9 DEF PlayFrame, AdvanceOneFrame, Combine
  <2> HIDE DEF x
  <2>2. <<x[1], x[2]>> = x
    BY <1>9 DEF x
  <2>3. machine'[p] = Append(KnownGame(p, n), x)
    BY <2>1, <2>2, <1>6 DEF TypeOK
  <2>4. Append(KnownGame(p, n), x) = KnownGame(p, n + 1)
    BY <1>7, NetFacts, KnownGrows DEF x
  <2> QED
    BY <2>3, <2>4
<1>11. \A m \in Nat : KnownGame(p, m)' = KnownGame(p, m)
  BY <1>2, NetFacts, KnownStays DEF netVars
<1>12. ReadyBelow(p, n + 1)'
  BY <1>2, <1>3, <1>6, <1>7, <1>11, SavedStays DEF netVars
<1>13. InWindow(p, c, k)'
  BY <1>1, <1>2 DEF InWindow, netVars
<1>14. CASE n < c
  <2>1. n + 1 \in 0 .. c
    BY <1>3, <1>7, <1>14
  <2>2. Saving(p, c, k)'
    BY <2>1, <1>3, <1>7, <1>8, <1>10, <1>11, <1>12, <1>14 DEF Saving, SaveNext
  <2> QED
    BY <2>2, <1>3, <1>7, <1>10, <1>13 DEF Busy
<1>15. CASE n = c
  <2>1. Played(p, c, k)'
    BY <1>3, <1>7, <1>8, <1>10, <1>11, <1>12, <1>15 DEF Played
  <2> QED
    BY <2>1, <1>3, <1>7, <1>10, <1>13 DEF Busy
<1> QED
  BY <1>3, <1>14, <1>15

\* With no request left the machine has played all that is known.
LEMMA ReturnStep ==
  ASSUME TypeOK, NEW p \in Peers, Return(p), Busy(p)
  PROVE  Resting(p)'
<1>1. PICK c \in 0 .. MaxFrames - 1, k \in 0 .. 1 :
        /\ InWindow(p, c, k)
        /\ Loading(p, c, k) \/ Saving(p, c, k) \/ Playing(p, c, k) \/ Played(p, c, k)
  BY DEF Busy
<1>2. /\ requests[p] = <<>> /\ UNCHANGED netVars /\ machine' = machine /\ cells' = cells
  BY DEF Return
<1>3. /\ c \in Nat /\ c + 1 \in Nat /\ c + 1 <= Len(own[p]) /\ c + 1 <= MaxFrames
      /\ \A n \in 0 .. c + 1 : KnownGame(p, n) \in Games /\ Len(KnownGame(p, n)) = n
      /\ heard[p] \in Nat
  BY <1>1, BusyFacts DEF TypeOK
<1>4. c \in 0 .. MaxFrames /\ c + 1 \in 0 .. MaxFrames /\ c \in 0 .. c + 1 /\ c + 1 \in 0 .. c + 1
  BY <1>3, FrameAssumption
<1>5. \A m \in Nat : KnownGame(p, m)' = KnownGame(p, m)
  BY <1>2, NetFacts, KnownStays DEF netVars
<1>6. \A m \in Int : ReadyBelow(p, m) => ReadyBelow(p, m)'
  BY <1>2, <1>3, <1>5, SavedStays DEF netVars
<1>7. ~ Loading(p, c, k)
  BY <1>2 DEF Loading, LoadNext
<1>8. ~ Saving(p, c, k)
  <2> SUFFICES ASSUME NEW n \in 0 .. c, Len(requests[p]) = 2 * (c - n) + k + 1
               PROVE  FALSE
    BY DEF Saving, SaveNext
  <2>1. Len(requests[p]) = 0
    BY <1>2
  <2> QED
    BY <2>1, <1>3
<1>9. CASE Playing(p, c, k)
  <2>1. PICK n \in 0 .. c : /\ Len(requests[p]) = 2 * (c - n) + k
                            /\ machine[p] = KnownGame(p, n)
                            /\ ReadyBelow(p, n + 1)
    BY <1>9 DEF Playing, AdvanceNext
  <2>2. Len(requests[p]) = 0
    BY <1>2
  <2>3. n = c
    BY <2>1, <2>2, <1>3
  <2>4. ReadyBelow(p, c)
    <3>1. ReadyBelow(p, c + 1)
      BY <2>1, <2>3
    <3>2. \A f \in heard[p] .. c - 1 : f \in heard[p] .. (c + 1) - 1
      BY <1>3
    <3> QED
      BY <3>1, <3>2 DEF ReadyBelow
  <2>5. /\ machine'[p] = KnownGame(p, c)' /\ Len(machine'[p]) = c
        /\ ReadyBelow(p, c)'
    BY <2>1, <2>3, <2>4, <1>2, <1>3, <1>4, <1>5, <1>6
  <2>6. Len(own'[p]) = c + Delay + 1 /\ (~ gone'[p] => c - heard'[p] <= Window)
    BY <1>1, <1>2, <1>3, WindowAssumption DEF InWindow, netVars
  <2> QED
    BY <2>5, <2>6, <1>4 DEF Resting
<1>10. CASE Played(p, c, k)
  <2>1. k = 1 /\ machine[p] = KnownGame(p, c + 1) /\ ReadyBelow(p, c + 1)
    BY <1>10 DEF Played
  <2>2. /\ machine'[p] = KnownGame(p, c + 1)' /\ Len(machine'[p]) = c + 1
        /\ ReadyBelow(p, c + 1)'
    BY <2>1, <1>2, <1>3, <1>4, <1>5, <1>6
  <2>3. Len(own'[p]) = (c + 1) + Delay /\ (~ gone'[p] => (c + 1) - heard'[p] <= Window)
    BY <1>1, <1>2, <1>3, <2>1, WindowAssumption, DelayAssumption DEF InWindow, netVars
  <2> DEFINE d == c + 1
  <2>4. d \in 0 .. MaxFrames
    BY <1>4
  <2>5. /\ machine'[p] = KnownGame(p, d)' /\ Len(machine'[p]) = d
        /\ ReadyBelow(p, d)'
        /\ Len(own'[p]) = d + Delay /\ (~ gone'[p] => d - heard'[p] <= Window)
    BY <2>2, <2>3
  <2> HIDE DEF d
  <2> QED
    BY <2>4, <2>5 DEF Resting
<1> QED
  BY <1>1, <1>7, <1>8, <1>9, <1>10

------------------------------------------------------------------------------
(* A call.                                                                 *)

\* The input of this frame is registered, and none before it changes.
LEMMA RegisterFacts ==
  ASSUME NEW s \in Seq(Inputs), NEW c \in Nat, NEW input \in Inputs,
         (c = 0 /\ s = <<>>) \/ Len(s) \in {c + Delay, c + Delay + 1},
         NEW r, r = Register(s, c, input)
  PROVE  /\ r \in Seq(Inputs) /\ Len(r) = c + Delay + 1 /\ Len(s) <= Len(r)
         /\ \A f \in 1 .. Len(s) : r[f] = s[f]
<1>1. Delay \in Nat /\ Idle \in Inputs
  BY DelayAssumption, InputAssumption
<1>2. CASE s = <<>>
  <2> DEFINE idle == [f \in 1 .. Delay |-> Idle]
  <2>1. c = 0 /\ Len(s) = 0
    BY <1>1, <1>2
  <2>2. r = idle \o <<input>>
    BY <1>2 DEF Register
  <2>3. idle \in [1 .. Delay -> Inputs]
    BY <1>1
  <2> HIDE DEF idle
  <2>4. idle \in Seq(Inputs) /\ Len(idle) = Delay
    BY <1>1, <2>3, SeqDef, LenProperties
  <2>5. <<input>> \in Seq(Inputs) /\ Len(<<input>>) = 1
    BY ShortSequences
  <2>6. idle \o <<input>> \in Seq(Inputs) /\ Len(idle \o <<input>>) = Delay + 1
    BY <2>4, <2>5, ConcatProperties
  <2>7. r \in Seq(Inputs) /\ Len(r) = Delay + 1
    BY <2>2, <2>6, Zenon
  <2>8. Len(r) = c + Delay + 1 /\ Len(s) <= Len(r) /\ \A f \in 1 .. Len(s) : r[f] = s[f]
    BY <1>1, <2>1, <2>7
  <2> QED
    BY <2>7, <2>8
<1>3. CASE s # <<>> /\ Len(s) = c + Delay
  <2>1. r = Append(s, input)
    BY <1>3 DEF Register
  <2>2. /\ Append(s, input) \in Seq(Inputs) /\ Len(Append(s, input)) = Len(s) + 1
        /\ \A f \in 1 .. Len(s) : Append(s, input)[f] = s[f]
    BY AppendProperties
  <2>3. r \in Seq(Inputs) /\ Len(r) = Len(s) + 1 /\ \A f \in 1 .. Len(s) : r[f] = s[f]
    BY <2>1, <2>2, Zenon
  <2> QED
    BY <2>3, <1>1, <1>3
<1>4. CASE s # <<>> /\ Len(s) # c + Delay
  <2>1. r = s /\ Len(s) = c + Delay + 1
    BY <1>4 DEF Register
  <2> QED
    BY <2>1
<1> QED
  BY <1>2, <1>3, <1>4

\* What p had heard stands, and so does all of it once the other is given up.
LEMMA PollFacts ==
  ASSUME NetOK, NEW p \in Peers, NEW h \in 0 .. Len(own[Other(p)]), NEW lost \in BOOLEAN,
         gone[p] \in BOOLEAN, Poll(p, h, lost)
  PROVE  /\ h \in Nat /\ heard[p] <= h /\ h <= Len(own[Other(p)])
         /\ gone[p] => lost /\ h = heard[p]
         /\ \A f \in Nat : f < heard[p] \/ gone[p] =>
              RemoteInput(p, h, lost, f) = RemoteInput(p, heard[p], gone[p], f)
<1>1. own[Other(p)] \in Seq(Inputs) /\ heard[p] \in Nat /\ heard[p] <= Len(own[Other(p)])
  BY OtherFacts DEF NetOK
<1>2. /\ h \in Nat /\ heard[p] <= h /\ h <= Len(own[Other(p)])
      /\ gone[p] => lost /\ h = heard[p]
  BY <1>1 DEF Poll
<1>3. ASSUME NEW f \in Nat, f < heard[p]
      PROVE  RemoteInput(p, h, lost, f) = RemoteInput(p, heard[p], gone[p], f)
  <2>1. f < h
    BY <1>1, <1>2, <1>3
  <2> QED
    BY <1>3, <2>1 DEF RemoteInput
<1>4. ASSUME gone[p]
      PROVE  lost = gone[p] /\ h = heard[p]
  BY <1>2, <1>4
<1> QED
  BY <1>2, <1>3, <1>4

\* The machine is right as far as p had heard, and the library's requests make
\* it right again from there.
LEMMA AdvanceFrameStep ==
  ASSUME TypeOK, NEW p \in Peers, AdvanceFrame(p), Resting(p)
  PROVE  /\ NetOK'
         /\ requests'[p] \in Seq(Requests)
         /\ Len(own[p]) <= Len(own'[p])
         /\ \A f \in 1 .. Len(own[p]) : own'[p][f] = own[p][f]
         /\ Busy(p)'
<1>1. PICK c \in 0 .. MaxFrames :
        /\ Len(machine[p]) = c
        /\ (c = 0 /\ own[p] = <<>>) \/ Len(own[p]) \in {c + Delay, c + Delay + 1}
        /\ ~ gone[p] => c - heard[p] <= Window
        /\ machine[p] = KnownGame(p, c)
        /\ ReadyBelow(p, c)
  BY DEF Resting
<1>2. PICK h \in 0 .. Len(own[Other(p)]), lost \in BOOLEAN, input \in Inputs :
        /\ Poll(p, h, lost)
        /\ own' = [own EXCEPT ![p] = Register(own[p], Len(machine[p]), input)]
        /\ heard' = [heard EXCEPT ![p] = h]
        /\ gone' = [gone EXCEPT ![p] = lost]
        /\ requests' = [requests EXCEPT ![p] =
                          RequestsFor(p, Register(own[p], Len(machine[p]), input), h, lost)]
  BY DEF AdvanceFrame
<1> DEFINE r == Register(own[p], c, input)
<1>3. /\ c \in Nat /\ c + 1 \in Nat /\ c < MaxFrames
      /\ c \in 0 .. MaxFrames - 1
      /\ machine' = machine /\ cells' = cells
  BY <1>1, FrameAssumption DEF AdvanceFrame
<1>4. /\ NetOK
      /\ own[p] \in Seq(Inputs) /\ own[Other(p)] \in Seq(Inputs)
      /\ heard[p] \in Nat /\ gone[p] \in BOOLEAN
      /\ own \in [Peers -> Seq(Inputs)] /\ heard \in [Peers -> Nat] /\ gone \in [Peers -> BOOLEAN]
      /\ requests \in [Peers -> Seq(Requests)]
      /\ c <= Len(own[p])
  BY <1>1, OtherFacts, NetFacts DEF TypeOK
<1>5. /\ r \in Seq(Inputs) /\ Len(r) = c + Delay + 1 /\ Len(own[p]) <= Len(r)
      /\ \A f \in 1 .. Len(own[p]) : r[f] = own[p][f]
  BY <1>1, <1>3, <1>4, RegisterFacts
<1>6. /\ own'[p] = r /\ own'[Other(p)] = own[Other(p)]
      /\ heard'[p] = h /\ gone'[p] = lost
      /\ requests'[p] = RequestsFor(p, r, h, lost)
      /\ own' \in [Peers -> Seq(Inputs)]
  BY <1>1, <1>2, <1>4, <1>5, OtherFacts
<1> HIDE DEF r
<1>7. /\ h \in Nat /\ heard[p] <= h /\ h <= Len(own[Other(p)])
      /\ gone[p] => lost /\ h = heard[p]
      /\ \A f \in Nat : f < heard[p] \/ gone[p] =>
           RemoteInput(p, h, lost, f) = RemoteInput(p, heard[p], gone[p], f)
  BY <1>2, <1>4, PollFacts
<1>8. NetOK'
  <2>1. heard' \in [Peers -> Nat]
    BY <1>2, <1>4, <1>7
  <2>2. ASSUME NEW q \in Peers
        PROVE  heard'[q] <= Len(own'[Other(q)])
    <3>1. CASE q = p
      BY <3>1, <1>6, <1>7
    <3>2. CASE q # p
      <4>1. q = Other(p) /\ Other(q) = p
        BY <3>2 DEF Peers, Other
      <4>2. heard'[q] = heard[q] /\ heard[q] <= Len(own[p]) /\ heard[q] \in Nat
        BY <4>1, <3>2, <1>2, <1>4 DEF NetOK
      <4> QED
        BY <4>1, <4>2, <1>4, <1>5, <1>6
    <3> QED
      BY <3>1, <3>2
  <2> QED
    BY <2>1, <2>2, <1>6 DEF NetOK
<1>9. \A n \in Nat : KnownGame(p, n)' = Known(p, r, h, lost, n)
  BY <1>6 DEF KnownGame, Known, RemoteInput
<1> DEFINE game == KnownGame(p, c + 1)'
           k    == IF lost \/ FramesAhead(c, h) < Window THEN 1 ELSE 0
<1>10. /\ game \in Games /\ Len(game) = c + 1
       /\ \A f \in 1 .. c + 1 : game[f] = Frame(p, f)'
       /\ \A f \in 0 .. c + 1 : SubSeq(game, 1, f) = KnownGame(p, f)'
       /\ \A n \in 0 .. c : KnownGame(p, n)' \in Games /\ Len(KnownGame(p, n)') = n
       /\ \A n \in 0 .. c : \A f \in 1 .. n : KnownGame(p, n)'[f] = Frame(p, f)'
  <2>1. \A n \in Nat : n <= c + 1 => n <= Len(own'[p])
    BY <1>3, <1>5, <1>6, DelayAssumption
  <2>2. \A n \in Nat : n <= c + 1 =>
          /\ KnownGame(p, n)' \in Games /\ Len(KnownGame(p, n)') = n
          /\ \A f \in 1 .. n : KnownGame(p, n)'[f] = Frame(p, f)'
          /\ \A f \in 0 .. n : SubSeq(KnownGame(p, n)', 1, f) = KnownGame(p, f)'
    BY <2>1, <1>8, KnownNext DEF KnownOK
  <2>3. /\ c + 1 \in Nat /\ c + 1 <= c + 1
        /\ \A n \in 0 .. c : n \in Nat /\ n <= c + 1
    BY <1>3
  <2> QED
    BY <2>2, <2>3
<1>11. /\ machine[p] \in Games /\ Len(machine[p]) = c
       /\ \A f \in 1 .. c : machine[p][f] = Frame(p, f)
       /\ \A f \in 0 .. c : SubSeq(machine[p], 1, f) = KnownGame(p, f)
       /\ \A f \in 0 .. c : KnownGame(p, f) \in Games /\ Len(KnownGame(p, f)) = f
       /\ \A f \in 0 .. c : \A i \in 1 .. f : KnownGame(p, f)[i] = Frame(p, i)
  <2>1. \A f \in 0 .. c : f \in Nat /\ f <= Len(own[p])
    BY <1>3, <1>4
  <2>2. \A f \in 0 .. c : /\ KnownGame(p, f) \in Games /\ Len(KnownGame(p, f)) = f
                          /\ \A i \in 1 .. f : KnownGame(p, f)[i] = Frame(p, i)
    <3> SUFFICES ASSUME NEW f \in 0 .. c
                 PROVE  /\ KnownGame(p, f) \in Games /\ Len(KnownGame(p, f)) = f
                        /\ \A i \in 1 .. f : KnownGame(p, f)[i] = Frame(p, i)
      OBVIOUS
    <3>1. f \in Nat /\ f <= Len(own[p])
      BY <2>1
    <3> QED
      BY <3>1, <1>4, KnownFacts
  <2>3. c \in Nat /\ c \in 0 .. c /\ c <= Len(own[p])
    BY <1>3, <1>4
  <2>4. machine[p] = KnownGame(p, c)
    BY <1>1
  <2>5. ASSUME NEW f \in 0 .. c
        PROVE  SubSeq(machine[p], 1, f) = KnownGame(p, f)
    BY <2>3, <2>4, <1>4, KnownPrefix
  <2>6. /\ machine[p] \in Games /\ Len(machine[p]) = c
        /\ \A f \in 1 .. c : machine[p][f] = Frame(p, f)
    BY <2>2, <2>3, <2>4
  <2> QED
    BY <2>2, <2>5, <2>6
<1>12. \A f \in 1 .. c : f <= heard[p] \/ gone[p] => Frame(p, f)' = Frame(p, f)
  <2> SUFFICES ASSUME NEW f \in 1 .. c, f <= heard[p] \/ gone[p]
               PROVE  Frame(p, f)' = Frame(p, f)
    OBVIOUS
  <2>1. f - 1 \in Nat /\ (f - 1 < heard[p] \/ gone[p]) /\ f \in 1 .. Len(own[p])
    BY <1>3, <1>4
  <2>2. r[f] = own[p][f]
    BY <2>1, <1>5
  <2>3. RemoteInput(p, h, lost, f - 1) = RemoteInput(p, heard[p], gone[p], f - 1)
    BY <2>1, <1>7
  <2>4. Frame(p, f)' = <<r[f], RemoteInput(p, h, lost, f - 1)>>
    BY <1>6 DEF Frame, RemoteInput
  <2> QED
    BY <2>2, <2>3, <2>4 DEF Frame
<1>13. k \in 0 .. 1 /\ InWindow(p, c, k)'
  <2>1. k \in 0 .. 1
    OBVIOUS
  <2>2. ASSUME ~ lost
        PROVE  c - h + k <= Window
    <3>1. c - heard[p] <= Window /\ heard[p] <= h
      BY <2>2, <1>1, <1>7
    <3>2. CASE k = 0
      BY <3>1, <3>2, <1>3, <1>4, <1>7, WindowAssumption
    <3>3. CASE k = 1
      <4>1. FramesAhead(c, h) < Window
        BY <3>3, <2>2
      <4> QED
        BY <4>1, <3>3, <1>3, <1>7, WindowAssumption DEF FramesAhead
    <3> QED
      BY <2>1, <3>2, <3>3
  <2> HIDE DEF k
  <2> QED
    BY <2>1, <2>2, <1>5, <1>6 DEF InWindow
<1>14. PICK wrong, First :
         /\ wrong = {f \in 0 .. c - 1 : machine[p][f + 1] # game[f + 1]}
         /\ First = CHOOSE f \in wrong : \A g \in wrong : f <= g
         /\ requests'[p] = (IF wrong = {} THEN <<>> ELSE Replay(First, SubSeq(game, 1, c)))
                             \o <<Save(c)>> \o Last(game, c, k)
  <2> DEFINE now == Known(p, r, h, lost, Len(machine[p]) + 1)
             W   == {f \in 0 .. Len(machine[p]) - 1 : machine[p][f + 1] # now[f + 1]}
             F   == CHOOSE f \in W : \A g \in W : f <= g
  <2>1. requests'[p] =
          (IF W = {} THEN <<>> ELSE Replay(F, SubSeq(now, 1, Len(machine[p]))))
            \o <<Save(Len(machine[p]))>>
            \o (IF lost \/ FramesAhead(Len(machine[p]), h) < Window
                THEN <<Advance(now[Len(machine[p]) + 1])>> ELSE <<>>)
    BY <1>6, Zenon DEF RequestsFor
  <2>2. F = CHOOSE f \in W : \A g \in W : f <= g
    OBVIOUS
  <2>3. now = game
    BY <1>1, <1>3, <1>9
  <2> HIDE DEF F, game, now
  <2>4. W = {f \in 0 .. c - 1 : machine[p][f + 1] # game[f + 1]}
    BY <1>1, <2>3
  <2> HIDE DEF W
  <2>5. (IF lost \/ FramesAhead(c, h) < Window THEN <<Advance(game[c + 1])>> ELSE <<>>)
          = Last(game, c, k)
    BY DEF Last
  <2> HIDE DEF k
  <2>6. requests'[p] = (IF W = {} THEN <<>> ELSE Replay(F, SubSeq(game, 1, c)))
                         \o <<Save(c)>> \o Last(game, c, k)
    BY <2>1, <2>3, <2>5, <1>1, Zenon
  <2> QED
    BY <2>2, <2>4, <2>6, Zenon
<1> HIDE DEF game, k
<1>15. ASSUME NEW n \in 0 .. c, \A f \in 0 .. n - 1 : machine[p][f + 1] = game[f + 1]
       PROVE  \A m \in 0 .. n : KnownGame(p, m)' = KnownGame(p, m)
  <2> SUFFICES ASSUME NEW m \in 0 .. n
               PROVE  KnownGame(p, m)' = KnownGame(p, m)
    OBVIOUS
  <2>1. m \in 0 .. c
    BY <1>3
  <2>2. ASSUME NEW f \in 1 .. m
        PROVE  KnownGame(p, m)'[f] = KnownGame(p, m)[f]
    <3>1. f \in 1 .. c /\ f \in 1 .. c + 1 /\ f - 1 \in 0 .. n - 1 /\ (f - 1) + 1 = f
      BY <1>3
    <3>2. machine[p][f] = game[f]
      BY <3>1, <1>15
    <3>3. Frame(p, f)' = Frame(p, f)
      BY <3>1, <3>2, <1>10, <1>11
    <3> QED
      BY <2>1, <3>3, <1>10, <1>11
  <2> DEFINE a == KnownGame(p, m)
             b == KnownGame(p, m)'
  <2>3. a \in Games /\ b \in Games /\ Len(a) = m /\ Len(b) = m /\ \A f \in 1 .. m : b[f] = a[f]
    BY <2>1, <2>2, <1>10, <1>11
  <2> HIDE DEF a, b
  <2>4. b = a
    BY <2>3, SeqEqual DEF Games
  <2> QED
    BY <2>4 DEF a, b
<1>16. ASSUME NEW n \in 0 .. c, \A m \in 0 .. n : KnownGame(p, m)' = KnownGame(p, m)
       PROVE  /\ ReadyBelow(p, n)'
              /\ Saved(p, n) => Saved(p, n)'
  <2>1. \A f \in 0 .. n : Saved(p, f) => Saved(p, f)'
    BY <1>3, <1>16 DEF Saved
  <2>2. ASSUME ~ lost, NEW f \in h .. n - 1
        PROVE  Saved(p, f)'
    <3>1. f \in heard[p] .. c - 1 /\ f \in 0 .. n
      BY <1>3, <1>4, <1>7
    <3>2. ~ gone[p]
      BY <2>2, <1>7
    <3> QED
      BY <3>1, <3>2, <2>1, <1>1 DEF ReadyBelow
  <2> QED
    BY <1>3, <1>6, <2>1, <2>2 DEF ReadyBelow
<1>17. \A f : f \in wrong <=> f \in 0 .. c - 1 /\ machine[p][f + 1] # game[f + 1]
  BY <1>14, Zenon
<1>18. CASE wrong = {}
  <2>1. requests'[p] = <<>> \o <<Save(c)>> \o Last(game, c, k)
    BY <1>14, <1>18
  <2>2. requests'[p] \in Seq(Requests) /\ SaveNext(game, requests'[p], c, c, k)
    BY <2>1, <1>3, <1>10, <1>13, CallForward
  <2>3. c \in 0 .. c /\ \A f \in 0 .. c - 1 : machine[p][f + 1] = game[f + 1]
    <3>1. ASSUME NEW f \in 0 .. c - 1, machine[p][f + 1] # game[f + 1]
          PROVE  FALSE
      <4>1. f \in wrong
        BY <3>1, <1>17
      <4> QED
        BY <4>1, <1>18
    <3> QED
      BY <3>1, <1>3
  <2>4. KnownGame(p, c)' = KnownGame(p, c) /\ ReadyBelow(p, c)'
    BY <2>3, <1>15, <1>16
  <2>5. SaveNext(KnownGame(p, c + 1)', requests'[p], c, c, k)
    BY <2>2 DEF game
  <2>6. machine'[p] = KnownGame(p, c)'
    BY <2>4, <1>1, <1>3
  <2>7. Saving(p, c, k)'
    BY <2>3, <2>4, <2>5, <2>6 DEF Saving, SaveNext
  <2> QED
    BY <2>2, <2>7, <1>3, <1>5, <1>6, <1>8, <1>13 DEF Busy
<1>19. CASE wrong # {}
  <2>1. wrong \in SUBSET Nat
    BY <1>3, <1>14
  <2>2. First \in wrong /\ \A g \in wrong : First <= g
    <3>1. \E f \in wrong : \A g \in wrong : f <= g
      BY <2>1, <1>19, FirstFrame
    <3>2. First = CHOOSE f \in wrong : \A g \in wrong : f <= g
      BY <1>14
    <3> QED
      BY <3>1, <3>2
  <2>3. First \in 0 .. c - 1 /\ machine[p][First + 1] # game[First + 1]
    BY <2>2, <1>17
  <2>4. \A f \in 0 .. First - 1 : machine[p][f + 1] = game[f + 1]
    <3> SUFFICES ASSUME NEW f \in 0 .. First - 1, machine[p][f + 1] # game[f + 1]
                 PROVE  FALSE
      OBVIOUS
    <3>1. f \in wrong
      BY <2>3, <1>3, <1>17
    <3>2. First <= f
      BY <3>1, <2>2
    <3> QED
      BY <3>2, <2>3, <1>3
  <2>5. requests'[p] = Replay(First, SubSeq(game, 1, c)) \o <<Save(c)>> \o Last(game, c, k)
    BY <1>14, <1>19
  <2>6. First \in Nat /\ First \in 0 .. c /\ First + 1 \in 1 .. c /\ First + 1 \in 1 .. c + 1
    BY <2>3, <1>3
  <2>7. requests'[p] \in Seq(Requests) /\ LoadNext(game, requests'[p], First, c, k)
    BY <2>3, <2>5, <1>3, <1>10, <1>13, CallBack
  <2>8. \A m \in 0 .. First : KnownGame(p, m)' = KnownGame(p, m)
    BY <2>4, <2>6, <1>15
  <2>9. ~ gone[p] /\ First \in heard[p] .. c - 1
    <3>1. Frame(p, First + 1)' # Frame(p, First + 1)
      BY <2>3, <2>6, <1>10, <1>11
    <3>2. ~ (First + 1 <= heard[p] \/ gone[p])
      BY <3>1, <2>6, <1>12
    <3> QED
      BY <3>2, <2>3, <1>3, <1>4
  <2>10. Saved(p, First)
    BY <2>9, <1>1 DEF ReadyBelow
  <2>11. Saved(p, First)' /\ ReadyBelow(p, First)'
    BY <2>6, <2>8, <2>10, <1>16
  <2>12. LoadNext(KnownGame(p, c + 1)', requests'[p], First, c, k)
    BY <2>7 DEF game
  <2>13. Loading(p, c, k)'
    BY <2>3, <2>11, <2>12 DEF Loading, LoadNext, AdvanceNext
  <2> QED
    BY <2>7, <2>13, <1>3, <1>5, <1>6, <1>8, <1>13 DEF Busy
<1> QED
  BY <1>18, <1>19

------------------------------------------------------------------------------
(* The invariant.                                                          *)

\* A step is one peer's.
LEMMA OtherFixed ==
  ASSUME TypeOK, NEW p \in Peers, NEW q \in Peers, q # p, Step(p)
  PROVE  /\ phase'[q] = phase[q] /\ own'[q] = own[q] /\ heard'[q] = heard[q]
         /\ gone'[q] = gone[q] /\ machine'[q] = machine[q] /\ cells'[q] = cells[q]
         /\ requests'[q] = requests[q]
<1> USE DEF TypeOK, netVars, loopVars, Serve
<1>1. CASE Synchronize(p)
  BY <1>1 DEF Synchronize
<1>2. CASE RedrawSyncing(p)
  BY <1>2 DEF RedrawSyncing
<1>3. CASE AdvanceFrame(p)
  BY <1>3 DEF AdvanceFrame
<1>4. CASE SaveGameState(p)
  <2>1. cells'[q] = cells[q]
    BY <1>4 DEF SaveGameState
  <2>2. requests'[q] = requests[q]
    BY <1>4 DEF SaveGameState
  <2> QED
    BY <1>4, <2>1, <2>2 DEF SaveGameState
<1>5. CASE LoadGameState(p)
  BY <1>5 DEF LoadGameState
<1>6. CASE PlayFrame(p)
  BY <1>6 DEF PlayFrame
<1>7. CASE Return(p)
  BY <1>7 DEF Return
<1>8. CASE Leave(p)
  BY <1>8 DEF Leave
<1> QED
  BY <1>1, <1>2, <1>3, <1>4, <1>5, <1>6, <1>7, <1>8 DEF Step, Handle

\* The peer that takes the step, and the types.
LEMMA StepIInv ==
  ASSUME IInv, NEW p \in Peers, Step(p)
  PROVE  /\ TypeOK'
         /\ \A f \in 1 .. Len(own[p]) : own'[p][f] = own[p][f]
         /\ phase'[p] \in {"syncing", "running"} => Resting(p)'
         /\ phase'[p] = "handling" => Busy(p)'
<1>1. /\ TypeOK
      /\ phase[p] \in {"syncing", "running"} => Resting(p)
      /\ phase[p] = "handling" => Busy(p)
  BY DEF IInv
<1>2. CASE Synchronize(p)
  <2>1. phase[p] = "syncing" /\ UNCHANGED <<netVars, loopVars>> /\ phase'[p] = "running"
    BY <1>1, <1>2 DEF Synchronize, TypeOK
  <2>2. TypeOK'
    BY <1>1, <1>2 DEF Synchronize, TypeOK, netVars, loopVars, Phases, Ended
  <2>3. Resting(p)'
    BY <1>1, <2>1, LeftAlone DEF netVars, loopVars
  <2> QED
    BY <2>1, <2>2, <2>3 DEF netVars
<1>3. CASE RedrawSyncing(p)
  <2>1. UNCHANGED netVars /\ phase'[p] = "dropped"
    BY <1>1, <1>3 DEF RedrawSyncing, TypeOK
  <2>2. TypeOK'
    BY <1>1, <1>3 DEF RedrawSyncing, TypeOK, netVars, loopVars, Phases, Ended
  <2> QED
    BY <2>1, <2>2 DEF netVars
<1>4. CASE AdvanceFrame(p)
  <2>1. phase[p] = "running" /\ phase'[p] = "handling" /\ UNCHANGED <<machine, cells, advanced, emu>>
    BY <1>1, <1>4 DEF AdvanceFrame, TypeOK
  <2>2. /\ NetOK'
        /\ requests'[p] \in Seq(Requests)
        /\ Len(own[p]) <= Len(own'[p])
        /\ \A f \in 1 .. Len(own[p]) : own'[p][f] = own[p][f]
        /\ Busy(p)'
    BY <1>1, <1>4, <2>1, AdvanceFrameStep
  <2>3. phase' \in [Peers -> Phases] /\ gone' \in [Peers -> BOOLEAN]
    BY <1>1, <1>4 DEF AdvanceFrame, TypeOK, Phases
  <2>4. requests' \in [Peers -> Seq(Requests)]
    <3>1. \E rs : requests' = [requests EXCEPT ![p] = rs]
      BY <1>4 DEF AdvanceFrame
    <3> QED
      BY <3>1, <2>2, <1>1 DEF TypeOK
  <2>5. \A q \in Peers : Len(machine'[q]) <= Len(own'[q])
    <3> SUFFICES ASSUME NEW q \in Peers
                 PROVE  Len(machine'[q]) <= Len(own'[q])
      OBVIOUS
    <3>1. /\ Len(machine[q]) <= Len(own[q]) /\ machine'[q] = machine[q]
          /\ machine[q] \in Games /\ own[q] \in Seq(Inputs) /\ own'[q] \in Seq(Inputs)
      BY <1>1, <2>1, <2>2 DEF TypeOK, NetOK
    <3>2. Len(machine[q]) \in Nat /\ Len(own[q]) \in Nat /\ Len(own'[q]) \in Nat
      BY <3>1 DEF Games
    <3>3. CASE q = p
      BY <3>1, <3>2, <3>3, <2>2
    <3>4. CASE q # p
      BY <3>1, <3>4, <1>1, <1>4, OtherFixed DEF Step
    <3> QED
      BY <3>3, <3>4
  <2>6. TypeOK'
    BY <1>1, <2>1, <2>2, <2>3, <2>4, <2>5 DEF TypeOK, NetOK
  <2> QED
    BY <2>1, <2>2, <2>6
<1>5. CASE SaveGameState(p)
  <2>1. /\ phase[p] = "handling" /\ UNCHANGED <<phase, netVars, emu, machine, advanced>>
        /\ requests[p] # <<>>
        /\ requests' = [requests EXCEPT ![p] = Tail(@)]
        /\ cells' = [cells EXCEPT ![p][Cell(Head(requests[p]).frame)] =
                       [frame |-> Head(requests[p]).frame, machine |-> machine[p]]]
    BY <1>5 DEF SaveGameState, Serve
  <2>2. Busy(p)' /\ Head(requests[p]).frame \in 0 .. MaxFrames
    BY <1>1, <1>5, <2>1, SaveStep
  <2>3. requests' \in [Peers -> Seq(Requests)]
    BY <1>1, <2>1 DEF TypeOK
  <2>4. cells' \in [Peers -> [0 .. Window -> [frame : Nat \union {-1}, machine : Games]]]
    <3> DEFINE f == Head(requests[p]).frame
               x == [frame |-> f, machine |-> machine[p]]
    <3>1. f \in Nat /\ Cell(f) \in 0 .. Window
      BY <2>2, CellFacts, FrameAssumption
    <3>2. x \in [frame : Nat \union {-1}, machine : Games]
      BY <3>1, <1>1 DEF TypeOK
    <3>3. cells' = [cells EXCEPT ![p][Cell(f)] = x]
      BY <2>1
    <3> HIDE DEF f, x
    <3> QED
      BY <3>1, <3>2, <3>3, <1>1 DEF TypeOK
  <2>5. TypeOK'
    BY <1>1, <2>1, <2>3, <2>4 DEF TypeOK, netVars
  <2> QED
    BY <2>1, <2>2, <2>5 DEF netVars
<1>6. ASSUME LoadGameState(p) \/ PlayFrame(p)
      PROVE  /\ TypeOK' /\ own' = own
             /\ phase'[p] = "handling" /\ Busy(p)'
  <2>1. /\ phase[p] = "handling" /\ UNCHANGED <<phase, netVars, emu, cells>>
        /\ requests[p] # <<>>
        /\ requests' = [requests EXCEPT ![p] = Tail(@)]
        /\ \E m : machine' = [machine EXCEPT ![p] = m]
        /\ advanced' = advanced \/ advanced' = [advanced EXCEPT ![p] = TRUE]
    BY <1>6 DEF LoadGameState, PlayFrame, Serve
  <2>2. /\ Busy(p)'
        /\ machine'[p] \in Games /\ Len(machine'[p]) <= MaxFrames
        /\ Len(machine'[p]) <= Len(own[p])
    BY <1>1, <1>6, <2>1, LoadStep, PlayStep
  <2>3. requests' \in [Peers -> Seq(Requests)]
    BY <1>1, <2>1 DEF TypeOK
  <2>4. /\ machine' \in [Peers -> Games]
        /\ \A q \in Peers : /\ Len(machine'[q]) <= MaxFrames
                            /\ Len(machine'[q]) <= Len(own'[q])
    BY <1>1, <2>1, <2>2 DEF TypeOK, netVars
  <2>5. advanced' \in [Peers -> BOOLEAN]
    BY <1>1, <2>1 DEF TypeOK
  <2>6. TypeOK'
    BY <1>1, <2>1, <2>3, <2>4, <2>5 DEF TypeOK, netVars
  <2> QED
    BY <2>1, <2>2, <2>6 DEF netVars
<1>7. CASE Return(p)
  <2>1. /\ phase[p] = "handling" /\ phase'[p] = "running"
        /\ UNCHANGED <<netVars, machine, cells, requests>>
    BY <1>1, <1>7 DEF Return, TypeOK
  <2>2. Resting(p)'
    BY <1>1, <1>7, <2>1, ReturnStep
  <2>3. phase' \in [Peers -> Phases] /\ advanced' \in [Peers -> BOOLEAN] /\ emu' \in [Peers -> Games]
    BY <1>1, <1>7 DEF Return, TypeOK, Phases
  <2>4. TypeOK'
    BY <1>1, <2>1, <2>3 DEF TypeOK, netVars
  <2> QED
    BY <2>1, <2>2, <2>4 DEF netVars
<1>8. CASE Leave(p)
  <2>1. UNCHANGED netVars /\ phase'[p] = "over"
    BY <1>1, <1>8 DEF Leave, TypeOK
  <2>2. TypeOK'
    BY <1>1, <1>8 DEF Leave, TypeOK, netVars, loopVars, Phases, Ended
  <2> QED
    BY <2>1, <2>2 DEF netVars
<1> QED
  BY <1>2, <1>3, <1>4, <1>5, <1>6, <1>7, <1>8 DEF Step, Handle

\* A session starts at rest, with nothing played (session.rs 107-152).
THEOREM InitIInv == Init => IInv
<1> SUFFICES ASSUME Init
             PROVE  IInv
  OBVIOUS
<1>1. TypeOK
  <2>1. <<>> \in Seq(Inputs) /\ <<>> \in Games /\ <<>> \in Seq(Requests)
    BY DEF Games
  <2>2. NoCell \in [frame : Nat \union {-1}, machine : Games]
    BY <2>1 DEF NoCell
  <2>3. \A p \in Peers : heard[p] = 0 /\ machine[p] = <<>> /\ own[p] = <<>> /\ own[Other(p)] = <<>>
    BY OtherFacts DEF Init
  <2> QED
    BY <2>1, <2>2, <2>3, FrameAssumption DEF Init, TypeOK, Phases
<1>2. ASSUME NEW p \in Peers
      PROVE  Resting(p) /\ phase[p] = "syncing"
  <2>1. /\ machine[p] = <<>> /\ own[p] = <<>> /\ heard[p] = 0 /\ phase[p] = "syncing"
        /\ 0 \in 0 .. MaxFrames
    BY FrameAssumption DEF Init
  <2>2. KnownGame(p, 0) \in Games /\ Len(KnownGame(p, 0)) = 0
    BY <1>1, <2>1, NetFacts, KnownFacts
  <2>3. machine[p] = KnownGame(p, 0)
    BY <2>1, <2>2, EmptySeq DEF Games
  <2>4. ReadyBelow(p, 0) /\ 0 - heard[p] <= Window
    BY <2>1, WindowAssumption DEF ReadyBelow
  <2> QED
    BY <2>1, <2>3, <2>4 DEF Resting
<1> QED
  BY <1>1, <1>2 DEF IInv

\* Every poll, every request served and every return keeps the loop's promise
\* (session.rs 255-314).
THEOREM NextIInv == IInv /\ [Next]_vars => IInv'
<1> SUFFICES ASSUME IInv, [Next]_vars
             PROVE  IInv'
  OBVIOUS
<1>1. /\ TypeOK
      /\ \A q \in Peers : /\ phase[q] \in {"syncing", "running"} => Resting(q)
                          /\ phase[q] = "handling" => Busy(q)
  BY DEF IInv
<1>2. ASSUME NEW p \in Peers, Step(p)
      PROVE  IInv'
  <2>1. /\ TypeOK'
        /\ \A f \in 1 .. Len(own[p]) : own'[p][f] = own[p][f]
        /\ phase'[p] \in {"syncing", "running"} => Resting(p)'
        /\ phase'[p] = "handling" => Busy(p)'
    BY <1>2, StepIInv
  <2>2. ASSUME NEW q \in Peers, q # p
        PROVE  /\ phase'[q] \in {"syncing", "running"} => Resting(q)'
               /\ phase'[q] = "handling" => Busy(q)'
    <3>1. /\ phase'[q] = phase[q] /\ own'[q] = own[q] /\ heard'[q] = heard[q]
          /\ gone'[q] = gone[q] /\ machine'[q] = machine[q] /\ cells'[q] = cells[q]
          /\ requests'[q] = requests[q]
      BY <1>1, <1>2, <2>2, OtherFixed
    <3>2. Other(q) = p
      BY <2>2 DEF Peers, Other
    <3>3. \A f \in 1 .. heard[q] : own'[Other(q)][f] = own[Other(q)][f]
      <4>1. heard[q] \in Nat /\ heard[q] <= Len(own[p]) /\ own[p] \in Seq(Inputs)
        BY <1>1, <3>2 DEF TypeOK
      <4>2. \A f \in 1 .. heard[q] : f \in 1 .. Len(own[p])
        BY <4>1
      <4> QED
        BY <4>2, <3>2, <2>1
    <3>4. (Resting(q) => Resting(q)') /\ (Busy(q) => Busy(q)')
      BY <1>1, <3>1, <3>3, LeftAlone
    <3> QED
      BY <1>1, <3>1, <3>4
  <2> QED
    BY <2>1, <2>2 DEF IInv
<1>3. CASE UNCHANGED vars
  <2>1. ASSUME NEW q \in Peers
        PROVE  (Resting(q) => Resting(q)') /\ (Busy(q) => Busy(q)')
    BY <1>1, <1>3, LeftAlone DEF vars, netVars, loopVars
  <2>2. TypeOK'
    BY <1>1, <1>3 DEF TypeOK, vars, netVars, loopVars
  <2> QED
    BY <1>1, <1>3, <2>1, <2>2 DEF IInv, vars
<1> QED
  BY <1>2, <1>3 DEF Next

\* The types of the whole game: what has been heard has been sent, and no
\* machine is ahead of its own player's inputs.
THEOREM TypeCorrect == Spec => []TypeOK
<1>1. IInv => TypeOK
  BY DEF IInv
<1> QED
  BY InitIInv, NextIInv, <1>1, PTL DEF Spec

\* AsIfKnown, for any inputs, delay, window and length: between two calls of
\* advance_frame the machine has played, from the start, what is known by now.
THEOREM PlaysAsIfKnown == Spec => []AsIfKnown
<1>1. IInv => AsIfKnown
  <2> SUFFICES ASSUME IInv, NEW p \in Peers, phase[p] = "running"
               PROVE  machine[p] = Known(p, own[p], heard[p], gone[p], Len(machine[p]))
    BY DEF AsIfKnown
  <2>1. Resting(p)
    BY DEF IInv
  <2> QED
    BY <2>1 DEF Resting, KnownGame
<1> QED
  BY InitIInv, NextIInv, <1>1, PTL DEF Spec

\* RollbackReady, for any inputs, delay, window and length: the cells of the
\* frames that may be wrong are the ones the machine went through.
THEOREM CanRollBack == Spec => []RollbackReady
<1>1. IInv => RollbackReady
  <2> SUFFICES ASSUME IInv, NEW p \in Peers, phase[p] = "running",
                      NEW f \in heard[p] .. Len(machine[p]) - 1, ~ gone[p]
               PROVE  cells[p][Cell(f)] = [frame |-> f, machine |-> SubSeq(machine[p], 1, f)]
    BY DEF RollbackReady
  <2>1. TypeOK /\ Resting(p)
    BY DEF IInv
  <2>2. PICK c \in 0 .. MaxFrames : /\ Len(machine[p]) = c
                                    /\ machine[p] = KnownGame(p, c)
                                    /\ ReadyBelow(p, c)
    BY <2>1 DEF Resting
  <2>3. heard[p] \in Nat /\ c \in Nat /\ c <= Len(own[p])
    BY <2>1, <2>2, FrameAssumption DEF TypeOK
  <2>4. f \in heard[p] .. c - 1 /\ f \in 0 .. c
    BY <2>2, <2>3
  <2>5. Saved(p, f)
    BY <2>2, <2>4 DEF ReadyBelow
  <2>6. SubSeq(machine[p], 1, f) = KnownGame(p, f)
    BY <2>1, <2>2, <2>3, <2>4, NetFacts, KnownPrefix
  <2> QED
    BY <2>5, <2>6 DEF Saved
<1> QED
  BY InitIInv, NextIInv, <1>1, PTL DEF Spec
==============================================================================
