---------------------------- MODULE WindowProofs -----------------------------
(***************************************************************************)
(* The touch overlay, for any lines; the answers to the window's requests, *)
(* which land where they belong for any ROMs and any number of requests    *)
(* and events; and the redraws of a script, which are honest whatever      *)
(* program it runs, of any length, for any ROMs.                           *)
(*                                                                         *)
(* TouchOnce alone is inductive only for a redraw whose latch is a Boolean *)
(* that Apply really turns: the types and the finger's absence from what   *)
(* was held are what makes a new touch flip, and an old one not.           *)
(*                                                                         *)
(* AnswersBelong says nothing of the exchanges on their way, on which it   *)
(* depends: Sound adds that each of them has a number of its own (Apart),  *)
(* that one login at most is among them and the library waits for it, and  *)
(* that every other is of the load in progress or of one given up.  Sound  *)
(* speaks of a state of the library and a set of exchanges, so that it can *)
(* be shown of each call the handlers are made of, one after the other.    *)
(*                                                                         *)
(* A script's run is a recursive function over the positions of its calls. *)
(* That there is one (RunExists) and what every call keeps (RunKeeps) are  *)
(* shown by the least position at which they would fail.                   *)
(***************************************************************************)
EXTENDS Input, Cheevos, Scripts, SequenceTheorems, WellFoundedInduction, TLAPS

------------------------------------------------------------------------------
(* The touch overlay.                                                      *)

\* What the window holds.
WindowTypes ==
  /\ down \subseteq Lines
  /\ held \subseteq Lines
  /\ input \in [Lines -> BOOLEAN]
  /\ flipped \in [Latches -> 0 .. 1]

InputInv == WindowTypes /\ TouchOnce

\* A press turns a latch over, and its release leaves it (app.rs, apply_action).
LEMMA LatchTurns ==
  ASSUME NEW state \in [Lines -> BOOLEAN], NEW l \in Latches
  PROVE  Apply(state, l, TRUE)[l] = ~ state[l] /\ Apply(state, l, FALSE)[l] = state[l]
<1>1. l \in Lines /\ l \notin Momentary
  BY InputAssumption DEF Lines
<1>2. state[l] \in BOOLEAN
  BY <1>1
<1>3. \A b \in BOOLEAN : Apply(state, l, b)[l] = (state[l] # b)
  BY <1>1 DEF Apply
<1> QED
  BY <1>2, <1>3

\* Apply keeps the window's input a Boolean for every line.
LEMMA ApplyTypes ==
  ASSUME NEW state \in [Lines -> BOOLEAN], NEW l \in Lines, NEW b \in BOOLEAN
  PROVE  Apply(state, l, b) \in [Lines -> BOOLEAN]
BY DEF Apply

\* An update of the overlay turns exactly the latches that fingers have newly
\* come to (input.rs 415-435).
LEMMA TouchedFacts ==
  ASSUME WindowTypes
  PROVE  /\ Touched(down) \in [Lines -> BOOLEAN]
         /\ \A l \in Latches :
              Touched(down)[l] = IF l \in down \ held THEN ~ input[l] ELSE input[l]
<1> USE DEF WindowTypes
<1>1. Touched(down) \in [Lines -> BOOLEAN]
  <2> SUFFICES ASSUME NEW l \in Lines
               PROVE  /\ Apply(input, l, TRUE)[l] \in BOOLEAN
                      /\ Apply(input, l, FALSE)[l] \in BOOLEAN
                      /\ input[l] \in BOOLEAN
    BY DEF Touched
  <2>1. Apply(input, l, TRUE) \in [Lines -> BOOLEAN] /\ Apply(input, l, FALSE) \in [Lines -> BOOLEAN]
    BY ApplyTypes
  <2> QED
    BY <2>1
<1>2. ASSUME NEW l \in Latches
      PROVE  Touched(down)[l] = IF l \in down \ held THEN ~ input[l] ELSE input[l]
  <2>1. l \in Lines /\ l \notin Momentary
    BY InputAssumption DEF Lines
  <2>2. l \notin Released(down)
    BY <2>1 DEF Released
  <2> QED
    BY <2>1, <2>2, LatchTurns DEF Touched, Pressed
<1> QED
  BY <1>1, <1>2

\* A redraw in a browser keeps the count of flips of every touch (input.rs
\* 415-435, wasm's dispatch of the overlay's edges).
LEMMA RedrawCounts ==
  ASSUME InputInv, NEW due \in BOOLEAN, RenderBrowser(due)
  PROVE  InputInv'
<1> USE DEF InputInv, WindowTypes
<1>1. CASE visible
  <2>1. /\ input' = Touched(down) /\ held' = down /\ down' = down
        /\ flipped' = [l \in Latches |->
                         IF l \notin down THEN 0
                         ELSE IF input'[l] # input[l] /\ flipped[l] < 2 THEN flipped[l] + 1
                         ELSE flipped[l]]
    BY <1>1 DEF RenderBrowser
  <2>2. input' \in [Lines -> BOOLEAN] /\ held' \subseteq Lines /\ down' \subseteq Lines
    BY <2>1, TouchedFacts
  <2>3. ASSUME NEW l \in Latches
        PROVE  flipped'[l] = IF l \in held' THEN 1 ELSE 0
    <3>1. l \in Lines
      BY DEF Lines
    <3>2. flipped[l] = IF l \in held THEN 1 ELSE 0
      BY DEF TouchOnce
    <3>3. (input'[l] # input[l]) <=> l \in down \ held
      <4>1. input[l] \in BOOLEAN
        BY <3>1
      <4>2. input'[l] = IF l \in down \ held THEN ~ input[l] ELSE input[l]
        BY <2>1, TouchedFacts
      <4> QED
        BY <4>1, <4>2
    <3>4. flipped'[l] = IF l \notin down THEN 0
                        ELSE IF l \in down \ held THEN flipped[l] + 1
                        ELSE flipped[l]
      BY <2>1, <3>2, <3>3
    <3> QED
      BY <2>1, <3>2, <3>4
  <2>4. flipped' \in [Latches -> 0 .. 1]
    <3>1. flipped' = [l \in Latches |-> flipped'[l]]
      BY <2>1
    <3> QED
      BY <2>3, <3>1
  <2> QED
    BY <2>2, <2>3, <2>4 DEF TouchOnce
<1>2. CASE ~ visible
  BY <1>2 DEF RenderBrowser, TouchOnce
<1> QED
  BY <1>1, <1>2

\* With no touch yet, each latch has been flipped as often as touched.
THEOREM InitInputInv == Init => InputInv
BY DEF Init, InputInv, WindowTypes, TouchOnce, Lines

\* And every key, finger, redraw, hiding and load keeps it so.
THEOREM NextInputInv == InputInv /\ [Next]_vars => InputInv'
<1> SUFFICES ASSUME InputInv, [Next]_vars
             PROVE  InputInv'
  OBVIOUS
<1>1. ASSUME UNCHANGED <<down, input, held, flipped>>
      PROVE  InputInv'
  BY <1>1 DEF InputInv, WindowTypes, TouchOnce
<1>2. ASSUME NEW l \in Lines, NEW pressed \in BOOLEAN, KeyEvent(l, pressed)
      PROVE  InputInv'
  <2>1. input' \in [Lines -> BOOLEAN]
    BY <1>2, ApplyTypes DEF KeyEvent, InputInv, WindowTypes
  <2>2. down' \subseteq Lines /\ held' = held /\ flipped' = flipped
    BY <1>2 DEF KeyEvent, InputInv, WindowTypes
  <2> QED
    BY <2>1, <2>2 DEF InputInv, WindowTypes, TouchOnce
<1>3. ASSUME NEW l \in Lines, Finger(l)
      PROVE  InputInv'
  BY <1>3 DEF Finger, InputInv, WindowTypes, TouchOnce
<1>4. ASSUME NEW l \in Latches, ApplyConsoleSwitch(l)
      PROVE  InputInv'
  <2>1. input' \in [Lines -> BOOLEAN]
    BY <1>4 DEF ApplyConsoleSwitch, InputInv, WindowTypes, Lines
  <2>2. down' = down /\ held' = held /\ flipped' = flipped
    BY <1>4 DEF ApplyConsoleSwitch
  <2> QED
    BY <2>1, <2>2 DEF InputInv, WindowTypes, TouchOnce
<1>5. ASSUME NEW due \in BOOLEAN, RenderBrowser(due)
      PROVE  InputInv'
  BY <1>5, RedrawCounts
<1>6. CASE RenderNative \/ TogglePause \/ LoadState
  BY <1>1, <1>6 DEF RenderNative, TogglePause, LoadState, window
<1>7. CASE ToggleOverlay \/ EmuPass
  BY <1>1, <1>7 DEF ToggleOverlay, EmuPass, window
<1>8. ASSUME NEW l \in Ported, WritePort(l)
      PROVE  InputInv'
  BY <1>1, <1>8 DEF WritePort, window
<1>9. CASE UNCHANGED vars
  BY <1>1, <1>9 DEF vars, window
<1> QED
  BY <1>2, <1>3, <1>4, <1>5, <1>6, <1>7, <1>8, <1>9 DEF Next

\* A touch flips its latching switch exactly once, for any lines, any fingers and
\* any order of redraws, hiding and loading.
THEOREM InputTouchOnce == Spec => []TouchOnce
<1>1. Init => InputInv
  BY InitInputInv
<1>2. InputInv /\ [Next]_vars => InputInv'
  BY NextInputInv
<1>3. InputInv => TouchOnce
  BY DEF InputInv
<1> QED
  BY <1>1, <1>2, <1>3, PTL DEF Spec

------------------------------------------------------------------------------
(* The state of the window, the library and the worker.                    *)

Job == [kind : {"login", "sets", "session"}, id : Ids]
Answer == [job : Job, answer : {"ok", "error", "unknown"}]
Client ==
  [login : {"LoggedOut", "LoggingIn", "LoggedIn", "Error"}, loaded : BOOLEAN,
   of : [Ids -> Roms \cup {NoRom}], called : [Ids -> 0 .. 2],
   user : {"none", "requested", "in"}, load : Nat, awaits : BOOLEAN, aborted : SUBSET Ids,
   game : [rom : Roms \cup {NoRom}, live : BOOLEAN, waiting : BOOLEAN], hardcore : BOOLEAN,
   jobs : Seq(Job), events : Seq({"Reset"})]

TypeOK ==
  /\ rom \in Roms \cup {NoRom}
  /\ made \in 0 .. MaxRequests
  /\ s \in Client
  /\ worker \in Job \cup {NoJob}
  /\ done \in Seq(Answer)
  /\ pumping \in BOOLEAN

------------------------------------------------------------------------------
(* The exchanges on their way.                                             *)

Exchanges(q, w, d) ==
  {q[i] : i \in 1 .. Len(q)} \cup {d[i].job : i \in 1 .. Len(d)} \cup ({w} \ {NoJob})

\* No two of them have the same number.
Apart(q, w, d) ==
  /\ \A i, k \in 1 .. Len(q) : q[i].id = q[k].id => i = k
  /\ \A i, k \in 1 .. Len(d) : d[i].job.id = d[k].job.id => i = k
  /\ \A i \in 1 .. Len(q), k \in 1 .. Len(d) : q[i].id # d[k].job.id
  /\ w # NoJob => /\ \A i \in 1 .. Len(q) : q[i].id # w.id
                  /\ \A k \in 1 .. Len(d) : d[k].job.id # w.id

\* A new one with a number that none has.
LEMMA Asked ==
  ASSUME NEW q \in Seq(Job), NEW w \in Job \cup {NoJob}, NEW d \in Seq(Answer), NEW j \in Job,
         Apart(q, w, d), \A k \in Exchanges(q, w, d) : k.id # j.id
  PROVE  /\ Append(q, j) \in Seq(Job)
         /\ Apart(Append(q, j), w, d)
         /\ Exchanges(Append(q, j), w, d) = Exchanges(q, w, d) \cup {j}
<1> DEFINE p == Append(q, j)
           n == Len(q)
<1>1. /\ p \in Seq(Job) /\ n \in Nat /\ Len(p) = n + 1 /\ p[n + 1] = j
      /\ \A i \in 1 .. n : p[i] = q[i]
  BY AppendProperties
<1> HIDE DEF p, n
<1>2. /\ \A i \in 1 .. n : q[i].id # j.id
      /\ \A i \in 1 .. Len(d) : d[i].job.id # j.id
      /\ w # NoJob => w.id # j.id
  BY DEF Exchanges, n
<1>3. Apart(p, w, d)
  <2>1. \A i \in 1 .. n + 1 : i \in 1 .. n \/ i = n + 1
    BY <1>1
  <2>2. \A i, k \in 1 .. n + 1 : p[i].id = p[k].id => i = k
    BY <1>1, <1>2, <2>1 DEF Apart, n
  <2>3. \A i \in 1 .. n + 1, k \in 1 .. Len(d) : p[i].id # d[k].job.id
    BY <1>1, <1>2, <2>1 DEF Apart, n
  <2>4. w # NoJob => \A i \in 1 .. n + 1 : p[i].id # w.id
    BY <1>1, <1>2, <2>1 DEF Apart, n
  <2> QED
    BY <1>1, <2>2, <2>3, <2>4 DEF Apart
<1>4. {p[i] : i \in 1 .. n + 1} = {q[i] : i \in 1 .. n} \cup {j}
  <2>1. /\ \A i \in 1 .. n + 1 : i \in 1 .. n \/ i = n + 1
        /\ \A i \in 1 .. n : i \in 1 .. n + 1
        /\ n + 1 \in 1 .. n + 1
    BY <1>1
  <2>2. \A i \in 1 .. n + 1 : p[i] \in {q[k] : k \in 1 .. n} \/ p[i] = j
    BY <1>1, <2>1, Zenon
  <2>3. \A i \in 1 .. n : q[i] \in {p[k] : k \in 1 .. n + 1}
    BY <1>1, <2>1, Zenon
  <2>4. j \in {p[k] : k \in 1 .. n + 1}
    BY <1>1, <2>1, Zenon
  <2> QED
    BY <2>2, <2>3, <2>4, Zenon
<1> QED
  BY <1>1, <1>3, <1>4 DEF Exchanges, p, n

\* The first of the queue goes to the worker.
LEMMA Taken ==
  ASSUME NEW q \in Seq(Job), NEW d \in Seq(Answer), Apart(q, NoJob, d), q # <<>>
  PROVE  /\ Head(q) \in Job /\ Tail(q) \in Seq(Job)
         /\ Apart(Tail(q), Head(q), d)
         /\ Exchanges(Tail(q), Head(q), d) = Exchanges(q, NoJob, d)
<1> DEFINE t == Tail(q)
           n == Len(q)
<1>1. /\ Head(q) = q[1] /\ q[1] \in Job /\ n \in Nat /\ n >= 1
      /\ t \in Seq(Job) /\ Len(t) = n - 1 /\ \A i \in 1 .. n - 1 : t[i] = q[i + 1]
  BY HeadTailProperties, LenProperties
<1> HIDE DEF t, n
<1>2. Head(q) # NoJob
  BY <1>1 DEF Job, NoJob
<1>3. Apart(t, q[1], d)
  <2>1. /\ 1 \in 1 .. n
        /\ \A i \in 1 .. n - 1 : i + 1 \in 1 .. n /\ i + 1 # 1 /\ i \in Int
    BY <1>1
  <2>2. \A i, k \in 1 .. n - 1 : t[i].id = t[k].id => i = k
    <3> SUFFICES ASSUME NEW i \in 1 .. n - 1, NEW k \in 1 .. n - 1, t[i].id = t[k].id
                 PROVE  i = k
      OBVIOUS
    <3>1. i + 1 \in 1 .. Len(q) /\ k + 1 \in 1 .. Len(q) /\ q[i + 1].id = q[k + 1].id
      BY <1>1, <2>1 DEF n
    <3>2. i + 1 = k + 1
      BY <3>1 DEF Apart
    <3> QED
      BY <3>2, <2>1
  <2>3. \A i \in 1 .. n - 1, k \in 1 .. Len(d) : t[i].id # d[k].job.id
    <3> SUFFICES ASSUME NEW i \in 1 .. n - 1, NEW k \in 1 .. Len(d)
                 PROVE  t[i].id # d[k].job.id
      OBVIOUS
    <3>1. i + 1 \in 1 .. Len(q) /\ t[i] = q[i + 1]
      BY <1>1, <2>1 DEF n
    <3> QED
      BY <3>1 DEF Apart
  <2>4. /\ \A i \in 1 .. n - 1 : t[i].id # q[1].id
        /\ \A k \in 1 .. Len(d) : d[k].job.id # q[1].id
    BY <1>1, <2>1 DEF Apart, n
  <2> QED
    BY <1>1, <2>2, <2>3, <2>4 DEF Apart
<1>4. {t[i] : i \in 1 .. n - 1} \cup {q[1]} = {q[i] : i \in 1 .. n}
  <2>1. \A i \in 1 .. n : i = 1 \/ (i - 1 \in 1 .. n - 1 /\ (i - 1) + 1 = i)
    BY <1>1
  <2>2. ASSUME NEW i \in 1 .. n
        PROVE  q[i] \in {t[k] : k \in 1 .. n - 1} \cup {q[1]}
    <3>1. CASE i = 1
      BY <3>1, Zenon
    <3>2. CASE i - 1 \in 1 .. n - 1 /\ (i - 1) + 1 = i
      <4>1. t[i - 1] = q[i]
        BY <1>1, <3>2
      <4> QED
        BY <3>2, <4>1, Zenon
    <3> QED
      BY <2>1, <3>1, <3>2
  <2>3. \A i \in 1 .. n - 1 : i + 1 \in 1 .. n
    BY <1>1
  <2>4. 1 \in 1 .. n
    BY <1>1
  <2>5. \A i \in 1 .. n - 1 : t[i] \in {q[k] : k \in 1 .. n}
    BY <1>1, <2>3
  <2>6. q[1] \in {q[k] : k \in 1 .. n}
    BY <2>4
  <2> QED
    BY <2>2, <2>5, <2>6
<1> QED
  BY <1>1, <1>2, <1>3, <1>4 DEF Exchanges, t, n

\* The worker's exchange ends.
LEMMA Ended ==
  ASSUME NEW q \in Seq(Job), NEW w \in Job, NEW d \in Seq(Answer), NEW a \in Answer,
         a.job = w, Apart(q, w, d)
  PROVE  /\ d \o <<a>> \in Seq(Answer)
         /\ Apart(q, NoJob, d \o <<a>>)
         /\ Exchanges(q, NoJob, d \o <<a>>) = Exchanges(q, w, d)
<1> DEFINE e == d \o <<a>>
           n == Len(d)
<1>1. /\ e \in Seq(Answer) /\ n \in Nat /\ Len(e) = n + 1 /\ e[n + 1] = a
      /\ \A i \in 1 .. n : e[i] = d[i]
  BY AppendProperties, AppendIsConcat
<1> HIDE DEF e, n
<1>2. w # NoJob
  BY DEF Job, NoJob
<1>3. Apart(q, NoJob, e)
  <2>1. \A i \in 1 .. n + 1 : i \in 1 .. n \/ i = n + 1
    BY <1>1
  <2>2. \A i, k \in 1 .. n + 1 : e[i].job.id = e[k].job.id => i = k
    BY <1>1, <1>2, <2>1 DEF Apart, n
  <2>3. \A i \in 1 .. Len(q), k \in 1 .. n + 1 : q[i].id # e[k].job.id
    BY <1>1, <1>2, <2>1 DEF Apart, n
  <2>4. \A i, k \in 1 .. Len(q) : q[i].id = q[k].id => i = k
    BY DEF Apart
  <2> QED
    BY <1>1, <2>2, <2>3, <2>4 DEF Apart
<1>4. {e[i].job : i \in 1 .. n + 1} = {d[i].job : i \in 1 .. n} \cup {w}
  BY <1>1
<1> QED
  BY <1>1, <1>2, <1>3, <1>4 DEF Exchanges, e, n

\* An answer is taken: no other has its number.
LEMMA Polled ==
  ASSUME NEW q \in Seq(Job), NEW w \in Job \cup {NoJob}, NEW d \in Seq(Answer),
         Apart(q, w, d), d # <<>>
  PROVE  /\ Head(d) \in Answer /\ Tail(d) \in Seq(Answer)
         /\ Apart(q, w, Tail(d))
         /\ Head(d).job \in Exchanges(q, w, d)
         /\ Exchanges(q, w, Tail(d)) \subseteq Exchanges(q, w, d)
         /\ \A j \in Exchanges(q, w, Tail(d)) : j.id # Head(d).job.id
<1> DEFINE t == Tail(d)
           n == Len(d)
<1>1. /\ Head(d) = d[1] /\ d[1] \in Answer /\ n \in Nat /\ n >= 1
      /\ t \in Seq(Answer) /\ Len(t) = n - 1 /\ \A i \in 1 .. n - 1 : t[i] = d[i + 1]
  BY HeadTailProperties, LenProperties
<1> HIDE DEF t, n
<1>2. \A i \in 1 .. n - 1 : i + 1 \in 1 .. n /\ i + 1 # 1
  BY <1>1
<1>3. Apart(q, w, t)
  <2>1. \A i, k \in 1 .. n - 1 : t[i].job.id = t[k].job.id => i = k
    <3> SUFFICES ASSUME NEW i \in 1 .. n - 1, NEW k \in 1 .. n - 1, t[i].job.id = t[k].job.id
                 PROVE  i = k
      OBVIOUS
    <3>1. i + 1 \in 1 .. Len(d) /\ k + 1 \in 1 .. Len(d) /\ d[i + 1].job.id = d[k + 1].job.id
      BY <1>1, <1>2 DEF n
    <3>2. i + 1 = k + 1
      BY <3>1 DEF Apart
    <3> QED
      BY <3>2, <1>1
  <2>2. \A i \in 1 .. Len(q), k \in 1 .. n - 1 : q[i].id # t[k].job.id
    <3> SUFFICES ASSUME NEW i \in 1 .. Len(q), NEW k \in 1 .. n - 1
                 PROVE  q[i].id # t[k].job.id
      OBVIOUS
    <3>1. k + 1 \in 1 .. Len(d) /\ t[k] = d[k + 1]
      BY <1>1, <1>2 DEF n
    <3> QED
      BY <3>1 DEF Apart
  <2>3. w # NoJob => \A k \in 1 .. n - 1 : t[k].job.id # w.id
    BY <1>1, <1>2 DEF Apart, n
  <2> QED
    BY <1>1, <2>1, <2>2, <2>3 DEF Apart
<1>4. d[1].job \in Exchanges(q, w, d)
  BY <1>1 DEF Exchanges, n
<1>5. Exchanges(q, w, t) \subseteq Exchanges(q, w, d)
  <2>1. \A i \in 1 .. n - 1 : t[i].job \in {d[k].job : k \in 1 .. n}
    BY <1>1, <1>2
  <2> QED
    BY <1>1, <2>1 DEF Exchanges, n
<1>6. \A j \in Exchanges(q, w, t) : j.id # d[1].job.id
  BY <1>1, <1>2 DEF Exchanges, Apart, n
<1> QED
  BY <1>1, <1>3, <1>4, <1>5, <1>6 DEF t

------------------------------------------------------------------------------
(* The library's state t, with n requests made, r open, and the exchanges   *)
(* J on their way.                                                          *)

CalledOnce(t, n) == \A i \in Ids : t.called[i] \in 0 .. 1 /\ (t.called[i] = 1 => i <= n)
GameIsOpen(t, r) == t.game # NoGame => t.game.rom = r
LoadIsOpen(t, n, r, J) ==
  t.load # 0 =>
    /\ t.load \in 1 .. n /\ t.load \notin t.aborted /\ t.called[t.load] = 0
    /\ t.of[t.load] = r /\ r # NoRom
    /\ t.awaits => \A j \in J : j.id # t.load
OnTheirWay(t, n, J) ==
  /\ \A j \in J :
       /\ j.id \in 1 .. n
       /\ j.kind = "login" => t.of[j.id] = NoRom /\ t.user = "requested" /\ t.called[j.id] = 0
       /\ j.kind # "login" => t.of[j.id] # NoRom /\ j.id \in t.aborted \cup {t.load}
  /\ \A j, k \in J : j.kind = "login" /\ k.kind = "login" => j = k

Sound(t, n, r, J) ==
  /\ t \in Client
  /\ t.aborted \subseteq 1 .. n
  /\ CalledOnce(t, n)
  /\ GameIsOpen(t, r)
  /\ LoadIsOpen(t, n, r, J)
  /\ t.loaded => r # NoRom
  /\ OnTheirWay(t, n, J)

LoginAgrees(t) ==
  /\ t.login = "LoggedIn" <=> t.user = "in"
  /\ t.login = "LoggingIn" <=> t.user = "requested"

\* The types are the program's, IInv the invariant.
IInv ==
  /\ TypeOK
  /\ Apart(s.jobs, worker, done)
  /\ Sound(s, made, rom, Exchanges(s.jobs, worker, done))
  /\ LoginAgrees(s)

\* u is sound after t, and asked for one exchange more at most.
Follows(u, t, n, r, J) ==
  \/ u.jobs = t.jobs /\ Sound(u, n, r, J)
  \/ \E j \in Job : /\ u.jobs = Append(t.jobs, j)
                    /\ \A k \in J : k.id # j.id
                    /\ Sound(u, n, r, J \cup {j})

\* What a completion changes.
LEMMA CompleteFacts ==
  ASSUME NEW t \in Client, NEW id \in Ids, NEW ok \in BOOLEAN
  PROVE  LET u == Complete(t, id, ok)
         IN  /\ u \in Client
             /\ u.called = [t.called EXCEPT ![id] = IF @ < 2 THEN @ + 1 ELSE @]
             /\ u.login = IF t.of[id] = NoRom THEN IF ok THEN "LoggedIn" ELSE "Error" ELSE t.login
             /\ u.loaded = IF t.of[id] = NoRom THEN t.loaded ELSE ok
             /\ u.of = t.of /\ u.user = t.user /\ u.load = t.load /\ u.awaits = t.awaits
             /\ u.aborted = t.aborted /\ u.game = t.game /\ u.jobs = t.jobs
<1> DEFINE run == [t EXCEPT !.called[id] = IF @ < 2 THEN @ + 1 ELSE @]
<1>1. /\ t.called \in [Ids -> 0 .. 2]
      /\ [t.called EXCEPT ![id] = IF @ < 2 THEN @ + 1 ELSE @] \in [Ids -> 0 .. 2]
  BY DEF Client
<1>2. /\ run \in Client
      /\ run.called = [t.called EXCEPT ![id] = IF @ < 2 THEN @ + 1 ELSE @]
      /\ run.login = t.login /\ run.loaded = t.loaded
      /\ run.of = t.of /\ run.user = t.user /\ run.load = t.load /\ run.awaits = t.awaits
      /\ run.aborted = t.aborted /\ run.game = t.game /\ run.jobs = t.jobs
  BY <1>1 DEF Client
<1> HIDE DEF run
<1>3. Complete(t, id, ok) = IF t.of[id] = NoRom
                            THEN [run EXCEPT !.login = IF ok THEN "LoggedIn" ELSE "Error"]
                            ELSE [run EXCEPT !.loaded = ok]
  BY <1>2 DEF Complete, run
<1> DEFINE u == Complete(t, id, ok)
<1>4. CASE t.of[id] = NoRom
  <2>1. u = [run EXCEPT !.login = IF ok THEN "LoggedIn" ELSE "Error"]
    BY <1>3, <1>4
  <2> HIDE DEF u
  <2>2. u \in Client /\ u.login = IF ok THEN "LoggedIn" ELSE "Error"
    BY <1>2, <2>1 DEF Client
  <2>3. /\ u.called = run.called /\ u.loaded = run.loaded
        /\ u.of = run.of /\ u.user = run.user /\ u.load = run.load /\ u.awaits = run.awaits
        /\ u.aborted = run.aborted /\ u.game = run.game /\ u.jobs = run.jobs
    BY <1>2, <2>1 DEF Client
  <2> QED
    BY <1>2, <1>4, <2>2, <2>3 DEF u
<1>5. CASE t.of[id] # NoRom
  <2>1. u = [run EXCEPT !.loaded = ok]
    BY <1>3, <1>5
  <2> HIDE DEF u
  <2>2. u \in Client /\ u.loaded = ok
    BY <1>2, <2>1 DEF Client
  <2>3. /\ u.called = run.called /\ u.login = run.login
        /\ u.of = run.of /\ u.user = run.user /\ u.load = run.load /\ u.awaits = run.awaits
        /\ u.aborted = run.aborted /\ u.game = run.game /\ u.jobs = run.jobs
    BY <1>2, <2>1 DEF Client
  <2> QED
    BY <1>2, <1>5, <2>2, <2>3 DEF u
<1> QED
  BY <1>4, <1>5

\* A load's completion runs.
LEMMA CompleteLoad ==
  ASSUME NEW t, NEW n \in 0 .. MaxRequests, NEW r, NEW J, NEW id \in 1 .. n, NEW ok \in BOOLEAN,
         Sound(t, n, r, J), t.of[id] # NoRom, t.called[id] = 0, id # t.load, ok => r # NoRom
  PROVE  LET u == Complete(t, id, ok)
         IN  /\ Sound(u, n, r, J) /\ u.jobs = t.jobs /\ u.login = t.login /\ u.user = t.user
             /\ u.load = t.load /\ u.awaits = t.awaits /\ u.of = t.of /\ u.loaded = ok
             /\ \A i \in Ids \ {id} : u.called[i] = t.called[i]
<1> DEFINE u == Complete(t, id, ok)
<1>1. id \in Ids /\ n \in Nat /\ t \in Client
  BY BoundAssumption DEF Ids, Sound
<1>2. /\ u \in Client
      /\ u.called = [t.called EXCEPT ![id] = IF @ < 2 THEN @ + 1 ELSE @]
      /\ u.login = t.login /\ u.loaded = ok
      /\ u.of = t.of /\ u.user = t.user /\ u.load = t.load /\ u.awaits = t.awaits
      /\ u.aborted = t.aborted /\ u.game = t.game /\ u.jobs = t.jobs
  BY <1>1, CompleteFacts
<1> HIDE DEF u
<1>3. t.called \in [Ids -> 0 .. 2]
  BY <1>1 DEF Client
<1>4. u.called[id] = 1 /\ \A i \in Ids \ {id} : u.called[i] = t.called[i]
  BY <1>1, <1>2, <1>3
<1>5. CalledOnce(u, n)
  BY <1>1, <1>4 DEF Sound, CalledOnce
<1>6. LoadIsOpen(u, n, r, J)
  BY <1>1, <1>2, <1>4, BoundAssumption DEF Sound, LoadIsOpen, Ids
<1>7. OnTheirWay(u, n, J)
  BY <1>1, <1>2, <1>4, BoundAssumption DEF Sound, OnTheirWay, Ids
<1>8. Sound(u, n, r, J)
  BY <1>2, <1>5, <1>6, <1>7 DEF Sound, GameIsOpen
<1> QED
  BY <1>2, <1>4, <1>8 DEF u

\* A login's completion runs.
LEMMA CompleteLogin ==
  ASSUME NEW t, NEW n \in 0 .. MaxRequests, NEW r, NEW J, NEW id \in 1 .. n, NEW ok \in BOOLEAN,
         Sound(t, n, r, J), t.of[id] = NoRom, t.called[id] = 0,
         \A j \in J : j.kind # "login", t.user = IF ok THEN "in" ELSE "none"
  PROVE  LET u == Complete(t, id, ok)
         IN  /\ Sound(u, n, r, J) /\ u.jobs = t.jobs /\ LoginAgrees(u)
             /\ u.user = t.user /\ u.load = t.load /\ u.awaits = t.awaits
<1> DEFINE u == Complete(t, id, ok)
<1>1. id \in Ids /\ n \in Nat /\ t \in Client
  BY BoundAssumption DEF Ids, Sound
<1>2. /\ u \in Client
      /\ u.called = [t.called EXCEPT ![id] = IF @ < 2 THEN @ + 1 ELSE @]
      /\ u.login = (IF ok THEN "LoggedIn" ELSE "Error") /\ u.loaded = t.loaded
      /\ u.of = t.of /\ u.user = t.user /\ u.load = t.load /\ u.awaits = t.awaits
      /\ u.aborted = t.aborted /\ u.game = t.game /\ u.jobs = t.jobs
  BY <1>1, CompleteFacts
<1> HIDE DEF u
<1>3. t.called \in [Ids -> 0 .. 2]
  BY <1>1 DEF Client
<1>4. u.called[id] = 1 /\ \A i \in Ids \ {id} : u.called[i] = t.called[i]
  BY <1>1, <1>2, <1>3
<1>5. CalledOnce(u, n)
  BY <1>1, <1>4 DEF Sound, CalledOnce
<1>6. LoadIsOpen(u, n, r, J)
  BY <1>1, <1>2, <1>4, BoundAssumption DEF Sound, LoadIsOpen, Ids
<1>7. OnTheirWay(u, n, J)
  BY <1>1, <1>2, <1>4, BoundAssumption DEF Sound, OnTheirWay, Ids
<1>8. Sound(u, n, r, J)
  BY <1>2, <1>5, <1>6, <1>7 DEF Sound, GameIsOpen
<1> QED
  BY <1>2, <1>8 DEF u, LoginAgrees

\* A load in progress fails.
LEMMA LoadErrorSound ==
  ASSUME NEW t, NEW n \in 0 .. MaxRequests, NEW r, NEW J,
         Sound(t, n, r, J), t.load # 0, \A j \in J : j.id # t.load
  PROVE  LET u == LoadError(t, t.load)
         IN  /\ Sound(u, n, r, J) /\ u.jobs = t.jobs /\ u.login = t.login /\ u.user = t.user
             /\ u.of = t.of
             /\ \A i \in Ids \ {t.load} : u.called[i] = t.called[i]
<1> DEFINE v == [t EXCEPT !.load = 0]
<1>1. t \in Client /\ t.load \in 1 .. n /\ t.of[t.load] = r /\ r # NoRom /\ t.called[t.load] = 0
  BY DEF Sound, LoadIsOpen
<1>2. /\ v \in Client /\ v.load = 0
      /\ v.called = t.called /\ v.login = t.login /\ v.loaded = t.loaded
      /\ v.of = t.of /\ v.user = t.user /\ v.awaits = t.awaits
      /\ v.aborted = t.aborted /\ v.game = t.game /\ v.jobs = t.jobs
  BY <1>1 DEF Client
<1>3. LoadError(t, t.load) = Complete(v, t.load, FALSE)
  <2>1. [t EXCEPT !.load = IF @ = t.load THEN 0 ELSE @] = v
    BY <1>1 DEF Client
  <2> QED
    BY <2>1 DEF LoadError
<1> HIDE DEF v
<1>4. OnTheirWay(v, n, J)
  BY <1>2 DEF Sound, OnTheirWay
<1>5. Sound(v, n, r, J)
  BY <1>2, <1>4 DEF Sound, CalledOnce, GameIsOpen, LoadIsOpen
<1>6. v.of[t.load] # NoRom /\ v.called[t.load] = 0 /\ t.load # v.load
  BY <1>1, <1>2
<1> DEFINE u == Complete(v, t.load, FALSE)
<1>7. /\ Sound(u, n, r, J) /\ u.jobs = v.jobs /\ u.login = v.login /\ u.user = v.user
      /\ u.load = v.load /\ u.of = v.of /\ u.loaded = FALSE
      /\ \A i \in Ids \ {t.load} : u.called[i] = v.called[i]
  <2> DEFINE ok == FALSE
  <2>1. ok \in BOOLEAN /\ ok = FALSE /\ u = Complete(v, t.load, ok)
    OBVIOUS
  <2> HIDE DEF ok, u
  <2> QED
    BY <2>1, <1>1, <1>5, <1>6, CompleteLoad
<1> HIDE DEF u
<1>8. LoadError(t, t.load) = u
  BY <1>3 DEF u
<1> QED
  BY <1>2, <1>7, <1>8

\* An exchange is asked for, for the load in progress.
LEMMA EnqueueSound ==
  ASSUME NEW t, NEW n \in 0 .. MaxRequests, NEW r, NEW J, NEW kind \in {"sets", "session"},
         Sound(t, n, r, J), t.load # 0, ~ t.awaits, \A j \in J : j.id # t.load
  PROVE  LET u == Enqueue(t, kind, t.load)
         IN  /\ Follows(u, t, n, r, J) /\ u.login = t.login /\ u.user = t.user
             /\ u.of = t.of /\ u.called = t.called
<1> DEFINE j == [kind |-> kind, id |-> t.load]
           u == Enqueue(t, kind, t.load)
<1>1. t \in Client /\ t.load \in 1 .. n /\ t.of[t.load] = r /\ r # NoRom
  BY DEF Sound, LoadIsOpen
<1>2. j \in Job /\ j.id = t.load /\ j.kind = kind
  BY <1>1, BoundAssumption DEF Job, Ids
<1>3. Append(t.jobs, j) \in Seq(Job)
  BY <1>1, <1>2 DEF Client
<1>4. u = [t EXCEPT !.jobs = Append(@, j)]
  BY DEF Enqueue
<1> HIDE DEF u, j
<1>5. /\ u \in Client /\ u.jobs = Append(t.jobs, j)
      /\ u.called = t.called /\ u.login = t.login /\ u.loaded = t.loaded /\ u.load = t.load
      /\ u.of = t.of /\ u.user = t.user /\ u.awaits = t.awaits
      /\ u.aborted = t.aborted /\ u.game = t.game
  BY <1>1, <1>3, <1>4 DEF Client
<1>6. OnTheirWay(u, n, J \cup {j})
  BY <1>1, <1>2, <1>5 DEF Sound, OnTheirWay
<1>7. Sound(u, n, r, J \cup {j})
  BY <1>5, <1>6 DEF Sound, CalledOnce, GameIsOpen, LoadIsOpen
<1>8. Follows(u, t, n, r, J)
  BY <1>2, <1>5, <1>7 DEF Follows
<1> QED
  BY <1>5, <1>8 DEF u

\* The load in progress goes on, or waits for the login, or fails without one.
LEMMA FetchSound ==
  ASSUME NEW t, NEW n \in 0 .. MaxRequests, NEW r, NEW J,
         Sound(t, n, r, J), t.load # 0, \A j \in J : j.id # t.load
  PROVE  LET u == FetchGameSets(t)
         IN  /\ Follows(u, t, n, r, J) /\ u.login = t.login /\ u.user = t.user
             /\ u.of = t.of
             /\ \A i \in Ids \ {t.load} : u.called[i] = t.called[i]
<1> DEFINE waits(b) == [t EXCEPT !.awaits = b]
<1>1. t \in Client
  BY DEF Sound
<1>2. ASSUME NEW b \in BOOLEAN
      PROVE  /\ waits(b).awaits = b /\ waits(b).jobs = t.jobs /\ waits(b).load = t.load
             /\ waits(b).login = t.login /\ waits(b).user = t.user
             /\ waits(b).of = t.of /\ waits(b).called = t.called
             /\ Sound(waits(b), n, r, J)
  <2> DEFINE v == waits(b)
  <2>1. /\ v \in Client /\ v.awaits = b /\ v.jobs = t.jobs
        /\ v.called = t.called /\ v.login = t.login /\ v.loaded = t.loaded /\ v.load = t.load
        /\ v.of = t.of /\ v.user = t.user
        /\ v.aborted = t.aborted /\ v.game = t.game
    BY <1>1 DEF Client
  <2> HIDE DEF v
  <2>2. OnTheirWay(v, n, J)
    BY <2>1 DEF Sound, OnTheirWay
  <2>3. Sound(v, n, r, J)
    BY <2>1, <2>2 DEF Sound, CalledOnce, GameIsOpen, LoadIsOpen
  <2> QED
    BY <2>1, <2>3 DEF v
<1> HIDE DEF waits
<1>3. t.user \in {"none", "requested", "in"}
  BY <1>1 DEF Client
<1>4. CASE t.user = "in"
  <2>1. FetchGameSets(t) = Enqueue(waits(FALSE), "sets", waits(FALSE).load)
    BY <1>2, <1>4 DEF FetchGameSets, waits
  <2> DEFINE v == waits(FALSE)
             u == Enqueue(v, "sets", v.load)
  <2>2. /\ v.awaits = FALSE /\ v.jobs = t.jobs /\ v.load = t.load /\ v.login = t.login
        /\ v.user = t.user /\ v.of = t.of /\ v.called = t.called /\ Sound(v, n, r, J)
    BY <1>2
  <2> HIDE DEF v
  <2>3. /\ Follows(u, v, n, r, J) /\ u.login = v.login /\ u.user = v.user
        /\ u.of = v.of /\ u.called = v.called
    BY <2>2, EnqueueSound
  <2> HIDE DEF u
  <2>4. FetchGameSets(t) = u
    BY <2>1 DEF u, v
  <2>5. Follows(u, t, n, r, J)
    BY <2>2, <2>3 DEF Follows
  <2> QED
    BY <2>2, <2>3, <2>4, <2>5
<1>5. CASE t.user = "requested"
  <2>1. FetchGameSets(t) = waits(TRUE)
    BY <1>5 DEF FetchGameSets, waits
  <2> QED
    BY <1>2, <2>1 DEF Follows
<1>6. CASE t.user = "none"
  <2>1. FetchGameSets(t) = LoadError(waits(FALSE), waits(FALSE).load)
    BY <1>2, <1>6 DEF FetchGameSets, waits
  <2> DEFINE v == waits(FALSE)
             u == LoadError(v, v.load)
  <2>2. /\ v.jobs = t.jobs /\ v.load = t.load /\ v.login = t.login
        /\ v.user = t.user /\ v.of = t.of /\ v.called = t.called /\ Sound(v, n, r, J)
    BY <1>2
  <2> HIDE DEF v
  <2>3. /\ Sound(u, n, r, J) /\ u.jobs = v.jobs /\ u.login = v.login /\ u.user = v.user
        /\ u.of = v.of
        /\ \A i \in Ids \ {v.load} : u.called[i] = v.called[i]
    BY <2>2, LoadErrorSound
  <2> HIDE DEF u
  <2>4. FetchGameSets(t) = u
    BY <2>1 DEF u, v
  <2> QED
    BY <2>2, <2>3, <2>4 DEF Follows
<1> QED
  BY <1>3, <1>4, <1>5, <1>6

\* A load in progress is given up, its completion run.
LEMMA AbortSound ==
  ASSUME NEW t, NEW n \in 0 .. MaxRequests, NEW r, NEW J, Sound(t, n, r, J)
  PROVE  LET u == AbortLoad(t)
         IN  /\ Sound(u, n, r, J) /\ u.load = 0 /\ u.jobs = t.jobs /\ u.login = t.login
             /\ u.user = t.user /\ u.of = t.of /\ (u.loaded => t.loaded)
<1> DEFINE u == AbortLoad(t)
<1>1. CASE t.load = 0
  BY <1>1 DEF AbortLoad
<1>2. CASE t.load # 0
  <2> DEFINE v == [t EXCEPT !.load = 0, !.aborted = @ \cup {t.load}]
             ok == FALSE
             z == Complete(v, t.load, ok)
  <2>1. /\ t \in Client /\ t.load \in 1 .. n /\ t.of[t.load] = r /\ r # NoRom
        /\ t.called[t.load] = 0
    BY <1>2 DEF Sound, LoadIsOpen
  <2>2. u = z /\ ok \in BOOLEAN /\ ok = FALSE
    BY <1>2 DEF AbortLoad
  <2>3. /\ v \in Client /\ v.load = 0 /\ v.aborted = t.aborted \cup {t.load}
        /\ v.called = t.called /\ v.login = t.login /\ v.loaded = t.loaded
        /\ v.of = t.of /\ v.user = t.user /\ v.awaits = t.awaits
        /\ v.game = t.game /\ v.jobs = t.jobs
    <3>1. t.aborted \cup {t.load} \in SUBSET Ids
      BY <2>1, BoundAssumption DEF Client, Ids
    <3> QED
      BY <2>1, <3>1 DEF Client
  <2> HIDE DEF v, ok
  <2>4. OnTheirWay(v, n, J)
    BY <2>3 DEF Sound, OnTheirWay
  <2>5. Sound(v, n, r, J)
    BY <2>1, <2>3, <2>4 DEF Sound, CalledOnce, GameIsOpen, LoadIsOpen
  <2>6. v.of[t.load] # NoRom /\ v.called[t.load] = 0 /\ t.load # v.load
    BY <2>1, <2>3
  <2>7. /\ Sound(z, n, r, J) /\ z.jobs = v.jobs /\ z.login = v.login /\ z.user = v.user
        /\ z.load = v.load /\ z.of = v.of /\ z.loaded = ok
    BY <2>1, <2>2, <2>5, <2>6, CompleteLoad
  <2> HIDE DEF u, z
  <2>8. /\ Sound(u, n, r, J) /\ u.load = 0 /\ u.jobs = t.jobs /\ u.login = t.login
        /\ u.user = t.user /\ u.of = t.of /\ u.loaded = FALSE
    BY <2>2, <2>3, <2>7
  <2> QED
    BY <2>8 DEF u
<1> QED
  BY <1>1, <1>2

\* The game is unloaded, and q is open, or nothing.
LEMMA UnloadSound ==
  ASSUME NEW t, NEW n \in 0 .. MaxRequests, NEW r, NEW J, NEW q, Sound(t, n, r, J),
         t.loaded => q # NoRom
  PROVE  LET u == UnloadGame(t)
         IN  /\ Sound(u, n, q, J) /\ u.load = 0 /\ u.jobs = t.jobs /\ u.login = t.login
             /\ u.user = t.user /\ u.of = t.of /\ u.loaded = t.loaded
<1> DEFINE u == UnloadGame(t)
<1>1. t \in Client /\ (t.load # 0 => t.load \in 1 .. n)
  BY DEF Sound, LoadIsOpen
<1>2. NoGame \in [rom : Roms \cup {NoRom}, live : BOOLEAN, waiting : BOOLEAN]
  BY DEF NoGame
<1>3. u = [t EXCEPT !.game = NoGame, !.load = 0, !.aborted = @ \cup ({t.load} \ {0})]
  BY DEF UnloadGame
<1> HIDE DEF u
<1>4. t.aborted \cup ({t.load} \ {0}) \in SUBSET Ids
  BY <1>1, BoundAssumption DEF Client, Ids
<1>5. /\ u \in Client /\ u.load = 0 /\ u.aborted = t.aborted \cup ({t.load} \ {0})
      /\ u.called = t.called /\ u.login = t.login /\ u.loaded = t.loaded
      /\ u.of = t.of /\ u.user = t.user /\ u.awaits = t.awaits
      /\ u.game = NoGame /\ u.jobs = t.jobs
  BY <1>1, <1>2, <1>3, <1>4 DEF Client
<1>6. OnTheirWay(u, n, J)
  BY <1>1, <1>5 DEF Sound, OnTheirWay
<1>7. Sound(u, n, q, J)
  BY <1>1, <1>5, <1>6 DEF Sound, CalledOnce, GameIsOpen, LoadIsOpen
<1> QED
  BY <1>5, <1>7 DEF u

\* What Sound speaks of stays.
LEMMA AlikeSound ==
  ASSUME NEW t, NEW n, NEW r, NEW J, NEW u \in Client, Sound(t, n, r, J),
         u.aborted = t.aborted, u.called = t.called, u.of = t.of, u.user = t.user,
         u.load = t.load, u.awaits = t.awaits, u.loaded => r # NoRom, GameIsOpen(u, r)
  PROVE  Sound(u, n, r, J)
<1>1. OnTheirWay(u, n, J)
  BY DEF Sound, OnTheirWay
<1>2. LoadIsOpen(u, n, r, J)
  BY DEF Sound, LoadIsOpen
<1> QED
  BY <1>1, <1>2 DEF Sound, CalledOnce

\* Of fewer exchanges.
LEMMA FewerSound ==
  ASSUME NEW t, NEW n, NEW r, NEW E, NEW J, Sound(t, n, r, E), J \subseteq E
  PROVE  Sound(t, n, r, J)
<1>1. OnTheirWay(t, n, J)
  BY DEF Sound, OnTheirWay
<1>2. LoadIsOpen(t, n, r, J)
  BY DEF Sound, LoadIsOpen
<1> QED
  BY <1>1, <1>2 DEF Sound

\* A completion is boxed.
LEMMA BoxedSound ==
  ASSUME NEW t, NEW n \in 0 .. MaxRequests, NEW r, NEW J, NEW q \in Roms \cup {NoRom},
         Sound(t, n, r, J), n < MaxRequests
  PROVE  LET u == [t EXCEPT !.of[n + 1] = q]
         IN  /\ Sound(u, n, r, J) /\ u.of[n + 1] = q
             /\ u.jobs = t.jobs /\ u.login = t.login /\ u.user = t.user /\ u.loaded = t.loaded
<1> DEFINE u == [t EXCEPT !.of[n + 1] = q]
<1>1. /\ t \in Client /\ n + 1 \in Ids /\ \A i \in 1 .. n : i \in Ids /\ i # n + 1
  BY BoundAssumption DEF Sound, Ids
<1>2. t.of \in [Ids -> Roms \cup {NoRom}]
  BY <1>1 DEF Client
<1>3. /\ u \in Client /\ u.load = t.load /\ u.aborted = t.aborted /\ u.loaded = t.loaded
      /\ u.called = t.called /\ u.login = t.login /\ u.user = t.user
      /\ u.awaits = t.awaits /\ u.game = t.game /\ u.jobs = t.jobs
      /\ u.of = [t.of EXCEPT ![n + 1] = q]
  BY <1>1, <1>2 DEF Client
<1> HIDE DEF u
<1>4. u.of[n + 1] = q /\ \A i \in 1 .. n : u.of[i] = t.of[i]
  BY <1>1, <1>2, <1>3
<1>5. OnTheirWay(u, n, J)
  BY <1>3, <1>4 DEF Sound, OnTheirWay
<1>6. LoadIsOpen(u, n, r, J)
  BY <1>3, <1>4 DEF Sound, LoadIsOpen
<1>7. Sound(u, n, r, J)
  BY <1>3, <1>5, <1>6 DEF Sound, CalledOnce, GameIsOpen
<1> QED
  BY <1>3, <1>4, <1>7 DEF u

\* One request more has been made, and no more is known of it.
LEMMA GrownSound ==
  ASSUME NEW t, NEW n \in 0 .. MaxRequests, NEW r, NEW J, Sound(t, n, r, J), n < MaxRequests
  PROVE  /\ Sound(t, n + 1, r, J) /\ n + 1 \in 0 .. MaxRequests /\ n + 1 \in Ids
         /\ t.called[n + 1] = 0 /\ n + 1 \notin t.aborted /\ t.load # n + 1
         /\ \A j \in J : j.id # n + 1
<1>1. /\ \A i \in 1 .. n : i \in 1 .. n + 1 /\ i # n + 1
      /\ n + 1 \in Ids /\ n \in Nat /\ n + 1 # 0 /\ ~ (n + 1 <= n)
      /\ \A i \in Ids : i <= n => i <= n + 1
  BY BoundAssumption DEF Ids
<1>2. CalledOnce(t, n + 1) /\ t.called[n + 1] = 0
  BY <1>1 DEF Sound, CalledOnce
<1>3. OnTheirWay(t, n + 1, J) /\ \A j \in J : j.id # n + 1
  BY <1>1 DEF Sound, OnTheirWay
<1>4. LoadIsOpen(t, n + 1, r, J) /\ t.load # n + 1
  BY <1>1 DEF Sound, LoadIsOpen
<1>5. t.aborted \subseteq 1 .. n + 1 /\ n + 1 \notin t.aborted
  BY <1>1 DEF Sound
<1>6. Sound(t, n + 1, r, J)
  BY <1>2, <1>3, <1>4, <1>5 DEF Sound
<1>7. n + 1 \in 0 .. MaxRequests
  BY BoundAssumption
<1> QED
  BY <1>1, <1>2, <1>3, <1>4, <1>5, <1>6, <1>7

\* A load begins, of q: the one in progress is given up, and the game.
LEMMA BeginLoadSound ==
  ASSUME NEW t, NEW n \in 0 .. MaxRequests, NEW r, NEW J, NEW q \in Roms,
         Sound(t, n, r, J), n < MaxRequests, t.of[n + 1] = q, ~ t.loaded
  PROVE  LET u == BeginLoad(t, n + 1)
         IN  Follows(u, t, n + 1, q, J) /\ u.login = t.login /\ u.user = t.user
<1> DEFINE a == AbortLoad(t)
           b == UnloadGame(a)
           c == [b EXCEPT !.load = n + 1]
           u == FetchGameSets(c)
<1>0. BeginLoad(t, n + 1) = u
  BY DEF BeginLoad
<1>1. /\ Sound(a, n, r, J) /\ a.jobs = t.jobs /\ a.login = t.login
      /\ a.user = t.user /\ a.of = t.of /\ (a.loaded => t.loaded)
  BY AbortSound
<1> HIDE DEF a
<1>2. /\ Sound(b, n, q, J) /\ b.jobs = a.jobs /\ b.login = a.login
      /\ b.user = a.user /\ b.of = a.of /\ b.load = 0
  <2>1. a.loaded => q # NoRom
    BY RomAssumption
  <2> QED
    BY <1>1, <2>1, UnloadSound
<1> HIDE DEF b
<1>3. /\ Sound(b, n + 1, q, J) /\ n + 1 \in 0 .. MaxRequests /\ n + 1 \in 1 .. n + 1
      /\ b.called[n + 1] = 0 /\ n + 1 \notin b.aborted /\ n + 1 # 0
      /\ \A j \in J : j.id # n + 1
  BY <1>2, GrownSound, BoundAssumption
<1>4. /\ c.load = n + 1 /\ c.jobs = b.jobs /\ c.login = b.login /\ c.user = b.user
      /\ Sound(c, n + 1, q, J)
  <2>1. b \in Client
    BY <1>2 DEF Sound
  <2>2. /\ c \in Client /\ c.load = n + 1 /\ c.aborted = b.aborted /\ c.loaded = b.loaded
        /\ c.called = b.called /\ c.login = b.login /\ c.user = b.user
        /\ c.awaits = b.awaits /\ c.game = b.game /\ c.jobs = b.jobs /\ c.of = b.of
    <3>1. n + 1 \in Nat
      OBVIOUS
    <3> QED
      BY <2>1, <3>1 DEF Client
  <2> HIDE DEF c
  <2>3. b.load = 0
    BY <1>2
  <2>4. OnTheirWay(c, n + 1, J)
    BY <1>3, <2>2, <2>3 DEF Sound, OnTheirWay
  <2>5. LoadIsOpen(c, n + 1, q, J)
    BY <1>1, <1>2, <1>3, <2>2, RomAssumption DEF LoadIsOpen
  <2> QED
    BY <1>3, <2>2, <2>4, <2>5 DEF Sound, CalledOnce, GameIsOpen
<1> HIDE DEF c
<1>5. /\ Follows(u, c, n + 1, q, J) /\ u.login = c.login /\ u.user = c.user
  BY <1>3, <1>4, FetchSound
<1> HIDE DEF u
<1>6. Follows(u, t, n + 1, q, J)
  BY <1>1, <1>2, <1>4, <1>5 DEF Follows
<1> QED
  BY <1>0, <1>1, <1>2, <1>4, <1>5, <1>6

\* A login fails at once, or is asked for.
LEMMA LoginSound ==
  ASSUME NEW t, NEW n \in 0 .. MaxRequests, NEW r, NEW J,
         Sound(t, n, r, J), n < MaxRequests, t.of[n + 1] = NoRom,
         t.user = "none", t.login = "LoggingIn",
         NEW u \in {BeginLogin(t, n + 1), Complete(t, n + 1, FALSE)}
  PROVE  Follows(u, t, n + 1, r, J) /\ LoginAgrees(u)
<1>1. /\ Sound(t, n + 1, r, J) /\ n + 1 \in 0 .. MaxRequests /\ n + 1 \in Ids
      /\ n + 1 \in 1 .. n + 1 /\ t.called[n + 1] = 0 /\ t.load # n + 1
      /\ \A j \in J : j.id # n + 1
  BY GrownSound, BoundAssumption
<1>2. /\ t \in Client /\ \A j \in J : j.kind # "login"
  BY DEF Sound, OnTheirWay
<1>3. CASE u = Complete(t, n + 1, FALSE)
  <2> DEFINE ok == FALSE
             z == Complete(t, n + 1, ok)
  <2>1. ok \in BOOLEAN /\ ok = FALSE /\ u = z
    BY <1>3
  <2> HIDE DEF ok
  <2>2. /\ Sound(z, n + 1, r, J) /\ z.jobs = t.jobs /\ LoginAgrees(z)
    BY <1>1, <1>2, <2>1, CompleteLogin
  <2> HIDE DEF z
  <2> QED
    BY <2>1, <2>2 DEF Follows
<1>4. CASE u = BeginLogin(t, n + 1)
  <2> DEFINE j == [kind |-> "login", id |-> n + 1]
             v == [t EXCEPT !.user = "requested"]
  <2>1. u = [v EXCEPT !.jobs = Append(@, j)]
    BY <1>4 DEF BeginLogin, Enqueue
  <2>2. j \in Job /\ j.id = n + 1 /\ j.kind = "login"
    BY <1>1 DEF Job
  <2> HIDE DEF j
  <2>3. Append(t.jobs, j) \in Seq(Job)
    BY <1>2, <2>2 DEF Client
  <2>4. /\ u \in Client /\ u.load = t.load /\ u.aborted = t.aborted /\ u.loaded = t.loaded
        /\ u.called = t.called /\ u.login = t.login /\ u.user = "requested"
        /\ u.awaits = t.awaits /\ u.game = t.game /\ u.jobs = Append(t.jobs, j) /\ u.of = t.of
    BY <1>2, <2>1, <2>3 DEF Client
  <2> HIDE DEF v
  <2>5. OnTheirWay(u, n + 1, J \cup {j})
    BY <1>1, <1>2, <2>2, <2>4 DEF Sound, OnTheirWay
  <2>6. LoadIsOpen(u, n + 1, r, J \cup {j})
    BY <1>1, <2>2, <2>4 DEF Sound, LoadIsOpen
  <2>7. Sound(u, n + 1, r, J \cup {j})
    BY <1>1, <2>4, <2>5, <2>6 DEF Sound, CalledOnce, GameIsOpen
  <2>8. Follows(u, t, n + 1, r, J)
    BY <1>1, <2>2, <2>4, <2>7 DEF Follows
  <2> QED
    BY <2>4, <2>8 DEF LoginAgrees
<1> QED
  BY <1>3, <1>4

\* The login is answered, and a load that awaited it goes on.
LEMMA LoginCallbackSound ==
  ASSUME NEW t, NEW n \in 0 .. MaxRequests, NEW r, NEW E, NEW J, NEW job \in E,
         Sound(t, n, r, E), J \subseteq E, \A j \in J : j.id # job.id,
         job.kind = "login", NEW answer
  PROVE  LET u == LoginCallback(t, job.id, answer)
         IN  Follows(u, t, n, r, J) /\ LoginAgrees(u)
<1> DEFINE id == job.id
           resumed(x) == IF x.load # 0 /\ x.awaits THEN FetchGameSets(x) ELSE x
           u == LoginCallback(t, id, answer)
<1>1. /\ t \in Client /\ id \in 1 .. n /\ id \in Ids /\ t.of[id] = NoRom
      /\ t.user = "requested" /\ t.called[id] = 0 /\ \A j \in J : j.kind # "login"
  BY BoundAssumption DEF Sound, OnTheirWay, Ids
<1>2. Sound(t, n, r, J)
  BY FewerSound
<1>3. u = IF answer = "ok" THEN Complete(resumed([t EXCEPT !.user = "in"]), id, TRUE)
          ELSE resumed(Complete([t EXCEPT !.user = "none"], id, FALSE))
  BY <1>1 DEF LoginCallback
<1> SUFFICES Follows(u, t, n, r, J) /\ LoginAgrees(u)
  OBVIOUS
<1> HIDE DEF u, id
<1>4. ASSUME NEW x \in {"none", "in"}, NEW v, v = [t EXCEPT !.user = x]
      PROVE  /\ Sound(v, n, r, J) /\ v.of = t.of /\ v.jobs = t.jobs /\ v.user = x
             /\ v.called = t.called
  <2>1. /\ v \in Client /\ v.load = t.load /\ v.aborted = t.aborted /\ v.loaded = t.loaded
        /\ v.called = t.called /\ v.login = t.login /\ v.user = x
        /\ v.awaits = t.awaits /\ v.game = t.game /\ v.jobs = t.jobs /\ v.of = t.of
    BY <1>1, <1>4 DEF Client
  <2>2. OnTheirWay(v, n, J)
    BY <1>1, <1>2, <2>1 DEF Sound, OnTheirWay
  <2>3. LoadIsOpen(v, n, r, J)
    BY <1>2, <2>1 DEF Sound, LoadIsOpen
  <2> QED
    BY <1>2, <2>1, <2>2, <2>3 DEF Sound, CalledOnce, GameIsOpen
<1>5. ASSUME NEW v, Sound(v, n, r, J), v.of[id] = NoRom
      PROVE  LET w == resumed(v)
             IN  /\ Follows(w, v, n, r, J) /\ w.login = v.login /\ w.user = v.user
                 /\ w.of = v.of /\ w.called[id] = v.called[id]
  <2>1. CASE v.load # 0 /\ v.awaits
    <3>1. /\ \A j \in J : j.id # v.load
          /\ id \in Ids \ {v.load}
      BY <1>1, <1>5, <2>1 DEF Sound, LoadIsOpen
    <3> DEFINE w == FetchGameSets(v)
    <3>2. /\ Follows(w, v, n, r, J) /\ w.login = v.login /\ w.user = v.user
          /\ w.of = v.of /\ \A i \in Ids \ {v.load} : w.called[i] = v.called[i]
      BY <1>5, <2>1, <3>1, FetchSound
    <3> HIDE DEF w
    <3>3. resumed(v) = w
      BY <2>1 DEF w
    <3> QED
      BY <3>1, <3>2, <3>3
  <2>2. CASE ~ (v.load # 0 /\ v.awaits)
    BY <1>5, <2>2 DEF Follows
  <2> QED
    BY <2>1, <2>2
<1> HIDE DEF resumed
<1>6. CASE answer = "ok"
  <2> DEFINE v == [t EXCEPT !.user = "in"]
             w == resumed(v)
             ok == TRUE
             z == Complete(w, id, ok)
  <2>1. /\ Sound(v, n, r, J) /\ v.of = t.of /\ v.jobs = t.jobs /\ v.user = "in"
        /\ v.called = t.called
    BY <1>4
  <2>2. u = z /\ ok \in BOOLEAN /\ ok = TRUE
    BY <1>3, <1>6
  <2> HIDE DEF v, ok
  <2>3. /\ Follows(w, v, n, r, J) /\ w.user = v.user
        /\ w.of = v.of /\ w.called[id] = v.called[id]
    BY <1>1, <1>5, <2>1
  <2> HIDE DEF w
  <2>4. ASSUME NEW K, Sound(w, n, r, K)
        PROVE  Sound(z, n, r, K) /\ z.jobs = w.jobs /\ LoginAgrees(z)
    <3>1. \A j \in K : j.kind # "login"
      BY <2>1, <2>3, <2>4 DEF Sound, OnTheirWay
    <3>2. w.of[id] = NoRom /\ w.called[id] = 0 /\ w.user = (IF ok THEN "in" ELSE "none")
      BY <1>1, <2>1, <2>2, <2>3
    <3>3. ok \in BOOLEAN
      BY <2>2
    <3> QED
      BY <1>1, <2>4, <3>1, <3>2, <3>3, CompleteLogin
  <2> HIDE DEF z
  <2>5. CASE w.jobs = v.jobs /\ Sound(w, n, r, J)
    BY <2>1, <2>2, <2>4, <2>5 DEF Follows
  <2>6. CASE \E j \in Job : /\ w.jobs = Append(v.jobs, j)
                            /\ \A k \in J : k.id # j.id
                            /\ Sound(w, n, r, J \cup {j})
    BY <2>1, <2>2, <2>4, <2>6 DEF Follows
  <2> QED
    BY <2>3, <2>5, <2>6 DEF Follows
<1>7. CASE answer # "ok"
  <2> DEFINE v == [t EXCEPT !.user = "none"]
             ok == FALSE
             w == Complete(v, id, ok)
             z == resumed(w)
  <2>1. /\ Sound(v, n, r, J) /\ v.of = t.of /\ v.jobs = t.jobs /\ v.user = "none"
        /\ v.called = t.called
    BY <1>4
  <2>2. u = z /\ ok \in BOOLEAN /\ ok = FALSE
    BY <1>3, <1>7
  <2> HIDE DEF v, ok
  <2>3. /\ Sound(w, n, r, J) /\ w.jobs = v.jobs /\ LoginAgrees(w)
    BY <1>1, <2>1, <2>2, CompleteLogin
  <2>4. w.of = v.of
    BY <1>1, <2>1, <2>2, CompleteFacts DEF Sound
  <2> HIDE DEF w
  <2>5. /\ Follows(z, w, n, r, J) /\ z.login = w.login /\ z.user = w.user
    BY <1>1, <1>5, <2>1, <2>3, <2>4
  <2> HIDE DEF z
  <2>6. Follows(z, t, n, r, J) /\ LoginAgrees(z)
    BY <2>1, <2>3, <2>5 DEF Follows, LoginAgrees
  <2> QED
    BY <2>2, <2>6
<1> QED
  BY <1>6, <1>7

\* An exchange of a load is answered: of the one in progress, or of one given up.
LEMMA LoadCallbackSound ==
  ASSUME NEW t, NEW n \in 0 .. MaxRequests, NEW r, NEW E, NEW J, NEW job \in E,
         Sound(t, n, r, E), J \subseteq E, \A j \in J : j.id # job.id,
         NEW kind \in {"sets", "session"}, job.kind = kind,
         NEW answer \in {"ok", "error", "unknown"}
  PROVE  LET u == LoadCallback(t, job.id, kind, answer)
         IN  Follows(u, t, n, r, J) /\ u.login = t.login /\ u.user = t.user
<1> DEFINE id == job.id
           u == LoadCallback(t, id, kind, answer)
<1> SUFFICES Follows(u, t, n, r, J) /\ u.login = t.login /\ u.user = t.user
  OBVIOUS
<1>1. /\ t \in Client /\ id \in 1 .. n /\ id \in Ids /\ t.of[id] # NoRom
      /\ id \in t.aborted \cup {t.load}
  BY BoundAssumption DEF Sound, OnTheirWay, Ids
<1>2. Sound(t, n, r, J)
  BY FewerSound
<1>3. CASE id \in t.aborted
  BY <1>2, <1>3 DEF LoadCallback, LoadAborted, Follows
<1>4. CASE id \notin t.aborted
  <2>1. /\ t.load = id /\ id # 0 /\ t.of[id] = r /\ r # NoRom /\ t.called[id] = 0
        /\ ~ t.awaits /\ \A j \in J : j.id # t.load
    BY <1>1, <1>4 DEF Sound, LoadIsOpen
  <2>2. CASE answer = "error"
    <3>1. u = LoadError(t, t.load)
      BY <1>4, <2>1, <2>2 DEF LoadCallback
    <3> DEFINE z == LoadError(t, t.load)
    <3> HIDE DEF u
    <3>2. Sound(z, n, r, J) /\ z.jobs = t.jobs /\ z.login = t.login /\ z.user = t.user
      BY <1>2, <2>1, LoadErrorSound
    <3> QED
      BY <3>1, <3>2 DEF Follows
  <2>3. CASE answer = "unknown"
    <3> DEFINE g == [NoGame EXCEPT !.rom = r]
               v == [t EXCEPT !.game = g]
               z == LoadError(v, v.load)
    <3>1. g \in [rom : Roms \cup {NoRom}, live : BOOLEAN, waiting : BOOLEAN] /\ g.rom = r
      <4>1. r \in Roms \cup {NoRom}
        BY <1>1, <2>1 DEF Client
      <4> QED
        BY <4>1 DEF NoGame
    <3> HIDE DEF g
    <3>2. /\ v \in Client /\ v.load = t.load /\ v.aborted = t.aborted /\ v.loaded = t.loaded
          /\ v.called = t.called /\ v.login = t.login /\ v.user = t.user
          /\ v.awaits = t.awaits /\ v.game = g /\ v.jobs = t.jobs /\ v.of = t.of
      BY <1>1, <3>1 DEF Client
    <3>3. u = z
      BY <1>4, <2>1, <2>3, <3>2 DEF LoadCallback, g
    <3> HIDE DEF u, v
    <3>4. Sound(v, n, r, J)
      BY <1>2, <2>1, <3>1, <3>2, AlikeSound DEF GameIsOpen
    <3>5. Sound(z, n, r, J) /\ z.jobs = v.jobs /\ z.login = v.login /\ z.user = v.user
      BY <2>1, <3>2, <3>4, LoadErrorSound
    <3> QED
      BY <3>2, <3>3, <3>5 DEF Follows
  <2>4. CASE answer = "ok" /\ kind = "sets"
    <3> DEFINE z == Enqueue(t, "session", t.load)
    <3>1. u = z
      BY <1>4, <2>1, <2>4 DEF LoadCallback
    <3> HIDE DEF u
    <3>2. Follows(z, t, n, r, J) /\ z.login = t.login /\ z.user = t.user
      BY <1>2, <2>1, EnqueueSound
    <3> QED
      BY <3>1, <3>2
  <2>5. CASE answer = "ok" /\ kind = "session"
    <3> DEFINE g == [rom |-> r, live |-> Installed("poll_http_completions"), waiting |-> FALSE]
               v == [t EXCEPT !.game = g, !.load = 0]
               ok == TRUE
               z == Complete(v, id, ok)
    <3>1. g \in [rom : Roms \cup {NoRom}, live : BOOLEAN, waiting : BOOLEAN] /\ g.rom = r
      <4>1. r \in Roms \cup {NoRom}
        BY <1>1, <2>1 DEF Client
      <4>2. Installed("poll_http_completions") \in BOOLEAN
        BY DEF Installed
      <4> QED
        BY <4>1, <4>2
    <3>2. u = z
      BY <1>4, <2>1, <2>5 DEF LoadCallback, ActivateGame
    <3>3. ok \in BOOLEAN
      OBVIOUS
    <3> HIDE DEF u, g, ok
    <3>4. /\ v \in Client /\ v.load = 0 /\ v.aborted = t.aborted /\ v.loaded = t.loaded
          /\ v.called = t.called /\ v.login = t.login /\ v.user = t.user
          /\ v.awaits = t.awaits /\ v.game = g /\ v.jobs = t.jobs /\ v.of = t.of
      BY <1>1, <3>1 DEF Client
    <3> HIDE DEF v
    <3>5. OnTheirWay(v, n, J)
      BY <1>1, <1>2, <2>1, <3>4 DEF Sound, OnTheirWay
    <3>6. Sound(v, n, r, J)
      BY <1>2, <3>1, <3>4, <3>5 DEF Sound, CalledOnce, GameIsOpen, LoadIsOpen
    <3>7. /\ Sound(z, n, r, J) /\ z.jobs = v.jobs /\ z.login = v.login /\ z.user = v.user
      BY <1>1, <2>1, <3>3, <3>4, <3>6, CompleteLoad
    <3> HIDE DEF z
    <3> QED
      BY <3>2, <3>4, <3>7 DEF Follows
  <2> QED
    BY <2>2, <2>3, <2>4, <2>5
<1> QED
  BY <1>3, <1>4

\* Any exchange is answered.
LEMMA AnsweredSound ==
  ASSUME NEW t, NEW n \in 0 .. MaxRequests, NEW r, NEW E, NEW J, NEW job \in E,
         Sound(t, n, r, E), LoginAgrees(t), J \subseteq E, \A j \in J : j.id # job.id,
         job \in Job, NEW answer \in {"ok", "error", "unknown"}
  PROVE  LET u == Answered(t, job, answer)
         IN  Follows(u, t, n, r, J) /\ LoginAgrees(u)
<1> DEFINE u == Answered(t, job, answer)
<1>1. CASE job.kind = "login"
  <2>1. u = LoginCallback(t, job.id, answer)
    BY <1>1 DEF Answered
  <2> QED
    BY <1>1, <2>1, LoginCallbackSound
<1>2. CASE job.kind # "login"
  <2>1. PICK kind \in {"sets", "session"} : job.kind = kind
    BY <1>2 DEF Job
  <2> DEFINE z == LoadCallback(t, job.id, kind, answer)
  <2>2. u = z
    BY <1>2, <2>1 DEF Answered
  <2> HIDE DEF u
  <2>3. Follows(z, t, n, r, J)
    BY <2>1, LoadCallbackSound
  <2>4. z.login = t.login
    BY <2>1, LoadCallbackSound
  <2>5. z.user = t.user
    BY <2>1, LoadCallbackSound
  <2>6. Follows(u, t, n, r, J) /\ LoginAgrees(u)
    BY <2>2, <2>3, <2>4, <2>5 DEF LoginAgrees
  <2> QED
    BY <2>6 DEF u
<1> QED
  BY <1>1, <1>2

\* What follows is sound with the exchanges there are then.
LEMMA Landed ==
  ASSUME NEW u, NEW t \in Client, NEW n, NEW r, NEW w \in Job \cup {NoJob}, NEW d \in Seq(Answer),
         Apart(t.jobs, w, d), Follows(u, t, n, r, Exchanges(t.jobs, w, d))
  PROVE  Apart(u.jobs, w, d) /\ Sound(u, n, r, Exchanges(u.jobs, w, d)) /\ u \in Client
<1>1. t.jobs \in Seq(Job)
  BY DEF Client
<1>2. CASE u.jobs = t.jobs /\ Sound(u, n, r, Exchanges(t.jobs, w, d))
  BY <1>2 DEF Sound
<1>3. ASSUME NEW j \in Job, u.jobs = Append(t.jobs, j),
             \A k \in Exchanges(t.jobs, w, d) : k.id # j.id,
             Sound(u, n, r, Exchanges(t.jobs, w, d) \cup {j})
      PROVE  Apart(u.jobs, w, d) /\ Sound(u, n, r, Exchanges(u.jobs, w, d)) /\ u \in Client
  <2>1. /\ Apart(Append(t.jobs, j), w, d)
        /\ Exchanges(Append(t.jobs, j), w, d) = Exchanges(t.jobs, w, d) \cup {j}
    BY <1>1, <1>3, Asked
  <2> QED
    BY <1>3, <2>1 DEF Sound
<1> QED
  BY <1>2, <1>3 DEF Follows

------------------------------------------------------------------------------
(* The steps.                                                              *)

\* Nobody is logged in, nothing is loaded, and nothing was asked.
LEMMA InitIInv == CheevosInit => IInv
<1> SUFFICES ASSUME CheevosInit PROVE IInv
  OBVIOUS
<1> USE DEF CheevosInit
<1>1. NoGame \in [rom : Roms \cup {NoRom}, live : BOOLEAN, waiting : BOOLEAN]
  BY DEF NoGame
<1>2. s.jobs = <<>> /\ s.events = <<>> /\ s.game = NoGame
  OBVIOUS
<1>3. s \in Client
  <2>1. <<>> \in Seq(Job) /\ <<>> \in Seq({"Reset"})
    BY EmptySeq
  <2>2. [i \in Ids |-> NoRom] \in [Ids -> Roms \cup {NoRom}] /\ [i \in Ids |-> 0] \in [Ids -> 0 .. 2]
    OBVIOUS
  <2>3. {} \in SUBSET Ids
    OBVIOUS
  <2> QED
    BY <1>1, <2>1, <2>2, <2>3 DEF Client
<1>4. TypeOK
  <2>1. done \in Seq(Answer)
    BY EmptySeq
  <2>2. made \in 0 .. MaxRequests
    BY BoundAssumption
  <2> QED
    BY <1>3, <2>1, <2>2 DEF TypeOK
<1>5. Apart(s.jobs, worker, done)
  BY <1>2 DEF Apart
<1>6. Exchanges(s.jobs, worker, done) = {}
  BY <1>2 DEF Exchanges
<1>7. Sound(s, made, rom, {})
  BY <1>2, <1>3 DEF Sound, CalledOnce, GameIsOpen, LoadIsOpen, OnTheirWay
<1> QED
  BY <1>4, <1>5, <1>6, <1>7 DEF IInv, LoginAgrees

LEMMA NextIInv == IInv /\ [CheevosNext]_cheevosVars => IInv'
<1> DEFINE J == Exchanges(s.jobs, worker, done)
<1> SUFFICES ASSUME IInv, [CheevosNext]_cheevosVars PROVE IInv'
  OBVIOUS
<1>0. /\ TypeOK /\ Apart(s.jobs, worker, done) /\ Sound(s, made, rom, J) /\ LoginAgrees(s)
      /\ rom \in Roms \cup {NoRom} /\ made \in 0 .. MaxRequests /\ s \in Client
      /\ worker \in Job \cup {NoJob} /\ done \in Seq(Answer) /\ pumping \in BOOLEAN
      /\ s.jobs \in Seq(Job)
  BY DEF IInv, TypeOK, Client
<1>a. ASSUME made' \in 0 .. MaxRequests, rom' \in Roms \cup {NoRom}, LoginAgrees(s'),
             Follows(s', s, made', rom', J), UNCHANGED <<worker, done, pumping>>
      PROVE  IInv'
  <2>1. Apart(s'.jobs, worker, done) /\ s' \in Client
        /\ Sound(s', made', rom', Exchanges(s'.jobs, worker, done))
    BY <1>0, <1>a, Landed
  <2> QED
    BY <1>0, <1>a, <2>1 DEF IInv, TypeOK
<1>1. ASSUME Login
      PROVE  IInv'
  <2> DEFINE b == [s EXCEPT !.of[made + 1] = NoRom]
             t == [b EXCEPT !.login = "LoggingIn"]
  <2>1. /\ made < MaxRequests /\ s.login \in {"LoggedOut", "Error"}
        /\ s' \in {BeginLogin(t, made + 1), Complete(t, made + 1, FALSE)}
        /\ made' = made + 1 /\ rom' = rom /\ UNCHANGED <<worker, done, pumping>>
    BY <1>0, <1>1 DEF Login, CanAsk, Boxed
  <2>2. /\ Sound(b, made, rom, J) /\ b.of[made + 1] = NoRom /\ b.jobs = s.jobs /\ b.user = s.user
    <3>1. PICK q \in Roms \cup {NoRom} : q = NoRom
      OBVIOUS
    <3> DEFINE z == [s EXCEPT !.of[made + 1] = q]
    <3>2. /\ Sound(z, made, rom, J) /\ z.of[made + 1] = q /\ z.jobs = s.jobs /\ z.user = s.user
      BY <1>0, <2>1, BoxedSound
    <3>3. b = z
      BY <3>1
    <3> HIDE DEF b, z
    <3> QED
      BY <3>1, <3>2, <3>3
  <2> HIDE DEF b
  <2>3. s.user = "none"
    BY <1>0, <2>1 DEF LoginAgrees, Client
  <2>4. b \in Client
    BY <2>2 DEF Sound
  <2>5. /\ t \in Client /\ t.load = b.load /\ t.aborted = b.aborted /\ t.loaded = b.loaded
        /\ t.called = b.called /\ t.login = "LoggingIn" /\ t.user = b.user
        /\ t.awaits = b.awaits /\ t.game = b.game /\ t.jobs = b.jobs /\ t.of = b.of
    BY <2>4 DEF Client
  <2> HIDE DEF t
  <2>6. Sound(t, made, rom, J)
    BY <2>2, <2>5, AlikeSound DEF Sound, GameIsOpen
  <2>7. Follows(s', t, made + 1, rom, J) /\ LoginAgrees(s')
    BY <1>0, <2>1, <2>2, <2>3, <2>5, <2>6, LoginSound
  <2>8. Follows(s', s, made', rom', J)
    BY <2>1, <2>2, <2>5, <2>7 DEF Follows
  <2> QED
    BY <1>0, <1>a, <2>1, <2>7, <2>8, BoundAssumption
<1>2. ASSUME Logout
      PROVE  IInv'
  <2> DEFINE t == [s EXCEPT !.user = "none"]
             o == UnloadGame(t)
  <2>1. /\ s.login = "LoggedIn" /\ s' = [o EXCEPT !.login = "LoggedOut"]
        /\ UNCHANGED <<rom, made, worker, done, pumping>>
    BY <1>2 DEF Logout
  <2>2. s.user = "in"
    BY <1>0, <2>1 DEF LoginAgrees
  <2>3. /\ t \in Client /\ t.load = s.load /\ t.aborted = s.aborted /\ t.loaded = s.loaded
        /\ t.called = s.called /\ t.user = "none"
        /\ t.awaits = s.awaits /\ t.game = s.game /\ t.jobs = s.jobs /\ t.of = s.of
    BY <1>0 DEF Client
  <2> HIDE DEF t
  <2>4. OnTheirWay(t, made, J)
    BY <1>0, <2>2, <2>3 DEF Sound, OnTheirWay
  <2>5. LoadIsOpen(t, made, rom, J)
    BY <1>0, <2>3 DEF Sound, LoadIsOpen
  <2>6. Sound(t, made, rom, J) /\ (t.loaded => rom # NoRom)
    BY <1>0, <2>3, <2>4, <2>5 DEF Sound, CalledOnce, GameIsOpen
  <2>7. Sound(o, made, rom, J) /\ o.jobs = t.jobs /\ o.user = t.user
    BY <1>0, <2>6, UnloadSound
  <2>8. o \in Client
    BY <2>7 DEF Sound
  <2> HIDE DEF o
  <2>9. /\ s' \in Client /\ s'.load = o.load /\ s'.aborted = o.aborted /\ s'.loaded = o.loaded
        /\ s'.called = o.called /\ s'.user = o.user /\ s'.login = "LoggedOut"
        /\ s'.awaits = o.awaits /\ s'.game = o.game /\ s'.jobs = o.jobs /\ s'.of = o.of
    BY <2>1, <2>8 DEF Client
  <2>10. Sound(s', made, rom, J)
    BY <2>7, <2>9, AlikeSound DEF Sound, GameIsOpen
  <2>11. Follows(s', s, made', rom', J) /\ LoginAgrees(s')
    BY <2>1, <2>3, <2>7, <2>9, <2>10 DEF Follows, LoginAgrees
  <2> QED
    BY <1>0, <1>a, <2>1, <2>11
<1>3. ASSUME NEW r \in Roms, LoadRom(r)
      PROVE  IInv'
  <2> DEFINE b == [s EXCEPT !.of[made + 1] = r]
             t == [b EXCEPT !.loaded = FALSE]
  <2>1. /\ made < MaxRequests /\ s' = BeginLoad(t, made + 1)
        /\ made' = made + 1 /\ rom' = r /\ UNCHANGED <<worker, done, pumping>>
    BY <1>0, <1>3 DEF LoadRom, CanAsk, Boxed
  <2>2. /\ Sound(b, made, rom, J) /\ b.of[made + 1] = r /\ b.jobs = s.jobs
        /\ b.user = s.user /\ b.login = s.login
    BY <1>0, <2>1, BoxedSound
  <2> HIDE DEF b
  <2>3. b \in Client
    BY <2>2 DEF Sound
  <2>4. /\ t \in Client /\ t.load = b.load /\ t.aborted = b.aborted /\ t.loaded = FALSE
        /\ t.called = b.called /\ t.login = b.login /\ t.user = b.user
        /\ t.awaits = b.awaits /\ t.game = b.game /\ t.jobs = b.jobs /\ t.of = b.of
    BY <2>3 DEF Client
  <2> HIDE DEF t
  <2>5. Sound(t, made, rom, J)
    <3>1. GameIsOpen(t, rom) /\ (t.loaded => rom # NoRom)
      BY <2>2, <2>4 DEF Sound, GameIsOpen
    <3> QED
      BY <2>2, <2>4, <3>1, AlikeSound
  <2> DEFINE u == BeginLoad(t, made + 1)
  <2>6. Follows(u, t, made + 1, r, J) /\ u.login = t.login /\ u.user = t.user
    BY <1>0, <2>1, <2>2, <2>4, <2>5, BeginLoadSound
  <2> HIDE DEF u
  <2>7. s' = u
    BY <2>1 DEF u
  <2>8. Follows(s', s, made', rom', J) /\ LoginAgrees(s')
    BY <1>0, <2>1, <2>2, <2>4, <2>6, <2>7 DEF Follows, LoginAgrees
  <2> QED
    BY <1>0, <1>a, <2>1, <2>8, BoundAssumption
<1>4. ASSUME CloseRom
      PROVE  IInv'
  <2> DEFINE t == [s EXCEPT !.loaded = FALSE]
             o == UnloadGame(t)
  <2>1. s' = o /\ rom' = NoRom /\ UNCHANGED <<made, worker, done, pumping>>
    BY <1>4 DEF CloseRom, Closed
  <2>2. /\ t \in Client /\ t.load = s.load /\ t.aborted = s.aborted /\ t.loaded = FALSE
        /\ t.called = s.called /\ t.user = s.user /\ t.login = s.login
        /\ t.awaits = s.awaits /\ t.game = s.game /\ t.jobs = s.jobs /\ t.of = s.of
    BY <1>0 DEF Client
  <2> HIDE DEF t
  <2>3. Sound(t, made, rom, J) /\ (t.loaded => NoRom # NoRom)
    <3>1. GameIsOpen(t, rom) /\ (t.loaded => rom # NoRom)
      BY <1>0, <2>2 DEF Sound, GameIsOpen
    <3> QED
      BY <1>0, <2>2, <3>1, AlikeSound
  <2>4. Sound(o, made, NoRom, J) /\ o.jobs = t.jobs /\ o.user = t.user /\ o.login = t.login
    BY <1>0, <2>3, UnloadSound
  <2> HIDE DEF o
  <2>5. Follows(s', s, made', rom', J) /\ LoginAgrees(s')
    BY <1>0, <2>1, <2>2, <2>4 DEF Follows, LoginAgrees
  <2> QED
    BY <1>0, <1>a, <2>1, <2>5
<1>5. ASSUME ToggleHardcore
      PROVE  IInv'
  <2>1. s' = SetHardcore(s) /\ UNCHANGED <<rom, made, worker, done, pumping>>
    BY <1>5 DEF ToggleHardcore
  <2>2. /\ s' \in Client /\ s'.load = s.load /\ s'.aborted = s.aborted /\ s'.loaded = s.loaded
        /\ s'.called = s.called /\ s'.user = s.user /\ s'.login = s.login
        /\ s'.awaits = s.awaits /\ s'.jobs = s.jobs /\ s'.of = s.of
        /\ GameIsOpen(s', rom)
    <3>1. CASE ~ s.hardcore /\ s.game # NoGame
      <4> DEFINE g == [s.game EXCEPT !.waiting = TRUE]
                 e == Append(s.events, "Reset")
      <4>1. /\ g \in [rom : Roms \cup {NoRom}, live : BOOLEAN, waiting : BOOLEAN]
            /\ g.rom = s.game.rom /\ s.game.rom = rom
        BY <1>0, <3>1 DEF Client, Sound, GameIsOpen
      <4>2. e \in Seq({"Reset"})
        BY <1>0, AppendProperties DEF Client
      <4>3. s' = [s EXCEPT !.hardcore = TRUE, !.game = g, !.events = e]
        BY <1>0, <2>1, <3>1 DEF SetHardcore, Client
      <4> HIDE DEF g, e
      <4> QED
        BY <1>0, <4>1, <4>2, <4>3 DEF Client, GameIsOpen
    <3>2. CASE ~ (~ s.hardcore /\ s.game # NoGame)
      <4>1. s' = [s EXCEPT !.hardcore = ~ @]
        BY <2>1, <3>2 DEF SetHardcore
      <4>2. (~ s.hardcore) \in BOOLEAN
        OBVIOUS
      <4>3. s'.game = s.game
        BY <1>0, <4>1 DEF Client
      <4> QED
        BY <1>0, <4>1, <4>2, <4>3 DEF Client, Sound, GameIsOpen
    <3> QED
      BY <3>1, <3>2
  <2>3. Sound(s', made, rom, J)
    BY <1>0, <2>2, AlikeSound DEF Sound
  <2>4. Follows(s', s, made', rom', J) /\ LoginAgrees(s')
    BY <1>0, <2>1, <2>2, <2>3 DEF Follows, LoginAgrees
  <2> QED
    BY <1>0, <1>a, <2>1, <2>4
<1>6. ASSUME Pump
      PROVE  IInv'
  BY <1>0, <1>6 DEF Pump, IInv, TypeOK
<1>7. ASSUME Poll
      PROVE  IInv'
  <2> DEFINE job == Head(done).job
             answer == Head(done).answer
             K == Exchanges(s.jobs, worker, Tail(done))
             u == Answered(s, job, answer)
  <2>1. /\ done # <<>> /\ s' = u /\ done' = Tail(done) /\ UNCHANGED <<rom, made, worker, pumping>>
    BY <1>7 DEF Poll
  <2>2. /\ Head(done) \in Answer /\ Tail(done) \in Seq(Answer)
        /\ Apart(s.jobs, worker, Tail(done))
        /\ job \in J /\ K \subseteq J /\ \A j \in K : j.id # job.id
    BY <1>0, <2>1, Polled
  <2>3. /\ job \in Job /\ job.kind \in {"login", "sets", "session"}
        /\ answer \in {"ok", "error", "unknown"}
    BY <2>2 DEF Answer, Job
  <2> HIDE DEF job, answer, J, K
  <2>4. Follows(u, s, made, rom, K) /\ LoginAgrees(u)
    BY <1>0, <2>2, <2>3, AnsweredSound
  <2> HIDE DEF u
  <2>5. /\ Apart(u.jobs, worker, Tail(done)) /\ u \in Client
        /\ Sound(u, made, rom, Exchanges(u.jobs, worker, Tail(done)))
    BY <1>0, <2>2, <2>4, Landed DEF K
  <2> QED
    BY <1>0, <2>1, <2>2, <2>4, <2>5 DEF IInv, TypeOK
<1>8. ASSUME TakeEvents
      PROVE  IInv'
  <2>1. s' = [s EXCEPT !.events = <<>>] /\ pumping' = FALSE /\ UNCHANGED <<rom, made, worker, done>>
    BY <1>8 DEF TakeEvents
  <2>2. /\ s' \in Client /\ s'.load = s.load /\ s'.aborted = s.aborted /\ s'.loaded = s.loaded
        /\ s'.called = s.called /\ s'.user = s.user /\ s'.login = s.login
        /\ s'.awaits = s.awaits /\ s'.game = s.game /\ s'.jobs = s.jobs /\ s'.of = s.of
    <3>1. <<>> \in Seq({"Reset"})
      BY EmptySeq
    <3> QED
      BY <1>0, <2>1, <3>1 DEF Client
  <2>3. Sound(s', made, rom, J)
    <3>1. GameIsOpen(s', rom) /\ (s'.loaded => rom # NoRom)
      BY <1>0, <2>2 DEF Sound, GameIsOpen
    <3> QED
      BY <1>0, <2>2, <3>1, AlikeSound
  <2> QED
    BY <1>0, <2>1, <2>2, <2>3 DEF IInv, TypeOK, LoginAgrees
<1>9. ASSUME WorkerTakes
      PROVE  IInv'
  <2>1. /\ worker = NoJob /\ s.jobs # <<>> /\ worker' = Head(s.jobs)
        /\ s' = [s EXCEPT !.jobs = Tail(@)] /\ UNCHANGED <<rom, made, done, pumping>>
    BY <1>9 DEF WorkerTakes
  <2>2. /\ Head(s.jobs) \in Job /\ Tail(s.jobs) \in Seq(Job)
        /\ Apart(Tail(s.jobs), Head(s.jobs), done)
        /\ Exchanges(Tail(s.jobs), Head(s.jobs), done) = J
    BY <1>0, <2>1, Taken
  <2>3. /\ s' \in Client /\ s'.load = s.load /\ s'.aborted = s.aborted /\ s'.loaded = s.loaded
        /\ s'.called = s.called /\ s'.user = s.user /\ s'.login = s.login
        /\ s'.awaits = s.awaits /\ s'.game = s.game /\ s'.jobs = Tail(s.jobs) /\ s'.of = s.of
    BY <1>0, <2>1, <2>2 DEF Client
  <2>4. Sound(s', made, rom, J)
    <3>1. GameIsOpen(s', rom) /\ (s'.loaded => rom # NoRom)
      BY <1>0, <2>3 DEF Sound, GameIsOpen
    <3> QED
      BY <1>0, <2>3, <3>1, AlikeSound
  <2> QED
    BY <1>0, <2>1, <2>2, <2>3, <2>4 DEF IInv, TypeOK, LoginAgrees
<1>10. ASSUME WorkerAnswers
       PROVE  IInv'
  <2>1. worker # NoJob /\ worker' = NoJob /\ UNCHANGED <<rom, made, s, pumping>>
    BY <1>10 DEF WorkerAnswers
  <2>2. PICK a \in {"ok", "error", "unknown"} : done' = done \o <<[job |-> worker, answer |-> a]>>
    BY <1>10 DEF WorkerAnswers, Perform
  <2> DEFINE b == [job |-> worker, answer |-> a]
  <2>3. worker \in Job /\ b \in Answer /\ b.job = worker
    BY <1>0, <2>1 DEF Answer
  <2> HIDE DEF b
  <2>4. /\ done \o <<b>> \in Seq(Answer) /\ Apart(s.jobs, NoJob, done \o <<b>>)
        /\ Exchanges(s.jobs, NoJob, done \o <<b>>) = J
    BY <1>0, <2>3, Ended
  <2>5. done' = done \o <<b>>
    BY <2>2 DEF b
  <2> QED
    BY <1>0, <2>1, <2>4, <2>5 DEF IInv, TypeOK, LoginAgrees
<1>11. ASSUME UNCHANGED cheevosVars
       PROVE  IInv'
  BY <1>0, <1>11 DEF cheevosVars, IInv, TypeOK
<1> QED
  BY <1>1, <1>2, <1>3, <1>4, <1>5, <1>6, <1>7, <1>8, <1>9, <1>10, <1>11 DEF CheevosNext

\* What the run checks, of every sound state.
LEMMA IInvAnswersBelong == IInv => AnswersBelong
<1> SUFFICES ASSUME IInv PROVE AnswersBelong
  OBVIOUS
<1> DEFINE J == Exchanges(s.jobs, worker, done)
<1>1. Sound(s, made, rom, J) /\ s \in Client /\ LoginAgrees(s)
  BY DEF IInv, TypeOK
<1> HIDE DEF J
<1>2. \A i \in Ids : s.called[i] <= 1
  BY <1>1 DEF Sound, CalledOnce
<1>3. /\ s.game # NoGame => s.game.rom = rom
      /\ s.load # 0 => s.of[s.load] = rom
      /\ s.loaded => rom # NoRom
  BY <1>1 DEF Sound, GameIsOpen, LoadIsOpen
<1>4. /\ s.user \in {"none", "requested", "in"}
      /\ s.login \in {"LoggedOut", "LoggingIn", "LoggedIn", "Error"}
  BY <1>1 DEF Client
<1>5. s.login = CASE s.user = "in" -> "LoggedIn" [] s.user = "requested" -> "LoggingIn"
                  [] s.user = "none" -> IF s.login = "Error" THEN "Error" ELSE "LoggedOut"
  <2>1. CASE s.user = "in"
    BY <1>1, <2>1 DEF LoginAgrees
  <2>2. CASE s.user = "requested"
    BY <1>1, <2>2 DEF LoginAgrees
  <2>3. CASE s.user = "none"
    BY <1>1, <1>4, <2>3 DEF LoginAgrees
  <2> QED
    BY <1>4, <2>1, <2>2, <2>3
<1> QED
  BY <1>2, <1>3, <1>5 DEF AnswersBelong

------------------------------------------------------------------------------
(* The theorems.                                                           *)

\* Whatever the worker and the window do, the state is of its types (client.rs
\* 38-60; http.rs 60-94).
THEOREM CheevosTypeCorrect == CheevosSpec => []TypeOK
<1>1. IInv => TypeOK
  BY DEF IInv
<1> QED
  BY <1>1, InitIInv, NextIInv, PTL DEF CheevosSpec

\* A completion's box is freed once, the game the library watches or loads is
\* that of the ROM that is open, and the panel says what the library knows of
\* the user, however late an exchange is answered and whatever the user has done
\* since (client.rs 161-188; cheevos.rs 145-163).
THEOREM AnswersWhereTheyBelong == CheevosSpec => []AnswersBelong
<1> QED
  BY InitIInv, NextIInv, IInvAnswersBelong, PTL DEF CheevosSpec

------------------------------------------------------------------------------
(* Scripts: types.                                                         *)

MachineOf == [rom : Carts \cup {NoCart}, time : Int, poked : BOOLEAN]
Blobs == [tag : Int, system : MachineOf]
Buses ==
  [loaded : {TRUE}, clone : MachineOf, tag : Int, paused : BOOLEAN, up : BOOLEAN,
   select : SUBSET BOOLEAN, kept : Blobs, failed : BOOLEAN, overlay : Seq({"line"})]

Types ==
  /\ tag \in Carts \cup {NoCart}
  /\ system \in MachineOf
  /\ stopped \in BOOLEAN
  /\ hostInput \in [up : BOOLEAN, select : BOOLEAN]
  /\ locked \in BOOLEAN
  /\ script \in Buses \cup {NoScript}

------------------------------------------------------------------------------
(* Runs.                                                                   *)

LEMMA LeastNat ==
  ASSUME NEW T \in SUBSET Nat, T # {}
  PROVE  \E n \in T : \A k \in T : n <= k
<1>1. PICK n \in T : \A k \in T : ~ (<<k, n>> \in OpToRel(<, Nat))
  BY NatLessThanWellFounded, WFMin
<1>2. \A k \in T : ~ (k < n)
  BY <1>1 DEF OpToRel
<1> QED
  BY <1>2

Step(f, b, calls, lock, i) == IF i = 0 THEN b ELSE Call(f[i - 1], calls[i], lock)

\* There is a function that takes the calls one by one: if there were none for
\* some number of calls, a function for one call fewer would extend to it.
LEMMA RunExists ==
  ASSUME NEW b \in Buses, NEW calls \in Seq(Calls), NEW lock \in BOOLEAN, NEW n \in Nat
  PROVE  \E S : \E f \in [0 .. n -> S] : \A i \in 0 .. n : f[i] = Step(f, b, calls, lock, i)
<1> DEFINE Good(k) == \E f : f = [i \in 0 .. k |-> Step(f, b, calls, lock, i)]
           Bad == {k \in Nat : ~ Good(k)}
<1> SUFFICES ASSUME Bad # {} PROVE FALSE
  <2>1. PICK f : f = [i \in 0 .. n |-> Step(f, b, calls, lock, i)]
    OBVIOUS
  <2> DEFINE S == {f[i] : i \in 0 .. n}
  <2>2. f \in [0 .. n -> S]
    BY <2>1
  <2>3. \A i \in 0 .. n : f[i] = Step(f, b, calls, lock, i)
    BY <2>1, Zenon
  <2> QED
    BY <2>2, <2>3
<1>1. PICK k \in Bad : \A j \in Bad : k <= j
  <2>1. Bad \in SUBSET Nat
    OBVIOUS
  <2> HIDE DEF Bad
  <2> QED
    BY <2>1, LeastNat
<1>2. k \in Nat /\ ~ Good(k)
  OBVIOUS
<1>3. k # 0
  <2> SUFFICES ASSUME k = 0 PROVE Good(0)
    BY <1>2
  <2> DEFINE f == [i \in 0 .. 0 |-> b]
  <2>1. f = [i \in 0 .. 0 |-> Step(f, b, calls, lock, i)]
    BY DEF Step
  <2> QED
    BY <2>1
<1>4. k - 1 \in Nat /\ Good(k - 1)
  <2>1. k - 1 \in Nat /\ k - 1 < k
    BY <1>2, <1>3
  <2>2. k - 1 \notin Bad
    BY <1>1, <1>2, <2>1
  <2> QED
    BY <2>1, <2>2
<1>5. PICK f : f = [i \in 0 .. k - 1 |-> Step(f, b, calls, lock, i)]
  BY <1>4
<1> DEFINE g == [i \in 0 .. k |-> IF i = k THEN Call(f[k - 1], calls[k], lock) ELSE f[i]]
<1>6. \A i \in 0 .. k : g[i] = Step(g, b, calls, lock, i)
  <2> TAKE i \in 0 .. k
  <2>1. CASE i = k
    <3>1. g[i] = Call(f[k - 1], calls[k], lock) /\ g[i - 1] = f[k - 1]
      BY <1>2, <1>3, <2>1
    <3> QED
      BY <1>3, <2>1, <3>1 DEF Step
  <2>2. CASE i # k
    <3>1. i \in 0 .. k - 1 /\ g[i] = f[i]
      BY <1>2, <2>2
    <3>2. f[i] = Step(f, b, calls, lock, i)
      BY <1>5, <3>1, Zenon
    <3>3. i # 0 => i - 1 \in 0 .. k /\ i - 1 # k /\ g[i - 1] = f[i - 1]
      BY <1>2, <3>1
    <3> QED
      BY <3>1, <3>2, <3>3 DEF Step
  <2> QED
    BY <2>1, <2>2
<1>7. g = [i \in 0 .. k |-> Step(g, b, calls, lock, i)]
  BY <1>6
<1> QED
  BY <1>2, <1>7, Zenon

\* What holds of the bus at first, and is kept by every call, holds of the bus
\* that the run leaves.
LEMMA RunKeeps ==
  ASSUME NEW b \in Buses, NEW calls \in Seq(Calls), NEW lock \in BOOLEAN, NEW Ok, b \in Ok,
         \A c \in Ok : \A call \in Calls : Call(c, call, lock) \in Ok
  PROVE  Run(b, calls, lock) \in Ok
<1> DEFINE n == Len(calls)
           Is(f) == f = [i \in 0 .. n |-> IF i = 0 THEN b ELSE Call(f[i - 1], calls[i], lock)]
           after == CHOOSE f : Is(f)
<1>1. n \in Nat
  OBVIOUS
<1>2. \E f : Is(f)
  <2> HIDE DEF n
  <2>1. PICK S : \E f \in [0 .. n -> S] : \A i \in 0 .. n : f[i] = Step(f, b, calls, lock, i)
    BY <1>1, RunExists
  <2>3. PICK f \in [0 .. n -> S] : \A i \in 0 .. n : f[i] = Step(f, b, calls, lock, i)
    BY <2>1
  <2>2. f = [i \in 0 .. n |-> IF i = 0 THEN b ELSE Call(f[i - 1], calls[i], lock)]
    BY <2>3 DEF Step
  <2> QED
    BY <2>2
<1>3. Is(after)
  BY <1>2, Zenon
<1>4. Run(b, calls, lock) = after[n]
  BY Zenon DEF Run
<1> DEFINE Bad == {k \in 0 .. n : after[k] \notin Ok}
<1>5. Bad = {}
  <2> SUFFICES ASSUME Bad # {} PROVE FALSE
    OBVIOUS
  <2>1. Bad \in SUBSET Nat
    OBVIOUS
  <2>2. PICK k \in Bad : \A j \in Bad : k <= j
    <3> HIDE DEF Bad
    <3> QED
      BY <2>1, LeastNat
  <2>3. k \in 0 .. n /\ after[k] \notin Ok
    OBVIOUS
  <2>4. after[k] = IF k = 0 THEN b ELSE Call(after[k - 1], calls[k], lock)
    <3> HIDE DEF after
    <3> QED
      BY <1>3, <2>3, Zenon
  <2> HIDE DEF after
  <2>5. k # 0
    BY <2>3, <2>4
  <2>6. k - 1 \in 0 .. n /\ k - 1 < k /\ calls[k] \in Calls
    BY <1>1, <2>3, <2>5
  <2>7. after[k - 1] \in Ok
    BY <2>2, <2>3, <2>6
  <2> QED
    BY <2>3, <2>4, <2>5, <2>6, <2>7
<1> HIDE DEF after
<1>6. after[n] \in Ok
  BY <1>1, <1>5
<1> QED
  BY <1>4, <1>6

------------------------------------------------------------------------------
(* What calls and runs leave of a bus.                                     *)

\* Every call keeps the types.
LEMMA CallTypes ==
  ASSUME NEW b \in Buses, NEW call \in Calls, NEW lock \in BOOLEAN
  PROVE  Call(b, call, lock) \in Buses
<1>1. Fail(b) \in Buses
  BY DEF Fail, Buses
<1>2. Restore(b) \in Buses
  BY <1>1 DEF Restore, Buses, Blobs
<1>3. [b EXCEPT !.clone.poked = TRUE] \in Buses
  BY DEF Buses, MachineOf
<1>4. [b EXCEPT !.up = ~ @] \in Buses
  BY DEF Buses
<1>5. [b EXCEPT !.select = IF @ = {TRUE} THEN {FALSE} ELSE {TRUE}] \in Buses
  BY DEF Buses
<1>6. [b EXCEPT !.overlay = Append(@, "line")] \in Buses
  <2>1. b.overlay \in Seq({"line"})
    BY DEF Buses
  <2> DEFINE drawn == Append(b.overlay, "line")
  <2>2. drawn \in Seq({"line"})
    BY <2>1
  <2> HIDE DEF drawn
  <2>3. [b EXCEPT !.overlay = drawn] \in Buses
    BY <2>2 DEF Buses
  <2> QED
    BY <2>3 DEF drawn
<1>7. [b EXCEPT !.paused = TRUE] \in Buses
  BY DEF Buses
<1>8. [b EXCEPT !.kept = [tag |-> b.tag, system |-> b.clone]] \in Buses
  BY DEF Buses, Blobs
<1> QED
  BY <1>1, <1>2, <1>3, <1>4, <1>5, <1>6, <1>7, <1>8 DEF Call, Calls, Gated

\* The machines a run may leave: those it had at first, poked if that is allowed.
Poked(q) == [q EXCEPT !.poked = TRUE]
From(b, lock) ==
  {b.clone, b.kept.system} \cup (IF lock THEN {} ELSE {Poked(b.clone), Poked(b.kept.system)})

\* The buses that a run may leave of b.
Honest(b, lock) ==
  {c \in Buses : /\ c.clone \in From(b, lock) /\ c.kept.system \in From(b, lock)
                 /\ lock => c.up = b.up /\ c.select = b.select}

LEMMA FromPoked ==
  ASSUME NEW b \in Buses, NEW lock \in BOOLEAN, ~ lock, NEW q \in From(b, lock)
  PROVE  Poked(q) \in From(b, lock)
<1>1. b.clone \in MachineOf /\ b.kept.system \in MachineOf
  BY DEF Buses, Blobs
<1>2. \A p \in MachineOf : Poked(Poked(p)) = Poked(p)
  BY DEF Poked, MachineOf
<1> QED
  BY <1>1, <1>2 DEF From

LEMMA CallHonest ==
  ASSUME NEW b \in Buses, NEW lock \in BOOLEAN, NEW c \in Honest(b, lock), NEW call \in Calls
  PROVE  Call(c, call, lock) \in Honest(b, lock)
<1> DEFINE d == Call(c, call, lock)
<1>1. c \in Buses /\ d \in Buses
  BY CallTypes DEF Honest
<1>2. c.clone \in From(b, lock) /\ c.kept.system \in From(b, lock)
  BY DEF Honest
<1>3. lock => c.up = b.up /\ c.select = b.select
  BY DEF Honest
<1>4. d.clone \in {c.clone, c.kept.system} \/ (~ lock /\ d.clone = Poked(c.clone))
  BY <1>1 DEF Call, Calls, Gated, Fail, Restore, Buses, Blobs, Poked, MachineOf
<1>5. d.kept.system \in {c.clone, c.kept.system}
  BY <1>1 DEF Call, Calls, Gated, Fail, Restore, Buses, Blobs
<1>6. lock => d.up = c.up /\ d.select = c.select
  BY <1>1 DEF Call, Calls, Gated, Fail, Restore, Buses, Blobs
<1>7. d.clone \in From(b, lock)
  BY <1>2, <1>4, FromPoked
<1> HIDE DEF d
<1>8. d.kept.system \in From(b, lock)
  BY <1>2, <1>5
<1>9. d \in Honest(b, lock)
  BY <1>1, <1>3, <1>6, <1>7, <1>8 DEF Honest
<1> QED
  BY <1>9 DEF d

LEMMA RunHonest ==
  ASSUME NEW b \in Buses, NEW calls \in Seq(Calls), NEW lock \in BOOLEAN
  PROVE  Run(b, calls, lock) \in Honest(b, lock)
<1>1. b \in Honest(b, lock)
  BY DEF Honest, From
<1> QED
  BY <1>1, CallHonest, RunKeeps

------------------------------------------------------------------------------
(* The steps.                                                              *)

LEMMA BlankTypes ==
  /\ Blank \in MachineOf
  /\ \A r \in Carts : PowerOn(r) \in MachineOf
<1>1. Blank \in MachineOf
  BY DEF Blank, MachineOf
<1> QED
  BY <1>1 DEF PowerOn, MachineOf

LEMMA InitTypes == ScriptsInit => Types
<1> SUFFICES ASSUME ScriptsInit PROVE Types
  OBVIOUS
<1>1. system \in MachineOf
  BY BlankTypes DEF ScriptsInit
<1>2. hostInput \in [up : BOOLEAN, select : BOOLEAN]
  BY DEF ScriptsInit
<1> QED
  BY <1>1, <1>2 DEF ScriptsInit, Types

LEMMA NewTypes == NewScript \in Buses
BY DEF NewScript, Buses, Blobs, NoBlob, Blank, MachineOf, RomTag

LEMMA SyncedTypes ==
  ASSUME Types, MayRun
  PROVE  /\ script \in Buses /\ Synced(script) \in Buses
         /\ Synced(script).clone = system /\ Synced(script).kept = script.kept
         /\ Synced(script).up = FALSE /\ Synced(script).select = {}
<1>1. script \in Buses
  BY DEF Types, MayRun, NoScript
<1> QED
  BY <1>1 DEF Types, Synced, Buses

LEMMA RenderHonest ==
  ASSUME Types, Render
  PROVE  /\ Types'
         /\ GivenBack
         /\ locked => script'.kept.system \in {system, script.kept.system} /\ hostInput' = hostInput
<1> DEFINE bus == Synced(script)
<1>1. PICK calls \in Programs :
        LET b == Run(bus, calls, locked)
        IN  /\ system' = b.clone
            /\ stopped' = (stopped \/ b.paused)
            /\ hostInput' = Overridden(hostInput, b)
            /\ script' = TakeOverlay([NewScript EXCEPT !.clone = b.clone, !.kept = b.kept,
                                                       !.overlay = b.overlay])
  BY DEF Render
<1> DEFINE b == Run(bus, calls, locked)
<1>2. system' = b.clone /\ stopped' = (stopped \/ b.paused) /\ hostInput' = Overridden(hostInput, b)
      /\ script' = TakeOverlay([NewScript EXCEPT !.clone = b.clone, !.kept = b.kept,
                                                 !.overlay = b.overlay])
  BY <1>1
<1>3. bus \in Buses /\ bus.clone = system /\ bus.kept = script.kept /\ bus.up = FALSE /\ bus.select = {}
  BY SyncedTypes DEF Render
<1>4. calls \in Seq(Calls) /\ locked \in BOOLEAN
  BY ScriptsAssumption DEF Types
<1> HIDE DEF bus
<1>5. b \in Honest(bus, locked)
  BY <1>3, <1>4, RunHonest
<1> HIDE DEF b
<1>6. b \in Buses /\ b.clone \in From(bus, locked) /\ b.kept.system \in From(bus, locked)
      /\ (locked => b.up = FALSE /\ b.select = {})
  BY <1>3, <1>5 DEF Honest
<1>7. Types'
  <2>1. system' \in MachineOf /\ stopped' \in BOOLEAN
    BY <1>2, <1>6 DEF Buses, Types
  <2>2. Overridden(hostInput, b) \in [up : BOOLEAN, select : BOOLEAN]
    BY <1>6 DEF Overridden, Buses, Types
  <2>3. script' \in Buses
    <3> DEFINE n == [NewScript EXCEPT !.clone = b.clone, !.kept = b.kept, !.overlay = b.overlay]
    <3>1. n \in Buses
      BY <1>6, NewTypes DEF Buses
    <3> HIDE DEF n
    <3>2. <<>> \in Seq({"line"})
      OBVIOUS
    <3> DEFINE nothing == <<>>
    <3> HIDE DEF nothing
    <3>3. [n EXCEPT !.overlay = nothing] \in Buses
      BY <3>1, <3>2 DEF Buses, nothing
    <3>4. TakeOverlay(n) \in Buses
      BY <3>3, Zenon DEF TakeOverlay, nothing
    <3> QED
      BY <1>2, <3>4 DEF n
  <2> QED
    BY <1>2, <2>1, <2>2, <2>3 DEF Render, Types
<1>8. GivenBack
  BY <1>2, <1>3, <1>6, Zenon DEF GivenBack, From, Poked
<1>9. locked => script'.kept.system \in {system, script.kept.system}
  <2>1. script'.kept = b.kept
    BY <1>2 DEF TakeOverlay, NewScript
  <2> QED
    BY <1>3, <1>6, <2>1 DEF From
<1>10. locked => hostInput' = hostInput
  BY <1>2, <1>6 DEF Overridden, Types
<1> QED
  BY <1>7, <1>8, <1>9, <1>10

LEMMA LoadTypes == ASSUME Types, LoadScript PROVE Types'
<1>1. PICK calls \in Programs :
        LET b == Run(NewScript, calls, FALSE)
        IN  script' = [NewScript EXCEPT !.clone = b.clone, !.kept = b.kept, !.overlay = b.overlay]
  BY DEF LoadScript
<1> DEFINE b == Run(NewScript, calls, FALSE)
<1>2. script' = [NewScript EXCEPT !.clone = b.clone, !.kept = b.kept, !.overlay = b.overlay]
  BY <1>1
<1>3. b \in Buses
  <2>1. calls \in Seq(Calls)
    BY ScriptsAssumption
  <2> QED
    BY <2>1, NewTypes, RunHonest DEF Honest
<1> HIDE DEF b
<1>4. script' \in Buses
  BY <1>2, <1>3, NewTypes DEF Buses
<1> QED
  BY <1>4 DEF LoadScript, Types

LEMMA NextTypes == Types /\ [ScriptsNext]_scriptVars => Types'
<1> SUFFICES ASSUME Types, [ScriptsNext]_scriptVars PROVE Types'
  OBVIOUS
<1>1. CASE Render
  BY <1>1, RenderHonest
<1>2. CASE LoadScript
  BY <1>2, LoadTypes
<1>3. CASE UnloadScript
  BY <1>3 DEF UnloadScript, Types
<1>4. ASSUME NEW r \in Carts, OpenGame(r) PROVE Types'
  BY <1>4, BlankTypes DEF OpenGame, Types
<1>5. CASE CloseGame
  BY <1>5, BlankTypes DEF CloseGame, Types
<1>6. CASE PauseGame
  BY <1>6 DEF PauseGame, Types
<1>7. CASE ToggleLock
  BY <1>7 DEF ToggleLock, Types
<1>8. ASSUME NEW line \in {"up", "select"}, Press(line) PROVE Types'
  BY <1>8 DEF Press, Types
<1>9. CASE EmuFrame
  BY <1>9 DEF EmuFrame, Types, MachineOf
<1>10. CASE UNCHANGED scriptVars
  BY <1>10 DEF scriptVars, Types
<1> QED
  BY <1>1, <1>2, <1>3, <1>4, <1>5, <1>6, <1>7, <1>8, <1>9, <1>10 DEF ScriptsNext

------------------------------------------------------------------------------
(* The theorems.                                                           *)

\* Every part of the host and of the script's bus keeps its type, whatever is
\* run and opened (scripting.rs 65-107, engine.rs 307-342).
THEOREM ScriptsTypes == ScriptsSpec => []Types
<1>1. ScriptsInit => Types
  BY InitTypes
<1>2. Types /\ [ScriptsNext]_scriptVars => Types'
  BY NextTypes
<1> QED
  BY <1>1, <1>2, PTL DEF ScriptsSpec

\* A redraw gives the game only what its script asked for in it.  Under the lock
\* nothing is poked and no input is set, in the machine or in what the script
\* keeps: a redraw may still put back a state kept before, for programs of any
\* length (scripting.rs 208-243, engine.rs 46-61, 99-305).
THEOREM ScriptsStayHonest == ScriptsSpec => ScriptsHonest
<1> DEFINE Told ==
      /\ system' # system => EmuFrame \/ CloseGame \/ (\E r \in Carts : OpenGame(r)) \/ GivenBack
      /\ locked => KeptUnpoked
      /\ hostInput' # hostInput => ~ locked \/ \E line \in {"up", "select"} : Press(line)
<1>1. Types /\ [ScriptsNext]_scriptVars => [Told]_scriptVars
  <2> SUFFICES ASSUME Types, ScriptsNext PROVE Told
    OBVIOUS
  <2>1. CASE Render
    BY <2>1, RenderHonest DEF KeptUnpoked
  <2>2. CASE LoadScript
    BY <2>2 DEF LoadScript, KeptUnpoked
  <2>3. CASE UnloadScript
    BY <2>3 DEF UnloadScript, NoScript, KeptUnpoked
  <2>4. CASE PauseGame \/ ToggleLock
    BY <2>4 DEF PauseGame, ToggleLock, KeptUnpoked
  <2>5. ASSUME NEW r \in Carts, OpenGame(r) PROVE Told
    BY <2>5 DEF OpenGame, KeptUnpoked
  <2>6. CASE CloseGame
    BY <2>6 DEF CloseGame, KeptUnpoked
  <2>7. ASSUME NEW line \in {"up", "select"}, Press(line) PROVE Told
    BY <2>7 DEF Press, KeptUnpoked
  <2>8. CASE EmuFrame
    BY <2>8 DEF EmuFrame, KeptUnpoked
  <2> QED
    BY <2>1, <2>2, <2>3, <2>4, <2>5, <2>6, <2>7, <2>8 DEF ScriptsNext
<1>2. ScriptsInit => Types
  BY InitTypes
<1>3. Types /\ [ScriptsNext]_scriptVars => Types'
  BY NextTypes
<1> QED
  BY <1>1, <1>2, <1>3, PTL DEF ScriptsSpec, ScriptsHonest
===============================================================================
