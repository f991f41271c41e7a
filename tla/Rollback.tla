------------------------------ MODULE Rollback ------------------------------
(***************************************************************************)
(* A netplay game: two peers, each with a RollbackSession                  *)
(* (crates/rusty2600-netplay/src/session.rs) that the window's redraw      *)
(* drives (crates/rusty2600-frontend/src/app.rs 808-826).                  *)
(*                                                                         *)
(* A call of advance_frame asks the rollback library for requests and      *)
(* serves them one by one: save the machine in a cell, load it back, play  *)
(* a frame with both players' inputs.  The library is external: its        *)
(* packets arrive late, but in order and unaltered, so what a peer has     *)
(* heard is a prefix of what the other has sent.                           *)
(*                                                                         *)
(* The machine is deterministic: it is the sequence of inputs it has       *)
(* played, each <<port 0's, port 1's>>.                                    *)
(***************************************************************************)
EXTENDS Integers, Sequences

CONSTANTS
  Inputs,     \* values of PortInput that matter
  Idle,       \* PortInput::default()
  Delay,      \* DEFAULT_INPUT_DELAY                  (2)
  Window,     \* DEFAULT_MAX_PREDICTION_WINDOW        (8)
  MaxFrames   \* bound: frames of a game

ASSUME InputAssumption == Idle \in Inputs
ASSUME DelayAssumption == Delay \in Nat
ASSUME WindowAssumption == Window \in Nat \ {0}
ASSUME FrameAssumption == MaxFrames \in Nat

Peers == {1, 2}
Other(p) == 3 - p

Phases == {"syncing",    \* the handshake has not ended
           "running",    \* between two redraws
           "handling",   \* in advance_frame's loop
           "dropped",    \* an error ended it: active.netplay is None
           "over"}       \* the player did
Ended == {"dropped", "over"}

VARIABLES
  phase,
  own,        \* own[p][f + 1]: p's input for frame f
  heard,      \* how many of the other's inputs p has received
  gone,       \* the library has given the other peer up
  machine,    \* RollbackSession::system
  cells,      \* the library's cells, by frame % (Window + 1)
  requests,   \* those the loop has not served yet
  advanced,   \* the loop's flag, FALSE outside
  emu         \* the machine on the screen, EmuCore::system

netVars  == <<own, heard, gone>>
loopVars == <<machine, cells, requests, advanced>>
vars == <<phase, netVars, loopVars, emu>>

------------------------------------------------------------------------------
(* The rollback library: what it asks for. *)

Save(f)    == [kind |-> "save", frame |-> f]
Load(f)    == [kind |-> "load", frame |-> f]
Advance(x) == [kind |-> "advance", inputs |-> x]

Requests == [kind : {"save", "load"}, frame : Nat]
              \union [kind : {"advance"}, inputs : Inputs \X Inputs]

Cell(f) == f % (Window + 1)

NoCell == [frame |-> -1, machine |-> <<>>]

\* A peer's first input is for frame Delay; those before it are idle.  A call
\* that could not advance has registered its frame's input already.
Register(s, c, input) ==
  IF s = <<>> THEN [f \in 1 .. Delay |-> Idle] \o <<input>>
  ELSE IF Len(s) = c + Delay THEN Append(s, input) ELSE s

\* The other's input of frame f, as far as p knows: heard, or the last one
\* heard again (PredictRepeatLast), or idle once the peer is given up.
RemoteInput(p, h, lost, f) ==
  IF f < h THEN own[Other(p)][f + 1]
  ELSE IF lost \/ h = 0 THEN Idle
  ELSE own[Other(p)][h]

FramesAhead(c, h) == IF h = 0 THEN c ELSE c - (h - 1)

\* The first n frames of the game, as far as p knows.
Known(p, inputs, h, lost, n) ==
  [f \in 1 .. n |-> <<inputs[f], RemoteInput(p, h, lost, f - 1)>>]

\* Play the game again from frame `first' on, saving each frame but the first,
\* whose cell has just been loaded.
Replay(first, game) ==
  [i \in 1 .. 2 * (Len(game) - first) |->
     IF i = 1 THEN Load(first)
     ELSE IF i % 2 = 0 THEN Advance(game[first + i \div 2])
     ELSE Save(first + i \div 2)]

\* Roll back to the first frame played with a wrong input, then save the
\* current frame, then play it unless the window is used up.
RequestsFor(p, inputs, h, lost) ==
  LET c     == Len(machine[p])
      game  == Known(p, inputs, h, lost, c + 1)
      wrong == {f \in 0 .. c - 1 : machine[p][f + 1] # game[f + 1]}
      First == CHOOSE f \in wrong : \A g \in wrong : f <= g
  IN  (IF wrong = {} THEN <<>> ELSE Replay(First, SubSeq(game, 1, c)))
        \o <<Save(c)>>
        \o (IF lost \/ FramesAhead(c, h) < Window THEN <<Advance(game[c + 1])>> ELSE <<>>)

------------------------------------------------------------------------------
(* The session. *)

Init ==
  /\ phase = [p \in Peers |-> "syncing"]
  /\ own = [p \in Peers |-> <<>>]
  /\ heard = [p \in Peers |-> 0]
  /\ gone = [p \in Peers |-> FALSE]
  /\ machine = [p \in Peers |-> <<>>]
  /\ cells = [p \in Peers |-> [i \in 0 .. Window |-> NoCell]]
  /\ requests = [p \in Peers |-> <<>>]
  /\ advanced = [p \in Peers |-> FALSE]
  /\ emu = [p \in Peers |-> <<>>]

\* session.poll ends the handshake.
Synchronize(p) ==
  /\ phase[p] = "syncing"
  /\ phase[Other(p)] \notin Ended
  /\ phase' = [phase EXCEPT ![p] = "running"]
  /\ UNCHANGED <<netVars, loopVars, emu>>

\* A redraw before that: advance_frame is Err(NotSynchronized), and the
\* redraw drops the session.
RedrawSyncing(p) ==
  /\ phase[p] = "syncing"
  /\ phase' = [phase EXCEPT ![p] = "dropped"]
  /\ UNCHANGED <<netVars, loopVars, emu>>

\* What a poll may bring: more of the other's inputs, or the news that
\* nothing has come for too long.
Poll(p, h, lost) ==
  \/ gone[p] /\ h = heard[p] /\ lost
  \/ ~gone[p] /\ h \in heard[p] .. Len(own[Other(p)]) /\ ~lost
  \/ ~gone[p] /\ h = heard[p] /\ lost

\* A redraw: poll, read the joystick, and into advance_frame's loop.
AdvanceFrame(p) ==
  /\ phase[p] = "running"
  /\ Len(machine[p]) < MaxFrames
  /\ \E h \in 0 .. Len(own[Other(p)]), lost \in BOOLEAN, input \in Inputs :
       LET inputs == Register(own[p], Len(machine[p]), input) IN
       /\ Poll(p, h, lost)
       /\ own' = [own EXCEPT ![p] = inputs]
       /\ heard' = [heard EXCEPT ![p] = h]
       /\ gone' = [gone EXCEPT ![p] = lost]
       /\ requests' = [requests EXCEPT ![p] = RequestsFor(p, inputs, h, lost)]
  /\ phase' = [phase EXCEPT ![p] = "handling"]
  /\ UNCHANGED <<machine, cells, advanced, emu>>

\* The next request, of the given kind, is served.
Serve(p, kind) ==
  /\ phase[p] = "handling"
  /\ requests[p] # <<>>
  /\ Head(requests[p]).kind = kind
  /\ requests' = [requests EXCEPT ![p] = Tail(@)]
  /\ UNCHANGED <<phase, netVars, emu>>

\* Bug: a cell that holds the frame already is not saved again.
BugSaveGameState(p) ==
  /\ Serve(p, "save")
  /\ LET f == Head(requests[p]).frame IN
     cells' = IF cells[p][Cell(f)].frame = f THEN cells
              ELSE [cells EXCEPT ![p][Cell(f)] = [frame |-> f, machine |-> machine[p]]]
  /\ UNCHANGED <<machine, advanced>>

\* Bug: the state is saved with what is on the screen, not with the session's.
BugSaveScreen(p) ==
  /\ Serve(p, "save")
  /\ LET f == Head(requests[p]).frame IN
     cells' = [cells EXCEPT ![p][Cell(f)] = [frame |-> f, machine |-> emu[p]]]
  /\ UNCHANGED <<machine, advanced>>

SaveGameState(p) ==
  /\ Serve(p, "save")
  /\ LET f == Head(requests[p]).frame IN
     cells' = [cells EXCEPT ![p][Cell(f)] = [frame |-> f, machine |-> machine[p]]]
  /\ UNCHANGED <<machine, advanced>>

LoadGameState(p) ==
  /\ Serve(p, "load")
  /\ machine' = [machine EXCEPT ![p] = cells[p][Cell(Head(requests[p]).frame)].machine]
  /\ UNCHANGED <<cells, advanced>>

\* frame_advance's combine: what port 0's player and port 1's player hold, side
\* by side in the ports, the switches and the paddles at rest.
Combine(port0, port1) == <<port0, port1>>

\* frame_advance's advance_one_frame: nothing but the input decides what it does.
AdvanceOneFrame(system, input) == Append(system, input)

\* AdvanceFrame's arm: the local input is port 0's, the remote one port 1's.
PlayFrame(p) ==
  /\ Serve(p, "advance")
  /\ LET x == Head(requests[p]).inputs IN
     machine' = [machine EXCEPT ![p] = AdvanceOneFrame(@, Combine(x[1], x[2]))]
  /\ advanced' = [advanced EXCEPT ![p] = TRUE]
  /\ UNCHANGED cells

\* Bug: a redraw without a frame ends the game.
BugReturn(p) ==
  /\ phase[p] = "handling"
  /\ requests[p] = <<>>
  /\ phase' = [phase EXCEPT ![p] = IF advanced[p] THEN "running" ELSE "dropped"]
  /\ emu' = IF advanced[p] THEN [emu EXCEPT ![p] = machine[p]] ELSE emu
  /\ advanced' = [advanced EXCEPT ![p] = FALSE]
  /\ UNCHANGED <<netVars, machine, cells, requests>>

\* advance_frame returns Ok(advanced): the redraw takes the machine over.
Return(p) ==
  /\ phase[p] = "handling"
  /\ requests[p] = <<>>
  /\ phase' = [phase EXCEPT ![p] = "running"]
  /\ emu' = IF advanced[p] THEN [emu EXCEPT ![p] = machine[p]] ELSE emu
  /\ advanced' = [advanced EXCEPT ![p] = FALSE]
  /\ UNCHANGED <<netVars, machine, cells, requests>>

\* The menu's NetplayDisconnect, between two redraws.
Leave(p) ==
  /\ phase[p] \in {"syncing", "running"}
  /\ phase' = [phase EXCEPT ![p] = "over"]
  /\ UNCHANGED <<netVars, loopVars, emu>>

Handle(p) == \/ SaveGameState(p) \/ LoadGameState(p) \/ PlayFrame(p) \/ Return(p)

Step(p) == \/ Synchronize(p) \/ RedrawSyncing(p) \/ AdvanceFrame(p)
           \/ Handle(p) \/ Leave(p)

Next == \E p \in Peers : Step(p)

\* A redraw that brings p up to date: everything the other has sent, or the
\* end of a peer that no longer answers.
CatchUp(p) ==
  /\ AdvanceFrame(p)
  /\ IF phase[Other(p)] \in Ended
     THEN gone'[p]
     ELSE gone'[p] \/ heard'[p] = Len(own[Other(p)])

\* The window redraws for ever and its loop runs to the end.  A packet is sent
\* again until it is acknowledged, so redraws go on bringing a peer up to date.
Fairness ==
  \A p \in Peers : /\ WF_vars(Synchronize(p) \/ RedrawSyncing(p))
                   /\ WF_vars(Handle(p))
                   /\ SF_vars(CatchUp(p))

Spec == Init /\ [][Next]_vars /\ Fairness

------------------------------------------------------------------------------
\* A game: the frames played so far.
Games == Seq(Inputs \X Inputs)

TypeOK ==
  /\ phase \in [Peers -> Phases]
  /\ own \in [Peers -> Seq(Inputs)]
  /\ heard \in [Peers -> Nat]
  /\ gone \in [Peers -> BOOLEAN]
  /\ machine \in [Peers -> Games]
  /\ cells \in [Peers -> [0 .. Window -> [frame : Nat \union {-1}, machine : Games]]]
  /\ requests \in [Peers -> Seq(Requests)]
  /\ advanced \in [Peers -> BOOLEAN]
  /\ emu \in [Peers -> Games]
  /\ \A p \in Peers : /\ heard[p] <= Len(own[Other(p)])
                      /\ Len(machine[p]) <= MaxFrames
                      /\ Len(machine[p]) <= Len(own[p])

\* Between two calls the machine is the one that played, from the start, the
\* inputs known by now, however many frames were played wrongly on the way
\* (session.rs 255-314, 316-318).
AsIfKnown ==
  \A p \in Peers : phase[p] = "running" =>
    machine[p] = Known(p, own[p], heard[p], gone[p], Len(machine[p]))

\* Any frame that may still turn out wrong can be rolled back to: its cell has
\* not been overwritten and holds the machine as it is remembered now, so
\* cell.load's expect never fails (session.rs 270-277, 296-303).
RollbackReady ==
  \A p \in Peers : phase[p] = "running" =>
    \A f \in heard[p] .. Len(machine[p]) - 1 : ~gone[p] =>
      cells[p][Cell(f)] = [frame |-> f, machine |-> SubSeq(machine[p], 1, f)]

\* A peer that has started plays on: stalls end when the other's inputs
\* arrive, or when the other is given up (session.rs 261-263, 284).
GameGoesOn ==
  \A p \in Peers : (phase[p] = "running") ~> (Len(emu[p]) = MaxFrames \/ phase[p] = "over")

\* session.rs 53-55 and 255-257: the host is player 0, on port 0, and the local
\* input is "remapped internally if this instance is the joining peer".  So
\* the two machines play the same game, as far as both have heard.
PeersAgree ==
  (\A p \in Peers : phase[p] = "running" /\ ~gone[p]) =>
    \A f \in 1 .. Len(machine[1]) :
      f <= Len(machine[2]) /\ f <= heard[1] /\ f <= heard[2] => machine[1][f] = machine[2][f]

\* netplay_session.rs 166-168 and 177-180: poll is called "every tick while
\* waiting for the initial sync", and a session "still waiting on the remote
\* peer this tick" is "not an error".  No redraw drops a session, as long as no
\* frame has been played.
SyncSurvives == \A p \in Peers : machine[p] = <<>> => phase[p] # "dropped"
==============================================================================
