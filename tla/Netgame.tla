------------------------------- MODULE Netgame -------------------------------
(***************************************************************************)
(* A netplay game in the front end (crates/rusty2600-frontend/src: app.rs, *)
(* netplay_session.rs): the session of Session.tla, with a RollbackSession *)
(* that owns a machine of its own and a redraw that copies it over the     *)
(* core's.  The emulation thread and the menu go on around it.             *)
(*                                                                         *)
(* Of the game only its outcome counts: a call of advance_frame plays the  *)
(* next frame, replays the last ones, stalls or fails.  Rollback.tla has   *)
(* the game itself.                                                        *)
(***************************************************************************)
EXTENDS Session

VARIABLES
  game,     \* Active::netplay: its session's machine, or None
  meddled   \* history: a ROM was opened or closed, or the pause toggled, in a game

netVars == <<vars, game, meddled>>

Playing == game # None

NetInit ==
  /\ Init
  /\ game = None
  /\ meddled = FALSE

------------------------------------------------------------------------------
\* Bug: the emulation thread is not held back.
BugConnect ==
  /\ RomOpen
  /\ ~Playing
  /\ game' = machine
  /\ UNCHANGED <<vars, meddled>>

\* NetplayConnect and NetplayConnectStun: a session on a copy of the machine.
\* The dialog opens only while there is none.
Connect ==
  /\ RomOpen
  /\ ~Playing
  /\ game' = machine
  /\ paused' = TRUE
  /\ UNCHANGED <<tag, machine, ring, count, slot, screen, saves, meddled>>

\* The session is dropped, and the emulation thread released.
EndGame ==
  /\ game' = None
  /\ paused' = FALSE
  /\ UNCHANGED <<tag, machine, ring, count, slot, screen, saves, meddled>>

\* MenuAction::NetplayDisconnect.
Disconnect == Playing /\ EndGame

\* The redraw of a game, when advance_frame is Ok(true): the machine, a frame
\* further or the last ones replayed, takes the place of the core's, and
\* EmuCore::extract_frame counts a frame.  The window shows the core's own
\* picture of it, and the present slot waits.
GameFrame ==
  /\ Playing
  /\ \E t \in {game.time, FrameEnd(game.time)} :
        /\ t <= FrameEnd(MaxTime)
        /\ game' = [game EXCEPT !.time = t]
  /\ machine' = game'
  /\ count' = Count(count, 1)
  /\ UNCHANGED <<tag, ring, paused, slot, screen, saves, meddled>>

\* When it is an error.
GameFails == Playing /\ EndGame

\* When it is Ok(false), a stall.
GameStalls == Playing /\ UNCHANGED netVars

------------------------------------------------------------------------------
(* The session around it. *)

\* The menu entries that leave the ROM and the pause alone, and the thread.
Around ==
  /\ Tick \/ SaveStateSlot \/ LoadStateSlot \/ Debug \/ JumpToFrame
  /\ UNCHANGED <<game, meddled>>

\* Those that do not.
Meddle ==
  /\ OpenRom \/ CloseRom \/ TogglePause
  /\ meddled' = (meddled \/ Playing)
  /\ UNCHANGED game

\* A redraw without a game.
RenderAlone ==
  /\ ~Playing
  /\ Render
  /\ UNCHANGED <<game, meddled>>

NetNext ==
  \/ Connect \/ Disconnect
  \/ GameFrame \/ GameFails \/ GameStalls
  \/ Around \/ Meddle \/ RenderAlone

NetSpec == NetInit /\ [][NetNext]_netVars

\* The threads go on as in Session; a redraw of a game leaves the slot alone.
NetFairness ==
  /\ WF_netVars(Tick /\ UNCHANGED <<game, meddled>>)
  /\ WF_netVars(RenderAlone)

\* A player who leaves the ROM and the pause alone in a game: Session's
\* properties are checked with games under way and without.
CarefulSpec == NetInit /\ [][NetNext /\ ~meddled']_netVars /\ NetFairness

------------------------------------------------------------------------------
\* app.rs 1538-1542: "the background emu-thread ... must never concurrently step
\* emu.system while the synchronous netplay branch in render() owns it", which
\* netplay_session.rs 24-29 has hold "while a NetplaySession is active".
SessionOwnsMachine == Playing => paused
==============================================================================
