----------------------------- MODULE MCRollback -----------------------------
(***************************************************************************)
(* Two peers, a window of two frames over three cells.  Safety is checked  *)
(* with two inputs and no delay, so that predictions go wrong; that the    *)
(* game goes on depends on what has arrived and not on what it says, and   *)
(* is checked with one input.                                              *)
(***************************************************************************)
EXTENDS Rollback

MCInputs == {"idle", "fire"}
MCIdle == "idle"
MCOneInput == {MCIdle}
==============================================================================
