------------------------------ MODULE MCSession ------------------------------
(***************************************************************************)
(* Session with two ROMs and a ring that three frames overflow, and games  *)
(* in it.                                                                  *)
(***************************************************************************)
EXTENDS Netgame
==============================================================================
