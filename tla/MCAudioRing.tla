----------------------------- MODULE MCAudioRing -----------------------------
(***************************************************************************)
(* AudioRing with four slots whose indices wrap after eight.               *)
(***************************************************************************)
EXTENDS AudioRing

MCBlockSizes == {1, 2}
MCCallbackSizes == {1, 3}
MCThresholds == {0, 4}
==============================================================================
