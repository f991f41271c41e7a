----------------------------- MODULE SampleFifo -----------------------------
(***************************************************************************)
(* What the audio ring (crates/rusty2600-frontend/src/audio_ring.rs)       *)
(* promises its two users: a bounded queue.  Samples reach the audio       *)
(* callback in the order they were pushed, each once; a push may lose the  *)
(* end of its block when there is no room, and a callback may get fewer    *)
(* samples than it asks for.                                               *)
(***************************************************************************)
EXTENDS Sequences, Naturals, SequencesExt

CONSTANTS Sample,    \* the samples
          Capacity   \* how many the queue holds

VARIABLES queue,  \* pushed and not yet played
          out     \* what the last callback was handed

Init == queue = <<>> /\ out = <<>>

Push ==
  /\ \E block \in BoundedSeq(Sample, Capacity - Len(queue)) : queue' = queue \o block
  /\ UNCHANGED out

Pop ==
  \E n \in 0 .. Len(queue) :
     /\ out' = SubSeq(queue, 1, n)
     /\ queue' = SubSeq(queue, n + 1, Len(queue))

Spec == Init /\ [][Push \/ Pop]_<<queue, out>>
==============================================================================
