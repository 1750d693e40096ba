--------------------------- MODULE MC_FrameSlot ---------------------------
(* Model-checking instance of FrameSlot: two or three stream threads and   *)
(* enough frame identities that a fresh one always exists.                 *)
EXTENDS FrameSlot, TLC

(* Frame identities and stream threads are only compared for equality.     *)
(* Sound for the safety runs only; the liveness run does not use it.       *)
Symmetry == Permutations(FrameIds) \cup Permutations(Readers)
=============================================================================
