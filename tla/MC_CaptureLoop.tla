-------------------------- MODULE MC_CaptureLoop --------------------------
(* Model-checking instance of CaptureLoop with the code's own threshold.   *)
EXTENDS CaptureLoop, TLC

(* Frame identities are only compared for equality (safety runs only).     *)
FrameSymmetry == Permutations(FrameIds)
=============================================================================
