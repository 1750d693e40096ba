------------------------- MODULE MC_CommandDispatch -------------------------
(* Model-checking instance of CommandDispatch.                            *)
EXTENDS CommandDispatch, TLC

(* Drag offsets at the edges of a step, at the clamp and beyond, on both   *)
(* sides of zero (the cfg syntax has no negative literals).                *)
MCXs == {-353, -320, -319, -33, -32, -31, 0, 31, 32, 33, 319, 321}
=============================================================================
