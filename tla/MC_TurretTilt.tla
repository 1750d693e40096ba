-------------------------- MODULE MC_TurretTilt --------------------------
(* Model-checking instance of TurretTilt.                                 *)
EXTENDS TurretTilt, TLC

(* Drag offsets: centre, and the top and bottom edges of the 480-line video. *)
MCYs == {0, 240, -240}
=============================================================================
