--------------------------- MODULE MC_MouseServo ---------------------------
(* Model-checking instance of MouseServo.                                 *)
EXTENDS MouseServo, TLC

(* Drag offsets: centre, a point inside the range on the other side, and   *)
(* one past the clamp (336 * 90 / 320 = 94.5 degrees, 256 * 45 / 240 =     *)
(* 48 degrees) for the axis a run is about; centre and one offset for the  *)
(* other axis, which moves in the same steps.                              *)
MCXs == {0, -160, 336}
MCYs == {0, -120, 256}
MCXsSmall == {0, 160}
MCYsSmall == {0, 256}
=============================================================================
