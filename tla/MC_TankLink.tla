---------------------------- MODULE MC_TankLink ----------------------------
(* Model-checking instance of TankLink.                                   *)
EXTENDS TankLink, TLC
=============================================================================
