----------------------------- MODULE MC_Blink -----------------------------
(* Model-checking instance of Blink.                                      *)
EXTENDS Blink, TLC
=============================================================================
