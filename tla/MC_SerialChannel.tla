------------------------- MODULE MC_SerialChannel -------------------------
(* Model-checking instance of SerialChannel: commands, readings and the    *)
(* sentinel are model values given in the .cfg files.                     *)
EXTENDS SerialChannel, TLC
=============================================================================
