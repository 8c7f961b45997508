------------------------- MODULE MCConverterControl -------------------------
(* Instances of ConverterControl for TLC.                                  *)
EXTENDS ConverterControl

CONSTANTS s1, s2, r1, r2
=============================================================================
