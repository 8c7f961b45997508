--------------------------- MODULE MCBronzeSilver ---------------------------
(* Instances of BronzeSilver for TLC.                                      *)
EXTENDS BronzeSilver

CONSTANTS s1, s2
=============================================================================
