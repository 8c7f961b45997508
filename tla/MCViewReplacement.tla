------------------------- MODULE MCViewReplacement -------------------------
(* Instances of ViewReplacement for TLC.                                   *)
EXTENDS ViewReplacement

CONSTANTS x, y
=============================================================================
