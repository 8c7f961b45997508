------------------------- MODULE MCInPlaceRollback -------------------------
(* Instances of InPlaceRollback for TLC: three jobs on one dataset of two  *)
(* files.                                                                  *)
EXTENDS InPlaceRollback, TLC

CONSTANTS f1, f2

TwoFiles == {f1, f2}

MCOp == 1 :> "delete" @@ 2 :> "stamp" @@ 3 :> "restamp"
=============================================================================
