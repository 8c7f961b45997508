--------------------------- MODULE MCDetachedView ---------------------------
(* Instances of DetachedView for TLC.                                      *)
EXTENDS DetachedView
=============================================================================
