--------------------------- MODULE MCRawPartition ---------------------------
(* Instances of RawPartition for TLC.                                      *)
EXTENDS RawPartition

CONSTANTS kept, x, y, z

(* One recording stays, two go to the first destination, one to the second.*)
Parts == [r \in Recording |->
             CASE r = kept -> Source [] r = x -> 1 [] r = y -> 1 [] r = z -> 2]
=============================================================================
