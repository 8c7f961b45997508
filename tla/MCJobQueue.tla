---------------------------- MODULE MCJobQueue ----------------------------
(* The instance of JobQueue for TLC: two replicas of the converter, two    *)
(* requests that enqueue under one dedupe key, one of which may cancel.    *)
EXTENDS JobQueue, TLC

CONSTANTS p1, p2, c1, c2, k1

ReplicaId == p1 :> "converter" @@ p2 :> "converter"

ConverterHandles == "converter" :> {"convert"}

KeyedPosts == {[type |-> "convert", key |-> k1]}
=============================================================================
