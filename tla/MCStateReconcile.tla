-------------------------- MODULE MCStateReconcile --------------------------
(* Instances of StateReconcile for TLC.                                    *)
EXTENDS StateReconcile

CONSTANTS a, b, d, x, y, z, first, second

(* The first plan leaves x with a and moves y and z to b; the second moves *)
(* z on from b to d.                                                       *)
Sources == [p \in Plan |-> IF p = first THEN a ELSE b]
Shares ==
    [p \in Plan |->
        [t \in Task |->
            CASE p = first /\ t = a -> {x}
              [] p = first /\ t = b -> {y, z}
              [] p = second /\ t = b -> {y}
              [] p = second /\ t = d -> {z}
              [] OTHER -> {}]]
Uploads == [t \in Task |-> IF t = a THEN {x, y, z} ELSE {}]
=============================================================================
