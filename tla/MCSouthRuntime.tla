--------------------------- MODULE MCSouthRuntime ---------------------------
(* Instances of SouthRuntime for TLC.                                      *)
EXTENDS SouthRuntime, TLC

CONSTANTS c1, c2, g1, g2, p1, rt1, rt2, rt3, rt4

(* Every group has tags, is enabled and stays on connection c1.            *)
FixedRows == {[enabled |-> TRUE, conn |-> c1, tagged |-> TRUE]}

(* A group is enabled and disabled, and moves between a connection where   *)
(* it has tags and one where it has none.                                  *)
MovingRows == {[enabled |-> b, conn |-> c, tagged |-> c = c1] :
                  b \in BOOLEAN, c \in {c1, c2}}

RtSymmetry == Permutations(Rts)
=============================================================================
