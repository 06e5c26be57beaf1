--------------------------- MODULE MCNorthCommands --------------------------
(* Instances of NorthCommands for TLC.                                     *)
EXTENDS NorthCommands, TLC

CONSTANTS q, s, c1, c2, c3, t1, v1, v2

AppOfThree == c1 :> q @@ c2 :> q @@ c3 :> s
OpOfThree  == c1 :> "read" @@ c2 :> "invoke" @@ c3 :> "write"
TodoOfThree == [c \in Commands |-> <<t1>>]

(* Bound to both, and bound to one with the tag read-only.                 *)
SomeRows == {[north |-> {q, s}, acc |-> [t \in Tags |-> "RW"]],
             [north |-> {s}, acc |-> [t \in Tags |-> "RO"]]}
=============================================================================
