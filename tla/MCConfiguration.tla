--------------------------- MODULE MCConfiguration --------------------------
(* Instances of Configuration for TLC.                                     *)
EXTENDS Configuration, TLC

CONSTANTS c1, g1, t1, a1, r1, r2, r3

(* What a client may ask for.                                              *)
Rows(types) == [type : types, on : BOOLEAN]
MCSent == [id \in Ids |->
    CASE id \in Conns  -> Rows(DriverTypes)
      [] id \in Apps   -> Rows(NorthTypes)
      [] id \in Groups -> [parent : Conns, on : BOOLEAN, north : SUBSET Apps,
                           legacy : {{}}]
      [] id \in Tags   -> [parent : Groups, val : {2}]]

(* The database at the beginning: everything is enabled and bound.         *)
MCFirstRow == [id \in Ids |->
    CASE id \in Conns  -> [type |-> "plugin", on |-> TRUE]
      [] id \in Apps   -> [type |-> "north", on |-> TRUE]
      [] id \in Groups -> [parent |-> c1, on |-> TRUE, north |-> {a1}, legacy |-> {a1}]
      [] id \in Tags   -> [parent |-> g1, val |-> 1]]

Symmetry == Permutations(Requests)
=============================================================================
