----------------------------- MODULE MCModbusTcp ----------------------------
(* Instances of ModbusTcp for TLC.                                         *)
EXTENDS ModbusTcp, TLC

Row(area, number, type, order) ==
    [address |-> [area |-> area, number |-> number], type |-> type,
     length |-> 1, bit |-> 0, order |-> order, access |-> "RW"]

(* A pair and a register that overlap, touch, lie within the gap or       *)
(* without; and a coil, or an address that does not parse.                 *)
MergedLayouts ==
    {<<[Row("holding", n, "dword", <<3, 4, 1, 2>>) EXCEPT !.access = "RO"],
       Row("holding", m, "word", <<1, 2>>), r>> :
        n \in {1, 2}, m \in {1, 2, 4, 5},
        r \in {[Row("coil", 1, "bool", <<1, 2>>) EXCEPT !.access = "RO"],
               Row("holding", 0, "word", <<1, 2>>)}}

(* What the theorems of ModbusTcp_proofs suppose.                          *)
ASSUME Supposed == NoBitNumbers /\ TidsSuffice /\ RequestsAllowed /\ InDevice

(* One register in the order AB.                                          *)
WordAB == {<<Row("holding", 1, "word", <<1, 2>>)>>}
=============================================================================
