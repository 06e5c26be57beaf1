--------------------------- MODULE MCNorthRuntime ---------------------------
(* Instances of NorthRuntime for TLC.                                      *)
EXTENDS NorthRuntime

CONSTANTS g1, g2, a1, i1, i2, d1, d2
=============================================================================
