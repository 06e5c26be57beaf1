--------------------------- MODULE MCNorthDelivery ---------------------------
(* Instances of NorthDelivery for TLC.                                     *)
EXTENDS NorthDelivery

CONSTANTS m1, m2, m3, s1, s2
=============================================================================
