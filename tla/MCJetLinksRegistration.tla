----------------------- MODULE MCJetLinksRegistration -----------------------
(* Instances of JetLinksRegistration for TLC.                              *)
EXTENDS JetLinksRegistration

CONSTANTS g1, g2, d1, c1, c2

(* One group reports for one device.                                       *)
OneGroup == {<<g1, d1>>}

(* Two groups report for one device, which neither the handlers nor the    *)
(* tables of the store keep them from.                                     *)
SharedDevice == {<<g1, d1>>, <<g2, d1>>}
=============================================================================
