-------------------------- MODULE MCExternalPlugin --------------------------
(* Instances of ExternalPlugin for TLC.                                    *)
EXTENDS ExternalPlugin, TLC

CONSTANTS p1, p2, p3, r1, r2
=============================================================================
