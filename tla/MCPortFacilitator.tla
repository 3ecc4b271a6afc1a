------------------------- MODULE MCPortFacilitator -------------------------
(* Instances of PortFacilitator for TLC.                                   *)
EXTENDS PortFacilitator
=============================================================================
