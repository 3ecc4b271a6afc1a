--------------------------- MODULE MCFacilitator ---------------------------
(* Instances of Facilitator for TLC.                                       *)
EXTENDS Facilitator
=============================================================================
