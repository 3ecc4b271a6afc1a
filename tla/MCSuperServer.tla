--------------------------- MODULE MCSuperServer ---------------------------
(* Instances of SuperServer for TLC.                                       *)
EXTENDS SuperServer, TLC

Symmetry == Permutations(Clients1) \cup Permutations(Clients2) \cup Permutations(Threads)
=============================================================================
