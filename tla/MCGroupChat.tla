---------------------------- MODULE MCGroupChat ----------------------------
(* Instances of GroupChat for TLC.                                         *)
EXTENDS GroupChat, TLC

Symmetry == Permutations(Members) \cup Permutations(Groups)
=============================================================================
