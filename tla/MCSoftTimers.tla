---------------------------- MODULE MCSoftTimers ----------------------------
(* An instance of SoftTimers for TLC. *)
EXTENDS SoftTimers, TLC

Symmetry == Permutations(Nodes)
=============================================================================
