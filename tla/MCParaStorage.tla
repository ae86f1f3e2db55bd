--------------------------- MODULE MCParaStorage ---------------------------
(***************************************************************************)
(* An instance of ParaStorage for TLC.                                     *)
(***************************************************************************)
EXTENDS ParaStorage, TLC

Symmetry == Permutations(Threads)
=============================================================================
