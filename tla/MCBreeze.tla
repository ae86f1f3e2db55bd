------------------------------ MODULE MCBreeze ------------------------------
(***************************************************************************)
(* The instance of Breeze that TLC checks.                                 *)
(***************************************************************************)
EXTENDS Breeze
=============================================================================
