------------------------------- MODULE MCHost -------------------------------
(* Constants for checking Host with TLC.                                   *)
EXTENDS Host, TLC

Symmetry == Permutations(Calls)
=============================================================================
