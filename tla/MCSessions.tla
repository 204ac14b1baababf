----------------------------- MODULE MCSessions -----------------------------
(* Constants for checking Sessions with TLC.                               *)
EXTENDS Sessions, TLC

CONSTANTS r1, r2, r3

Symmetry == Permutations(Requests)
=============================================================================
