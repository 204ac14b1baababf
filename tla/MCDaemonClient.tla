--------------------------- MODULE MCDaemonClient ---------------------------
(* Constants for checking DaemonClient with TLC.                           *)
EXTENDS DaemonClient, TLC

CONSTANTS c1, c2, k1

Symmetry == Permutations(Callers)
=============================================================================
