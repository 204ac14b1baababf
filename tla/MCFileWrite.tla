---------------------------- MODULE MCFileWrite ----------------------------
EXTENDS FileWrite, TLC

Symmetry == Permutations(Writers)
=============================================================================
