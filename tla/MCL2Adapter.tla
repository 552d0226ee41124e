---------------------------- MODULE MCL2Adapter ----------------------------
EXTENDS L2Adapter, TLC

Symmetry == Permutations(Tasks)
=============================================================================
