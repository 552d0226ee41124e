---------------------------- MODULE MCDfsObject ----------------------------
(* DfsObject for TLC: model values for clients, with symmetry.    *)
EXTENDS DfsObject, TLC

Symmetry == Permutations(Clients)
=============================================================================
