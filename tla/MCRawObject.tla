---------------------------- MODULE MCRawObject ----------------------------
(* RawObject for TLC: model values for layers and clients, with symmetry.  *)
EXTENDS RawObject, TLC

Symmetry == Permutations(Layers) \cup Permutations(Clients)
=============================================================================
