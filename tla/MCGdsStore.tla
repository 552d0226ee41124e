----------------------------- MODULE MCGdsStore -----------------------------
(* GdsStore for TLC: two threads, of one process or of two.                 *)
EXTENDS GdsStore, TLC

Symmetry == Permutations(Files) \cup Permutations(Procs) \cup Permutations(Threads)
=============================================================================
