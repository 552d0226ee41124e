----------------------------- MODULE MCL2Pools -----------------------------
(* L2Pools, with its dispatcher, for TLC.                                   *)
EXTENDS L2Pools
=============================================================================
