----------------------------- MODULE MCGdsBatch -----------------------------
(* GdsBatch for TLC: constants are given in the configuration.             *)
EXTENDS GdsBatch
=============================================================================
