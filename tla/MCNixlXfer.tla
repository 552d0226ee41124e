----------------------------- MODULE MCNixlXfer -----------------------------
(* NixlXfer for TLC: constants are given in the configuration.              *)
EXTENDS NixlXfer
=============================================================================
