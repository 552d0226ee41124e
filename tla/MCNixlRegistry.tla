-------------------------- MODULE MCNixlRegistry --------------------------
(* NixlRegistry for TLC: constants are given in the configuration.          *)
EXTENDS NixlRegistry
=============================================================================
