------------------------------ MODULE MCClient ------------------------------
(* Client for TLC: constants are given in the configuration.               *)
EXTENDS Client
=============================================================================
