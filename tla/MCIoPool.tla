------------------------------ MODULE MCIoPool ------------------------------
(* IoPool for TLC: constants are given in the configurations.              *)
EXTENDS IoPool
=============================================================================
