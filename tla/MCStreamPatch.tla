--------------------------- MODULE MCStreamPatch ---------------------------
(* StreamPatch for TLC: a request of two sub-batches, the second one short, *)
(* and a second request for a key of the first.                             *)
EXTENDS StreamPatch, TLC

CONSTANTS a, b, c, r1, r2

MCWants == (r1 :> <<a, b, c>>) @@ (r2 :> <<a>>)
=============================================================================
