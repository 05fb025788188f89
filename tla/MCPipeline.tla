----------------------------- MODULE MCPipeline ------------------------------
(***************************************************************************)
(* A small instance of RequestPipeline for TLC.                            *)
(***************************************************************************)
EXTENDS RequestPipeline, TLC

CONSTANTS r1, r2

RequestSymmetry == Permutations(Requests)
=============================================================================
