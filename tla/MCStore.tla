------------------------------- MODULE MCStore -------------------------------
(***************************************************************************)
(* A small instance of ObjectStore for TLC.                                *)
(***************************************************************************)
EXTENDS ObjectStore, TLC

CONSTANTS c1, k1, k2

MCOverrides == -1 .. 1
MCTTLs == -1 .. 1
(* Two keys, a key that comes twice, and a bad key after a good one.   *)
MCBatches == {<<k1, k2>>, <<k1, k1>>, <<k1, BadKey>>}
=============================================================================
