------------------------------ MODULE MCClient -------------------------------
(***************************************************************************)
(* A small instance of ClientFlow for TLC.                                 *)
(***************************************************************************)
EXTENDS ClientFlow

CONSTANTS d1, d2
=============================================================================
