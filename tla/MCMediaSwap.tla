---------------------------- MODULE MCMediaSwap ----------------------------
(* Small instances of MediaSwap. *)
EXTENDS MediaSwap, TLC

CONSTANTS t1, t2
============================================================================
