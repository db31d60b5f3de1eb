---------------------------- MODULE MCKmipStore ----------------------------
(* Small instances of KmipStore. *)
EXTENDS KmipStore

CONSTANTS k1, k2
============================================================================
