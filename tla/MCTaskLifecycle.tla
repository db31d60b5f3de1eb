-------------------------- MODULE MCTaskLifecycle --------------------------
(* A small instance of TaskLifecycle: four identities of different types,  *)
(* of which any two may be enqueued, in either order.  The proofs are      *)
(* extended so that their invariant is checked as well.                    *)
EXTENDS TaskLifecycleProofs, TLC

CONSTANTS j1, j2, j3, j4, s1, s2

MixedKind == j1 :> "upload" @@ j2 :> "check" @@ j3 :> "verify" @@ j4 :> "script"
============================================================================
