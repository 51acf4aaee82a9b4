----------------------------- MODULE MCSoftTimer -----------------------------
(* SoftTimer with four callbacks and intervals shorter and longer than    *)
(* the time between two passes.                                            *)
EXTENDS SoftTimer, TLC

CONSTANTS f1, f2, f3, f4

Callbacks == Permutations(Fn)
=============================================================================
