----------------------------- MODULE MCLifecycle -----------------------------
(* Instances of Lifecycle for TLC.                                          *)
EXTENDS Lifecycle, TLC

CONSTANTS r1, r2

Symmetry == Permutations(Request)
=============================================================================
