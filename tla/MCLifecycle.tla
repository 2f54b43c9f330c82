---------------------------- MODULE MCLifecycle ----------------------------
(* Lifecycle for TLC: runs are interchangeable, and so are destroys.       *)
EXTENDS Lifecycle, TLC

Symmetry == Permutations(Runs) \cup Permutations(Destroys) \cup Permutations(Switches)
=============================================================================
