----------------------------- MODULE MCLauncher -----------------------------
(* Instances of Launcher for TLC. *)
EXTENDS Launcher, TLC

CONSTANTS a, b, l1, l2, k1, k2

Symmetry == Permutations({l1, l2}) \cup Permutations({k1, k2})
=============================================================================
