----------------------------- MODULE MCEnforcer -----------------------------
(* Instances of Enforcer for TLC. *)
EXTENDS Enforcer, TLC

CONSTANTS p1
=============================================================================
