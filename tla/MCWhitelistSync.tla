--------------------------- MODULE MCWhitelistSync ---------------------------
(* Instances of WhitelistSync for TLC. *)
EXTENDS WhitelistSync, TLC

CONSTANTS p1, p2, t1, t2, t3
=============================================================================
