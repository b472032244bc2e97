------------------------------ MODULE MCLeases ------------------------------
(* Instances of Leases for TLC. *)
EXTENDS Leases, TLC

CONSTANTS p1, p2, s1, s2, w1, w2, w3, sweeper

AllCalls == CallNames
(* What launchers alone do, with no admin and no failure. *)
LauncherCalls == {"start", "heartbeat", "end"}
RevokeCalls == {"start", "revoke"}

(* A bound no delay of this instance reaches: any thread may be held up    *)
(* for as long as the clock runs.                                          *)
Unbounded == LastCall + Grace + 2

Symmetric == Permutations(Worker) \cup Permutations(Sid) \cup Permutations(Player)
=============================================================================
