------------------------------ MODULE MCLogin ------------------------------
(* Instances of Login for TLC. *)
EXTENDS Login, TLC

CONSTANTS l1, l2, l3, c1, c2, c3, st1, st2, d1, d2, w1, w2

Symmetric ==
    Permutations(Login) \cup Permutations(Code) \cup Permutations(Steam)
        \cup Permutations(Discord) \cup Permutations(Worker)
=============================================================================
