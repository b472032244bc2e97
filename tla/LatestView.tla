----------------------------- MODULE LatestView -----------------------------
(***************************************************************************)
(* What a screen that loads from the server promises, however its requests *)
(* overlap and whichever answers come late: what it puts up is about the   *)
(* subject it was last turned to, it is something the server really held,  *)
(* and while the screen stays open it never goes back to an older state.   *)
(***************************************************************************)
EXTENDS Naturals

CONSTANT Nothing

VARIABLES
    version,  \* how often the server's state has changed
    subject,  \* what the screen was turned to last
    shown     \* what it shows: whose data, and of which version

vars == <<version, subject, shown>>

Blank == [of |-> Nothing, at |-> 0]

Init ==
    /\ version = 0
    /\ shown = Blank

Change ==
    /\ version' = version + 1
    /\ UNCHANGED <<subject, shown>>

Turn ==
    /\ subject' # subject
    /\ UNCHANGED <<version, shown>>

Clear ==
    /\ shown' = Blank
    /\ UNCHANGED version

Show ==
    /\ \E n \in shown.at .. version : shown' = [of |-> subject, at |-> n]
    /\ UNCHANGED <<version, subject>>

Next == Change \/ Turn \/ Clear \/ Show

Spec == Init /\ [][Next]_vars
=============================================================================
