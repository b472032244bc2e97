--------------------------- MODULE LeaseLifecycle ---------------------------
(***************************************************************************)
(* What the sessions table promises about a play lease, whoever calls it   *)
(* and however the calls interleave: a lease id is granted at most once,   *)
(* to one player; while Active its heartbeat time only takes values that   *)
(* have already passed; it ends at most once, and the state that ended it  *)
(* (Ended, Revoked or Expired) is never overwritten; it Expires only after *)
(* more than Grace units of silence.  Leases.tla implements this.          *)
(***************************************************************************)
EXTENDS Naturals

CONSTANTS Sid, Player, Grace

VARIABLES
    clock,  \* the server's time, utc_now()
    lease   \* the sessions table: lease id -> row

vars == <<clock, lease>>

Unused == [state |-> "Unused", player |-> "none", beat |-> 0]

Init ==
    /\ clock = 0
    /\ lease = [s \in Sid |-> Unused]

Open(s, p) ==
    /\ lease[s].state = "Unused"
    /\ \E t \in 0 .. clock :
         lease' = [lease EXCEPT ![s] = [state |-> "Active", player |-> p, beat |-> t]]
    /\ UNCHANGED clock

Renew(s) ==
    /\ lease[s].state = "Active"
    /\ \E t \in 0 .. clock : lease' = [lease EXCEPT ![s].beat = t]
    /\ UNCHANGED clock

Close(s, how) ==
    /\ lease[s].state = "Active"
    /\ how = "Expired" => lease[s].beat + Grace < clock
    /\ lease' = [lease EXCEPT ![s].state = how]
    /\ UNCHANGED clock

TimePasses ==
    /\ clock' = clock + 1
    /\ UNCHANGED lease

Next ==
    \/ \E s \in Sid, p \in Player : Open(s, p)
    \/ \E s \in Sid : Renew(s)
    \/ \E s \in Sid, how \in {"Ended", "Revoked", "Expired"} : Close(s, how)
    \/ TimePasses

Spec == Init /\ [][Next]_vars
=============================================================================
