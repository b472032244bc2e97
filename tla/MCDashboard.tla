---------------------------- MODULE MCDashboard ----------------------------
(* Instances of Dashboard for TLC. *)
EXTENDS Dashboard, TLC

CONSTANTS k1, k2, p1, p2, r1, r2, r3, d1, s1, s2, f1

OneOwner == (d1 :> p1) @@ (s1 :> p1) @@ (s2 :> p1)

\* One player for whom every button is there and one for whom none is; r3 was pruned before.
OneStart ==
    {[bans |-> (p1 :> 1) @@ (p2 :> 0),
      watched |-> {p1}, linked |-> {p1}, exempt |-> {p1}, playing |-> {s1, s2},
      status |-> (d1 :> "pending"), kept |-> {r1, r2}, views |-> {}, version |-> 0]}

Tabs(S) == [at : S, id : {None}]
Profiles == [at : {"profile"}, id : Player]
Details == [at : {"report"}, id : Report]

Two(keys, routes, changes) ==
    [keys |-> keys, routes |-> routes, requests |-> 2, changes |-> changes]

\* One part of the dashboard each, two requests at a time.
PartByPart ==
    {Two({k1, k2}, Tabs({"overview", "actions"}), 0),  \* the admin key
     Two({k1}, Profiles, 1),
     Two({k1}, Tabs({"players", "bans"}), 1),
     Two({k1}, Tabs({"devices", "maint"}), 1),
     Two({k1}, Details, 0)}

ReportsOnly == {Two({k1}, Details, 0)}
=============================================================================
