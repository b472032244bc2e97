------------------------------ MODULE MCAccess ------------------------------
(* Instances of Access for TLC. *)
EXTENDS Access, TLC

CONSTANTS p1, p2, a1, a2, h1, h2, t1, t2

Rows(f) == [d \in Device |-> IF d \in DOMAIN f THEN f[d] ELSE Unused]

Row(p, status, parts) == [of |-> p, status |-> status, parts |-> parts]

NoLinks == [p \in Player |-> None]

By(c1, c2) == (t1 :> c1) @@ (t2 :> c2)

\* Two players, the PCs they share, and the review.
Registering ==
    [players |-> {p1, p2}, calls |-> By({"register"}, {"register"}),
     prints |-> SUBSET {h1, h2}, reports |-> {}, world |-> {}, accounts |-> {}, bans |-> {p1},
     device |-> Rows(<<>>), link |-> NoLinks, role |-> {}, active |-> {}]

Linked == [NoLinks EXCEPT ![p1] = [account |-> a1, ok |-> TRUE, age |-> 0]]

\* One player's PC, waiting for approval at first, with bans and bypasses.
Gating ==
    [players |-> {p1}, calls |-> By({"start", "heartbeat"}, {}), prints |-> {},
     reports |-> BOOLEAN, world |-> {"status", "bypass"}, accounts |-> {}, bans |-> {p1, 1, h1},
     device |-> Rows(<<Row(p1, "pending", {h1})>>), link |-> Linked, role |-> {a1},
     active |-> {}]

\* The same PC signed in from again, with other parts, while it is checked.
Rekeying ==
    [players |-> {p1}, calls |-> By({"register"}, {"heartbeat"}),
     prints |-> {{h1}, {h1, h2}}, reports |-> {FALSE}, world |-> {}, accounts |-> {},
     bans |-> {h1, h2},
     device |-> Rows(<<Row(p1, "approved", {h1})>>), link |-> Linked, role |-> {a1},
     active |-> {1}]

\* One player who links, loses and changes accounts ...
Linking ==
    [players |-> {p1}, calls |-> By({"start", "heartbeat"}, {}), prints |-> {},
     reports |-> {FALSE}, world |-> {"unlink", "time", "leases"}, accounts |-> {a1, a2},
     bans |-> {},
     device |-> Rows(<<Row(p1, "approved", {h1})>>), link |-> NoLinks, role |-> {a1},
     active |-> {}]

\* ... or checked by a join and a heartbeat at a time.
Overlapping ==
    [Linking EXCEPT !.calls = By({"start"}, {"heartbeat"}), !.accounts = {a1}]

AllScenes == {Registering, Gating, Rekeying, Linking, Overlapping}
==============================================================================
