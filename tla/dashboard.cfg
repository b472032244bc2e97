SPECIFICATION Spec
CONSTANTS
    None = None
    k1 = k1
    k2 = k2
    p1 = p1
    p2 = p2
    r1 = r1
    r2 = r2
    r3 = r3
    d1 = d1
    s1 = s1
    s2 = s2
    f1 = f1
    Key = {k1, k2}
    Player = {p1, p2}
    Report = {r1, r2, r3}
    Device = {d1}
    Session = {s1, s2}
    Filter = {f1}
    OldReport = {r1}
    Owner <- OneOwner
    Start <- OneStart
    MaxRequests = 2
    Bound <- PartByPart
INVARIANT TypeOK
INVARIANT ShownIsAsked
INVARIANT ShowsOwnDecisions
INVARIANT ConfigIsOfKey
INVARIANT ListWasLogged
PROPERTY ShowsLatest
PROPERTY ScreenSettles
