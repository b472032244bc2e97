SPECIFICATION FairSpec
CONSTANTS
    p1 = p1
    p2 = p2
    t1 = t1
    t2 = t2
    t3 = t3
    Torn = Torn
    Player = {p1, p2}
    Thread = {t1, t2}
    Modes = {"rcon", "file"}
    MaxChanges = 4
    MaxMishaps = 2
INVARIANT TypeOK
INVARIANT NeverTorn
INVARIANT GameMatchesUndisturbed
INVARIANT FileMatchesTable
PROPERTY FileGoesForward
PROPERTY CallsReturn
