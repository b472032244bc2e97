SPECIFICATION Spec
CONSTANTS
    p1 = p1
    p2 = p2
    s1 = s1
    s2 = s2
    w1 = w1
    w2 = w2
    w3 = w3
    sweeper = sweeper
    Player = {p1}
    Sid = {s1, s2}
    Worker = {w1, w2}
    Sweeper = sweeper
    Calls <- LauncherCalls
    Grace = 1
    LastCall = 2
    MaxDelay = 1
SYMMETRY Symmetric
INVARIANT LeaseIsWhitelisted
