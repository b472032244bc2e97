SPECIFICATION FairSpec
CONSTANTS
    p1 = p1
    Player = {p1}
    ExemptLists = {{}, {p1}}
    Grace = 2
    Window = 2
    AlertAfter = 2
    EmptyAfter = 3
    MaxDelay = 1
    MaxMishaps = 3
INVARIANT TypeOK
INVARIANT HolderStays
INVARIANT GraceIsGiven
INVARIANT AdminsKnow
PROPERTY NobodyStaysBare
