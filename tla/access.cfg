SPECIFICATION Spec
CONSTANTS
    None = None
    p1 = p1
    p2 = p2
    a1 = a1
    a2 = a2
    h1 = h1
    h2 = h2
    t1 = t1
    t2 = t2
    Player = {p1, p2}
    Account = {a1, a2}
    Part = {h1, h2}
    Thread = {t1, t2}
    MaxDevices = 3
    AutoApprove = TRUE
    AllowBypass = TRUE
    DiscordRequired = TRUE
    Scenes <- AllScenes
INVARIANT TypeOK
INVARIANT NothingStandsAgainst
INVARIANT RoleHolderPasses
PROPERTY RoleLossEndsLease
