SPECIFICATION FairSpec
CONSTANTS
    a = a
    b = b
    l1 = l1
    l2 = l2
    k1 = k1
    k2 = k2
    Process = {a}
    Lease = {l1}
    Key = {k1}
    Grace = 10
    Heartbeat = 4
    RetryDelay = 1
    Timeout = 2
    EndTimeout = 1
    Latency = 1
    MaxScan = 1
    MaxStray = 1
    MaxMishaps = 3
INVARIANT TypeOK
INVARIANT NewOnlyIfOver
INVARIANT HeldIsSaved
INVARIANT OneLossIsSurvived
PROPERTY GivesUpLate
PROPERTY HolderLearns
