SPECIFICATION FairSpec
CONSTANTS
    Procs = {p1, p2}
    Ids = {a}
    TTL = 2
    CleanupInterval = 1
    Sub = 2
    MaxTime = 5
    MaxRestarts = 1
INVARIANTS
    TypeOK
    CleanupNotOverdue
    MarkKept
PROPERTIES
    CleanupCadence
    CacheSpec
    CallsReturn
