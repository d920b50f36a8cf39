SPECIFICATION Spec
CONSTANTS
    a = a
    b = b
    c = c
    Ids = {a, b, c}
    Blank = blank
    Inputs <- SomeInputs
    MaxInt64 = 127
    Second = 12
    Millisecond = 3
    DefaultArticleTTL = 60
    DefaultCleanupInterval = 24
    DefaultRequestDelayMs = 5
    HttpDefaultTimeoutSeconds = 2
INVARIANTS
    TypeOK
    ReadyServesFile
    ValidCanBeBuilt
    StoreTimesAsSet
    ServedByType
    WaitsUnlessTooLong
