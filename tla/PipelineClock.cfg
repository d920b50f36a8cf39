SPECIFICATION Spec
CONSTANTS
    p1 = p1
    p2 = p2
    a = a
    Providers = {p1, p2}
    Ids = {a}
    Feeds <- SameStory
    NSinks = 2
    Outcomes = {"ok", "fail"}
    MaxCount = 10
    TTL = 2
    Sub = 2
    MaxTime = 4
    MaxFaults = 1
INVARIANTS
    OncePerTTL
PROPERTIES
    ProcessorSpec
