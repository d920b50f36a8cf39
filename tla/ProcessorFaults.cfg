SPECIFICATION FairSpec
CONSTANTS
    p1 = p1
    p2 = p2
    a = a
    b = b
    Providers = {p1, p2}
    Ids = {a, b}
    Feeds <- SharedFeeds
    NSinks = 2
    Outcomes = {"ok", "fail", "ambiguous"}
    StoreFails = TRUE
    MarksExpire = TRUE
    MaxCrashes = 1
    MaxCount = 1
INVARIANTS
    TypeOK
    MarkedWasDelivered
    NilMeansDelivered
PROPERTIES
    Retried
