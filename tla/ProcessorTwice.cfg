SPECIFICATION Spec
CONSTANTS
    p1 = p1
    p2 = p2
    a = a
    b = b
    Providers = {p1, p2}
    Ids = {a, b}
    Feeds <- SharedFeeds
    NSinks = 1
    Outcomes = {"ok"}
    StoreFails = FALSE
    MarksExpire = FALSE
    MaxCrashes = 0
    MaxCount = 2
INVARIANTS
    NeverTwice
