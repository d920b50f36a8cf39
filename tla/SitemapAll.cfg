SPECIFICATION FairSpec
CONSTANTS
    r = r
    a = a
    b = b
    x = x
    y = y
    Urls = {r, a, b}
    Ids = {x, y}
    Blank = blank
    Root = r
    Sites <- AllSites
    GetFails = TRUE
INVARIANTS TypeOK FetchedOnce WholeSite
PROPERTY FetchReturns
