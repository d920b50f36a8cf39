SPECIFICATION FairServiceSpec
CONSTANTS
    Processes = {old, new}
    None = none
    NProviders = 3
    MaxProviderWorkers = 2
    EnrichHangs = TRUE
INVARIANTS
    TypeOK
    StoreHeld
    WorkInsideCrawl
    ProvidersServed
PROPERTIES
    HarvesterSpec
    SignalEnds
    CrawlsAgain
