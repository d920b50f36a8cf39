SPECIFICATION FairServiceSpec
CONSTANTS
    Processes = {old}
    None = none
    NProviders = 3
    MaxProviderWorkers = 2
    EnrichHangs = FALSE
PROPERTIES
    SignalStops
