SPECIFICATION Spec
CONSTANTS
    NProviders = 4
    MaxProviderWorkers = 2
INVARIANTS
    TypeOK
    ErrChHasRoom
    EveryFailureReported
    StrandedOnlyByCancel
PROPERTIES
    PoolSpec
\* A cancelled call can stop for ever: the run ServiceStop shows how.
CHECK_DEADLOCK FALSE
