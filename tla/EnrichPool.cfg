SPECIFICATION FairSpec
CONSTANTS
    NArticles = 4
    MaxArticleWorkers = 2
    Limited = TRUE
INVARIANTS
    TypeOK
    SlotOwnership
    PartialOnlyIfCancelled
    StrandedOnlyByCancel
PROPERTIES
    PoolSpec
    ReturnsOrStranded
\* A cancelled call can stop for ever: the run EnrichCancel shows how.
CHECK_DEADLOCK FALSE
