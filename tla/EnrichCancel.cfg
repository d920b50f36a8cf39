SPECIFICATION FairSpec
CONSTANTS
    NArticles = 4
    MaxArticleWorkers = 2
    Limited = FALSE
PROPERTIES
    CancelReturns
CHECK_DEADLOCK FALSE
