CONSTANTS
    w1 = w1
    w2 = w2
    Worker <- TwoWorkers
    Component <- Fetching
    Fragile <- Fragiles
    FetchWebsites = TRUE
    UnknownCharset = TRUE
    MaxProposals = 1
SPECIFICATION FairSpec
INVARIANTS
    TypeOK
    AllHaveReported
    ReportsOnce
PROPERTIES
    BootEnds
    EndsAsAWhole
CHECK_DEADLOCK FALSE
