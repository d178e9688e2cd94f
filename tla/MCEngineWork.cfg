CONSTANTS
    w1 = w1
    w2 = w2
    Worker <- OneWorker
    Component <- Registering
    Fragile <- None
    FetchWebsites = FALSE
    UnknownCharset = FALSE
    MaxProposals = 1
SPECIFICATION Spec
INVARIANTS
    ParserIsReady
    WorkersAreReady
    WorkersSurvive
CHECK_DEADLOCK FALSE
