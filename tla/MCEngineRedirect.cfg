CONSTANTS
    w1 = w1
    w2 = w2
    Worker <- OneWorker
    Component <- Fetching
    Fragile <- None
    FetchWebsites = TRUE
    UnknownCharset = FALSE
    MaxProposals = 1
SPECIFICATION Spec
PROPERTY RedirectsAreFollowed
CHECK_DEADLOCK FALSE
