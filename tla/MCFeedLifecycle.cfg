\* Both URLs are proposed, one of them has moved to the other, a check may be
\* asked for, feeds may be out of reach or malformed, and one database call
\* may fail.
SPECIFICATION Spec
CONSTANTS
    a = a
    b = b
    Url <- TwoUrls
    Redirects <- AMovesToB
    Unreachable <- OneUrl
    Malformed <- OneUrl
    MaxFaults = 1
    MaxProposals <- Once
    MaxChecks = 1
INVARIANTS
    OrphansAreFaults
    FeedHasPodcast
    CrawlsAreStored
    IInv
    CompletePodcastWasChecked
PROPERTIES
    RegistrationStaysComplete
    ImplementsRegistry
CHECK_DEADLOCK FALSE
