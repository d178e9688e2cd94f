\* Violated: one URL is proposed twice at once.
SPECIFICATION Spec
CONSTANTS
    a = a
    b = b
    Url <- TwoUrls
    Redirects <- NoRedirects
    Unreachable <- Nowhere
    Malformed <- Nowhere
    MaxFaults = 0
    MaxProposals <- TwiceA
    MaxChecks = 0
INVARIANT OneFeedPerUrl
CHECK_DEADLOCK FALSE
