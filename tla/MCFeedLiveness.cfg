\* Every message is handled in the end.
SPECIFICATION FairSpec
CONSTANTS
    a = a
    b = b
    Url <- TwoUrls
    Redirects <- AMovesToB
    Unreachable <- Nowhere
    Malformed <- Nowhere
    MaxFaults = 0
    MaxProposals <- Once
    MaxChecks = 1
PROPERTIES EventuallySettled ProposalIsAnswered RegistrationsComplete
CHECK_DEADLOCK FALSE
