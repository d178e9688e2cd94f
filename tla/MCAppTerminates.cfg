CONSTANTS
    Repl = TRUE
    MaxBoots = 3
    MaxInputs = 3
SPECIFICATION FairSpec
PROPERTY ExitTerminates
CHECK_DEADLOCK FALSE
