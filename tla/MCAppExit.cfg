CONSTANTS
    Repl = TRUE
    MaxBoots = 3
    MaxInputs = 3
SPECIFICATION FairSpec
INVARIANTS
    TypeOK
    OneEngine
    ExitsWithoutEngine
PROPERTY SignalShutsDown
CHECK_DEADLOCK FALSE
