\* Two tabs of a browser, four visits, three changes of server or connection.
SPECIFICATION FairSpec
CONSTANTS
    Tab = {t1, t2}
    NoTab = NoTab
    MaxVisits = 4
    MaxChanges = 3
INVARIANTS JobsMatch
PROPERTIES ComesToRest VisitLeavesAWorker MissingLeavesNoWorker PublicKeepsItsWorker
CHECK_DEADLOCK FALSE
