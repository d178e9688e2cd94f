\* A user who opens the application at one place and goes to another.
SPECIFICATION FairSpec
CONSTANTS
    x = x
    y = y
    Id <- TwoIds
    NoId = NoId
    NotAsked = NotAsked
    Failure = Failure
    Absent = Absent
    Nothing = Nothing
    Routes <- SomeRoutes
    MaxVisits = 2
INVARIANTS ShowsItsPage ButtonMatchesPage ButtonIsItsData PlayerMatchesPage DescriptionMatchesPage
PROPERTIES Settles
CHECK_DEADLOCK FALSE
