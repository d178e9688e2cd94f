\* A feed that lists item i is parsed twice and another one, which lists item
\* j or item h, once, whenever they like, and one database call fails.  Item i
\* airs at some time, items j and h are out, and h has no GUID.
SPECIFICATION FairSpec
CONSTANTS
    None = None
    p = p
    q = q
    i = i
    j = j
    h = h
    s = s
    t = t
    Podcast <- TwoPodcasts
    Item <- ThreeItems
    Title <- TwoTitles
    Text <- OneTitle
    WithoutGuid <- OnlyH
    WithoutTitle <- Nothing
    Future <- OnlyI
    Undated <- Nothing
    MaxChecks <- TwiceAndOnce
    MaxFaults = 1
INVARIANTS
    IInv
    CopiesAreChecks
    UnindexedAreFaults
    TitlesAreRepaired
PROPERTIES
    EpisodesKeepIdentity
    EventuallySettled
    EpisodesAreRegistered
CHECK_DEADLOCK FALSE
