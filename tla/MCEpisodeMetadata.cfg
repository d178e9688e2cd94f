\* Violated: a feed has changed its title between two checks.
SPECIFICATION Spec
CONSTANTS
    None = None
    p = p
    q = q
    i = i
    j = j
    h = h
    s = s
    t = t
    Podcast <- TwoPodcasts
    Item <- ThreeItems
    Title <- TwoTitles
    Text <- Retitled
    WithoutGuid <- Nothing
    WithoutTitle <- Nothing
    Future <- Nothing
    Undated <- Nothing
    MaxChecks <- TwiceAndOnce
    MaxFaults = 0
INVARIANT MetadataFollowsFeed
CHECK_DEADLOCK FALSE
