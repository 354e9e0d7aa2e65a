SPECIFICATION FairBusSpec
CONSTANTS
    KA = KA
    KB = KB
    T1 = T1
    T2 = T2
    S1 = S1
    Keys <- MCKeys
    Tags <- MCTags
    Subs <- MCSubs
    MaxConnId = 3
    MaxSequence = 3
    QueueCap = 2
    Commands = {}
    NoKey = NoKey
    NoTable = NoTable
    NoUpdate = NoUpdate
    RouteRequests <- MCRouteRequests
    TagRequests = {}
    Filters <- MCFilters
    PublishRequests <- MCPublishRequests
    SaveMayFail = FALSE
    LoadMayFail = FALSE
INVARIANTS
    BusSafe
    NoUpdateMissed
    LatestIsOfRegistered
PROPERTY
    ClosedStreamEnds
CHECK_DEADLOCK FALSE
