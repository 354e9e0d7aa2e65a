SPECIFICATION StoreSpec
CONSTANTS
    KA = KA
    KB = KB
    KC = KC
    T1 = T1
    T2 = T2
    Keys <- MCKeys
    Tags <- MCTags
    MaxConnId = 2
    MaxSequence = 0
    Commands = {}
    NoKey = NoKey
    NoTable = NoTable
    NoUpdate = NoUpdate
    RouteRequests <- MCRouteRequests
    TagRequests <- MCTagRequests
    SaveMayFail = FALSE
    LoadMayFail = FALSE
INVARIANT
    RoutesMatchTagTables
CHECK_DEADLOCK FALSE
