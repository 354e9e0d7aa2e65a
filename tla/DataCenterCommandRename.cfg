SPECIFICATION CommandSpec
CONSTANTS
    KA = KA
    KB = KB
    KC = KC
    T1 = T1
    C1 = C1
    C2 = C2
    Keys <- ThreeKeys
    Tags <- MCTags
    Commands <- MCCommands
    CommandSrc <- MCCommandSrc
    MaxConnId = 2
    MaxSequence = 0
    NoKey = NoKey
    NoTable = NoTable
    NoUpdate = NoUpdate
    RouteRequests <- MCRouteRequests
    TagRequests = {}
    SaveMayFail = FALSE
    LoadMayFail = FALSE
    MayStop = FALSE
    CallMayExpire = FALSE
INVARIANT
    OneCallPerConnection
CHECK_DEADLOCK FALSE
