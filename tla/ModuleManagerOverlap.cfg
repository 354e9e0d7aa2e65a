SPECIFICATION ManagerSpec
CONSTANTS
    M1 = M1
    M2 = M2
    M3 = M3
    RPC = RPC
    Boot = Boot
    ConfigPusher = M1
    Modules <- MCModules
    Callers <- MCCallers
    BootLists <- MCBootLists
    Graphs <- ChainGraphs
    Overlap = TRUE
INVARIANT
    NoDoubleStart
CHECK_DEADLOCK FALSE
