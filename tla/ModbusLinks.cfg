SPECIFICATION FairLinksSpec
CONSTANTS
    N1 = N1
    N2 = N2
    A = A
    B = B
    None = None
    Names <- MCNames
    Configs <- MCConfigs
    Tables <- MCTables
    MaxId = 3
    MaxGen = 4
    MaxRev = 3
    Worlds <- MCWorlds
INVARIANTS
    LinksSafe
    StoppedIsLast
    TablesAgree
PROPERTY
    CallsEnd
CHECK_DEADLOCK FALSE
