SPECIFICATION FairSoeSpec
CONSTANTS
    Ends <- MCEnds
    K <- MCK
    W <- MCW
    SeqMod = 4
    MaxEvents = 3
    Capacity = 2
    MaxFaults = 1
    MaxStops = 1
INVARIANTS
    SoeSafe
    NoSoeLost
PROPERTIES
    ImplementsDelivery
    EventuallyReceived
CHECK_DEADLOCK FALSE
