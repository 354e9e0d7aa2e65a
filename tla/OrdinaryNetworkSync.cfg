SPECIFICATION NetworkSpec
CONSTANTS
    E1 = E1
    E2 = E2
    Interfaces <- MCInterfaces
    Networks <- MCNetworks
    SyncFails = TRUE
    MaxFaults = 2
INVARIANT OriginalDnsLasts
CHECK_DEADLOCK FALSE
