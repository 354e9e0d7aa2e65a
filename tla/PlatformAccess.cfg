SPECIFICATION AccessSpec
CONSTANTS
    E1 = E1
    E2 = E2
    Interfaces <- MCInterfaces
    Networks <- MCNetworks
    SyncFails = FALSE
    MaxFaults = 1
    MaxRevision = 2
INVARIANTS
    AccessSafe
    RecoversTheSaved
    OnlineIsCurrent
    RunsWhatLasts
PROPERTIES
    AppliedAnswerIsCurrent Settles
CHECK_DEADLOCK FALSE
