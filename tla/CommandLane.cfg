SPECIFICATION FairLaneSpec
CONSTANTS
    C1 = C1
    C2 = C2
    C3 = C3
    Commands <- MCCommands
    MaxTickets = 6
INVARIANTS
    LaneSafe
PROPERTIES
    ImplementsFifo
    WaitingEnds
CHECK_DEADLOCK FALSE
