SPECIFICATION BusSpec
CONSTANTS
    Requests <- MCRequests
    MaxSent = 3
    GarbledSizes = {2, 5}
    MaxTimeouts = 3
INVARIANT
    AcceptedWasExecuted
CHECK_DEADLOCK FALSE
