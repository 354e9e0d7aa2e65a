SPECIFICATION FairOrchSpec
CONSTANTS
    A = A
    B = B
    Dev = Dev
    P1 = P1
    P2 = P2
    PA = PA
    S1 = S1
    M = M
    C = C
    Nobody = Nobody
    Names <- MCNames
    Workflows <- MCWorkflows
    Devices = {Dev}
    Panels = {P1, P2}
    Worlds <- MCWorlds
    Manual <- MCManual
    Clients <- MCClients
    Outlet <- MCOutlet
    Requests <- MCRequests
    MaxPath = 32
    LoadsFirst = TRUE
PROPERTY EditsAreSaved
CHECK_DEADLOCK FALSE
