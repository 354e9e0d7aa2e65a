SPECIFICATION FairAgcSpec
CONSTANTS
    a = a
    b = b
    None = None
    Members = {"m1", "m2"}
    Totals = {"p1", "p2"}
    Rpcs = {a, b}
    Slots = {"t1", "t2"}
    Worlds <- MCWorlds
INVARIANTS
    AgcSafe
    IdleIsApplied
PROPERTY
    SentOnlyWhenOn
    GroupCallsEnd
CHECK_DEADLOCK FALSE
