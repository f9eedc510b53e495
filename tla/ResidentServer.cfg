SPECIFICATION FairSpec
CONSTANTS
    o1 = o1  None = None
    Ops = {o1}
    MaxClients = 3
    MaxFaults = 2
INVARIANTS OneServer LostWorkIsFenced RestartIsJust
PROPERTIES BadServerIsReplaced
CHECK_DEADLOCK FALSE
