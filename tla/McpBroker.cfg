SPECIFICATION FairSpec
CONSTANTS
    None = None
    Devices = {d1, d2}
    First = d1
    Sessions = {s1}
    Subjects = {u1}
    Scopes = {p1, p2}
    Bindings = {b1}
    Threads = {t1}
    DeviceThread = dt
    Calls = {r1, r2}
    MaxConns = 2
    MaxTime = 1
    Expiries = {1}
    Grace = 1
    DeviceTtl = 1
    Capacity = 1
CONSTRAINT FirstComesFirst
INVARIANTS NoLostWaiter RoutesAreLive ScopesAreExclusive GenerationsFresh
PROPERTIES EveryCallEnds
CHECK_DEADLOCK FALSE
