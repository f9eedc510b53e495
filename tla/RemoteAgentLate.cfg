SPECIFICATION FairSpec
CONSTANTS
    c1 = c1  c2 = c2  c3 = c3  c4 = c4  c5 = c5  t1 = t1  a = a  b = b
    r1 = r1  r2 = r2  x = x  y = y  None = None
    Cmds = {c1, c2}
    Threads = {t1}
    Sids = {a, b}
    Reqs = {r1, r2}
    Body = {x, y}
    CmdOf <- LateDevice
    MaxConns = 1
    MaxObjs = 2
    MaxWorkers = 2
    MaxPending = 3
    CacheSize = 1
PROPERTIES ExpiredRunsNothing
CHECK_DEADLOCK FALSE
