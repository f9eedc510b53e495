SPECIFICATION FairSpec
CONSTANTS
    j1 = j1  j2 = j2  t1 = t1  u1 = u1  u2 = u2
    Jobs = {j1, j2}
    Targets = {t1}
    Turns = {u1, u2}
    Route <- OneThread
    NoJob = NoJob
    NoTurn = NoTurn
    MaxAttempt = 2
    MaxFaults = 1
    Foreign = FALSE
PROPERTIES EveryRequestSettles KeepsPromise
CHECK_DEADLOCK FALSE
