SPECIFICATION Spec
CONSTANTS
    j1 = j1  j2 = j2  t1 = t1  u1 = u1  u2 = u2
    Jobs = {j1, j2}
    Targets = {t1}
    Turns = {u1, u2}
    Route <- OneThread
    NoJob = NoJob
    NoTurn = NoTurn
    MaxAttempt = 2
    MaxFaults = 2
    Foreign = TRUE
CONSTRAINT FewForeignTurns
SYMMETRY SymmetricIds
INVARIANTS TypeOK AtMostOnce OneOwnerPerTarget NoCrossedReply
PROPERTIES StopIsFinal DeadTargetIsFrozen StartsInOrder
CHECK_DEADLOCK FALSE
