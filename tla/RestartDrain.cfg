SPECIFICATION Spec
CONSTANTS
    j1 = j1
    Jobs = {j1}
    MaxRuns = 3
    MaxNonces = 2
    MaxEntries = 2
    MaxFaults = 2
INVARIANTS AckIsExact LaunchWasAuthorised
PROPERTIES NothingStartsOnceDrained DrainCompletes RestartFinishes
CHECK_DEADLOCK FALSE
