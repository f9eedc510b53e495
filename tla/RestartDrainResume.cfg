SPECIFICATION Spec
CONSTANTS
    j1 = j1
    Jobs = {j1}
    MaxRuns = 3
    MaxNonces = 1
    MaxEntries = 1
    MaxFaults = 1
PROPERTIES PreparationResumes
CHECK_DEADLOCK FALSE
