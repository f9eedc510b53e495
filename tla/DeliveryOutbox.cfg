SPECIFICATION Spec
CONSTANTS
    j1 = j1  j2 = j2  n1 = n1  n2 = n2  h1 = h1
    Jobs = {j1, j2}
    Notes = {n1, n2}
    Channels = {h1}
    ChannelOf <- OneChannel
    JobOf <- OneTurn
    PartsOf <- LongFinal
    MaxStages = 2
    MaxFaults = 1
INVARIANTS ShownOnce ReadInOrder NothingDropped
PROPERTIES RepliesArrive
CHECK_DEADLOCK FALSE
