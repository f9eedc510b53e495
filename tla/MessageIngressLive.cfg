\* Four messages, a lane of one and a page of two: a gap that grows past a page, with
\* errors in the recovery and a drain that may be released again.
CONSTANTS
  MaxMessages = 4
  MaxRestarts = 0
  LaneCapacity = 1
  PageLimit = 2
  ClockSkew = 0
  Controls = {}
  Drains = TRUE
  Faults = FALSE
SPECIFICATION FairSpec
CONSTRAINT GrowingGap
PROPERTIES
  DroppedIsRecovered
CHECK_DEADLOCK FALSE
