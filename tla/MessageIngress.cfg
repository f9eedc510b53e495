\* Three messages, or two with two restarts, a drain and holds that may fail.
CONSTANTS
  MaxMessages = 3
  MaxRestarts = 2
  LaneCapacity = 1
  PageLimit = 2
  ClockSkew = 0
  Controls = {2}
  Drains = TRUE
  Faults = TRUE
SPECIFICATION Spec
CONSTRAINT FaultsOrMessages
INVARIANTS
  DroppedIsCovered
  ExecutedAtMostOnce
  AdmittedIsAccounted
PROPERTIES
  DecisionsStand
CHECK_DEADLOCK FALSE
