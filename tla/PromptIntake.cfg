\* One prompt, its live worker and the recovery worker, two crashes and the controls.
CONSTANTS
  Jobs = {1}
  Recovery = Recovery
  None = None
  Lease = 2
  Backoff = 1
  MaxCrashes = 2
  Controls = TRUE
SPECIFICATION FairSpec
INVARIANTS
  OnePlace
PROPERTIES
  WordIsKept
  LeaseIsRespected
  EveryPromptQueued
CHECK_DEADLOCK FALSE
