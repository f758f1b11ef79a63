CONSTANTS
  RingLen = 3
  MaxCmds = 5
SPECIFICATION Spec
INVARIANT LinkCycleIntactUntilFollowed
CHECK_DEADLOCK FALSE
