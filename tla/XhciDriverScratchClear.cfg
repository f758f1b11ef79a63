\* A controller that asks for one scratchpad buffer.
CONSTANTS
  CmdRingLen = 4
  EvRingLen = 4
  ScratchHiValues = {0}
  ScratchLoValues = {1}
  InitHalted = {TRUE}
  SpuriousInterrupts = FALSE
  IntxPin = FALSE
  PortEvents = FALSE
  MaxSlotsValues = {1}
SPECIFICATION Spec
INVARIANT ScratchpadBuffersCleared
CHECK_DEADLOCK FALSE
