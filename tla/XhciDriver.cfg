CONSTANTS
  CmdRingLen = 4
  EvRingLen = 4
  ScratchHiValues = {0, 16}
  ScratchLoValues = {0, 1, 2, 3}
  InitHalted = {TRUE, FALSE}
  SpuriousInterrupts = FALSE
  IntxPin = FALSE
  PortEvents = FALSE
  MaxSlotsValues = {1, 2}
SPECIFICATION Spec
INVARIANT TypeOK
INVARIANT NoPanic
PROPERTY EnableSlotCompletes
PROPERTY InterruptsSubside
CHECK_DEADLOCK FALSE
