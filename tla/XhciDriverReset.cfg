\* A controller found running (firmware left HCHalted at 0): Driver::new
\* sets HCRST without first clearing Run/Stop and waiting for HCHalted.
CONSTANTS
  CmdRingLen = 4
  EvRingLen = 4
  ScratchHiValues = {0}
  ScratchLoValues = {0}
  InitHalted = {FALSE}
  SpuriousInterrupts = FALSE
  IntxPin = FALSE
  PortEvents = FALSE
  MaxSlotsValues = {1}
SPECIFICATION Spec
PROPERTY ResetOnlyWhenHalted
CHECK_DEADLOCK FALSE
