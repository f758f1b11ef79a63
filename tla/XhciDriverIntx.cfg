\* Interrupts on the legacy INTx pin: handle_interrupt never clears
\* IMAN.IP, so the pin stays asserted and the handler is entered again
\* and again (until its peek panics).
CONSTANTS
  CmdRingLen = 4
  EvRingLen = 4
  ScratchHiValues = {0}
  ScratchLoValues = {0}
  InitHalted = {TRUE}
  SpuriousInterrupts = FALSE
  IntxPin = TRUE
  PortEvents = FALSE
  MaxSlotsValues = {1}
SPECIFICATION Spec
PROPERTY InterruptsSubside
CHECK_DEADLOCK FALSE
