\* Port Status Change Events, the INTx pin and a shared line together:
\* whatever the handler meets, process_event counts only the completions
\* of commands the xHC executed.
CONSTANTS
  CmdRingLen = 4
  EvRingLen = 4
  ScratchHiValues = {0}
  ScratchLoValues = {0, 1}
  InitHalted = {TRUE, FALSE}
  SpuriousInterrupts = TRUE
  IntxPin = TRUE
  PortEvents = TRUE
  MaxSlotsValues = {1, 2}
SPECIFICATION Spec
INVARIANT CompletionsOnlyFromCommands
CHECK_DEADLOCK FALSE
