\* A consumer cycle state that is never toggled replays old events.
CONSTANTS
  RingLen = 2
  MaxEvents = 4
SPECIFICATION Spec
INVARIANT ConsumedExactlyOnceInOrder
CHECK_DEADLOCK FALSE
