\* peek against spec 4.3/8: it must return exactly the pending events.
CONSTANTS
  RingLen = 4
  MaxEvents = 3
SPECIFICATION Spec
INVARIANT PeekIsExact
CHECK_DEADLOCK FALSE
