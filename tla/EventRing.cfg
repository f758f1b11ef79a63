\* The event ring as the code leaves it: a software consumer that peeks,
\* consumes and advances, against an xHC posting up to MaxEvents events.
CONSTANTS
  RingLen = 4
  MaxEvents = 8
SPECIFICATION Spec
INVARIANT TypeOK
INVARIANT WrappingAddIsModulo
INVARIANT NoEventLost
\* peek's panic ends the driver: a state with no step is where it stops.
CHECK_DEADLOCK FALSE
