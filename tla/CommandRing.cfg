\* A 4-slot ring (three command slots and the Link TRB) and seven
\* commands: enqueues fill it (the fourth gets IsFull), completions reclaim
\* the space, and the enqueue and the xHC's dequeue pointers wrap twice.
CONSTANTS
  RingLen = 4
  MaxCmds = 7
SPECIFICATION Spec
INVARIANT TypeOK
INVARIANT FullnessMatchesOutstanding
INVARIANT SoftwareDequeueTracksHardware
PROPERTY CommandQueueRefined
CHECK_DEADLOCK FALSE
