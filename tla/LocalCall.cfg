SPECIFICATION Spec
CONSTANTS
  MaxEvents = 1
  MaxFaults = 1
INVARIANT ClosedIsLast
INVARIANT NoOrphanSession
PROPERTY CallEnds
CHECK_DEADLOCK FALSE
