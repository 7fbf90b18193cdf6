SPECIFICATION SocketSpec
CONSTANTS
  MaxPending = 2
  MaxSends = 2
  MaxRecvs = 3
  MaxPumps = 1
INVARIANTS
  SocketRefs
  WireInOrder
  ClosedAtRest
PROPERTIES
  CloseTold
  FreeEnds
\* A freed socket takes no more steps.
CHECK_DEADLOCK FALSE
