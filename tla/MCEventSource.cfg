SPECIFICATION SourceSpec
CONSTANTS
  MaxPending = 2
  MaxEvents = 2
  MaxPumps = 1
INVARIANTS
  SourceRefs
  EventsOnce
  StateAtRest
PROPERTIES
  EndTold
  JoinReturns
\* A freed source takes no more steps.
CHECK_DEADLOCK FALSE
