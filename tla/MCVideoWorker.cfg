SPECIFICATION WorkerSpec
CONSTANTS
  Pts <- MCPts
  MaxPushes = 3
  MaxRestarts = 2
  MaxLimit = 2
  DefaultLimit = 2
  MayFail = TRUE
INVARIANTS
  CurrentEpochOnly
  DecoderCoherent
  NoLostWakeup
PROPERTIES
  ImplementsFeed
  HeadJobHandled
\* The owner frees the worker at the end: nothing runs after that.
CHECK_DEADLOCK FALSE
