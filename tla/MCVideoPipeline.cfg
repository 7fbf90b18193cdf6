SPECIFICATION PipelineSpec
CONSTANTS
  Pts <- MCPts
  Frames <- MCFrames
  MaxPushes = 20
  MaxRestarts = 8
  MaxLimit = 2
  DefaultLimit = 1
  MayFail = FALSE
  Forward = 0
  FeedAhead = 0
  Lead = 2
  LateData = TRUE
  MaxMoves = 1
INVARIANTS
  NoUseAfterFree
PROPERTIES
  NoNeedlessRestart
  RestShowsTarget
\* A freed video takes no more steps.
CHECK_DEADLOCK FALSE
