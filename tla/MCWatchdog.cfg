SPECIFICATION WatchdogSpec
CONSTANTS
  BurstMax = 2
  Burst = 3
  Backoff = 1
  Stable = 4
  Grace = 1
  Beat = 1
  Hang = 2
  Adopters = {"init", "subreaper"}
INVARIANTS
  RetriesBounded
  OnlyHungExits
PROPERTIES
  RecoversOnce
  StopEnds
  HangEnds
