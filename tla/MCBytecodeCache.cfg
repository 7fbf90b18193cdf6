SPECIFICATION BytecodeSpec
CONSTANTS
  k1 = k1
  k2 = k2
  Readers = {engine}
  Engine = engine
  Pool = {p1, p2}
  Keys = {k1, k2}
  SizeOf <- Lengths12
  Cap = 2
  PruneMin = 2
INVARIANTS
  MarksKept
  TornIsOpenOrCut
PROPERTIES
  SleepEnds
