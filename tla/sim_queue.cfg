SPECIFICATION FairSpec
CONSTANTS
  Threads = {"t1", "t2"}
  Main = "main"
  Free = "free"
  Delays = {0, 1}
  UidWidth = 4
  MaxEvents = 3
  MaxRuns = 2
INVARIANTS
  Causal
  CountExact
  ExpiredExact
  HandOverSeen
  DueOnTime
  CallerFifo
PROPERTIES
  HandedOverRuns
CHECK_DEADLOCK FALSE
