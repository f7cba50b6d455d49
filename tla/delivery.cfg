SPECIFICATION FairSpec
CONSTANTS
  w1 = w1 w2 = w2 None = None
  Worker <- TwoWorkers
  Mode <- AllModes
  Batch = 2
  MaxEvents = 2
  MaxPruned = 1
  MaxFaults = 1
INVARIANTS
  CursorBehindRuns
  InboxSound
PROPERTIES
  EveryEventRuns
CHECK_DEADLOCK FALSE
