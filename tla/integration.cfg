SPECIFICATION FairSpec
CONSTANTS
  v1 = v1 v2 = v2
  N = 3
  WriteStep <- TwoWrites
  Compensable <- TwoWrites
  WithPlugins <- FirstOnly
  Version <- TwoVersions
  MaxSignals = 2
  MaxRetries = 1
INVARIANTS
  DecisionSound
  FailedLeavesNothing
  NoticesAreTrue
PROPERTIES
  UndoNewestFirst
  WritesRespectDecisions
  RunCloses
CHECK_DEADLOCK FALSE
