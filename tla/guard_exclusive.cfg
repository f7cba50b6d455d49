SPECIFICATION FairSpec
CONSTANTS
  k1 = k1 r1 = r1 r2 = r2 c1 = c1 c2 = c2
  Key <- OneKey
  Run <- OneRun
  Call <- OneCall
  RunKey <- Exclusive
  Compensable <- OneKey
  MaxGenerations = 4
  MaxAttempts = 3
  MaxRetries = 3
  Outlives <- NoOp
  None = None
INVARIANTS
  AtMostOneLive
  SuccessKeepsDocument
  CleanFailureUndoes
PROPERTIES
  EveryRunCloses
  WritesOnce
CHECK_DEADLOCK FALSE
