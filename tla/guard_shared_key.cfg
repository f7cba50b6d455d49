SPECIFICATION Spec
CONSTANTS
  k1 = k1 r1 = r1 r2 = r2 c1 = c1 c2 = c2
  Key <- OneKey
  Run <- TwoRuns
  Call <- TwoCalls
  RunKey <- Shared
  Compensable <- OneKey
  MaxGenerations = 3
  MaxAttempts = 2
  MaxRetries = 0
  Outlives <- NoOp
  None = None
INVARIANTS
  NotOursToCompensate
CHECK_DEADLOCK FALSE
