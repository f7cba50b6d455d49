SPECIFICATION FairSpec
CONSTANTS
  c1 = c1 c2 = c2 c3 = c3
  Caller <- ThreeCallers
  Failures = 2
  Concurrency = 2
  Burst = 1
  CancelTrial = TRUE
PROPERTIES
  TrialIsSent
CHECK_DEADLOCK FALSE
