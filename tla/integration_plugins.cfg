SPECIFICATION Spec
CONSTANTS
  v1 = v1 v2 = v2
  N = 3
  WriteStep <- TwoWrites
  Compensable <- TwoWrites
  WithPlugins <- FirstOnly
  Version <- TwoVersions
  MaxSignals = 0
  MaxRetries = 0
INVARIANT PluginsRunOnce
CHECK_DEADLOCK FALSE
