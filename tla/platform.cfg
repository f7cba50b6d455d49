SPECIFICATION MCSpec
CONSTANTS
  Unit <- AllUnits
  w1 = w1 w2 = w2 x1 = x1 x2 = x2
  Auditor <- Workers
  MaxRecords = 4
  MaxAuditFaults = 2
  AwCaller = {c1}
  AwRequest <- Items
  NoRequest = NoRequest
  PushId = {p1, p2}
  MaxPushConfigs = 1
  MaxPushSignals = 2
  MaxCommitTries = 2
  MaxNotices = 2
  Plugins = 3
  Subscribes <- AnySubscription
  RecordChange <- OneItem
  MaxChain = 3
  MaxHostCalls = 2
  MaxPluginTries = 3
  ResolveRun <- Workers
  Master <- Items
  NoMaster = NoMaster
  StewardUser = {s1, s2}
  Automatic = TRUE
  QueueLimit = 1
  OtherFailures = 1
  MaxIdentityFaults = 1
  ConsoleUser <- Workers
  ConsoleAuth = {"dev", "proxy", "oidc"}
  WriteSteps = 1
  MaxLogins = 1
  MaxGroupChanges = 1
  MaxRetries = 1
  MaxDecisions = 1
  Expr = {e1, e2}
  MappingVersion = {v1}
  FaultSeen = {"noUndo"}
  MaxCatalogEdits = 1
  MaxFileEdits = 1
  SpecName = {n1, n2}
  Version <- Items
  BadVersion = {b1}
  NoFile = NoFile
  MaxEdits = 3
  MaxStarts = 3
  MaxExits = 1
  OpSpec <- Items
  BadSpec = BadSpec
  Replicas = 1
  MaxChanges = 2
  MaxOpFaults = 1
  SecretRef = {r1, r2}
  OptionalRef = {r2}
  UnneededRef = {r2}
  LazyRef = {r2}
  Client = {k1}
  MaxVersion = 2
  MaxOpens = 2
  MaxRotationFaults = 1
INVARIANTS
  PlatformTypeOK
  AuditSafe
  AgentsToldTruth
  PluginsContained
  RetriedResolves
  DecidedAsShown
  ReviewedRuns
  UnitsServed
  MountedSpecKept
  RotationSafe
CHECK_DEADLOCK FALSE
