SPECIFICATION MCSpec
CONSTANTS
  Unit = {"target"}
  w1 = w1 w2 = w2 x1 = x1 x2 = x2
  TokenWorker <- Workers
  AuthKind = {"refresh", "oauth2", "session", "salesforce"}
  MaxAccess = 3
  MaxTokenFaults = 2
  SessionApi <- AllApis
  SessionCall <- Workers
  MaxEnded = 2
  MaxGrants = 3
  MaxSids = 4
  Subscriber <- Workers
  StreamKind <- AllStreamKinds
  StreamBatch = 2
  MaxPublished = 2
  CdcWorker <- Workers
  CdcWorkflows = 1
  CdcLimit = 1
  CdcBudget = 5
  MaxTxns = 2
  MaxRows = 2
  Source <- AllSources
  PollWorker <- Workers
  PollLimit = 2
  MaxPages = 2
  Settle = 2
  MaxRecs = 3
  MaxClock = 4
  Target = {"salesforce"}
  MaxTries = 4
  RemoteCall <- Workers
  MaxSidecarDeaths = 2
  Discoverer <- Workers
  MetaKind = {"postgres", "salesforce", "sap", "odoo", "openapi", "debezium", "sampled"}
  PartlyWritable = {}
  MaxLength = 1
  MaxSchemaChanges = 1
  MaxSaves = 2
INVARIANT UpdatesUndoExactly
CHECK_DEADLOCK FALSE
