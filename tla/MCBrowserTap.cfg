SPECIFICATION Spec
CONSTANTS
  URLs = {"app", "bus"}
  NoURL = ""
  RequestIds = {"r1", "r2"}
  Secrets = {"token"}
  MaxRequests = 1
  Tabs = {"tab"}
  Restricted = {"bus"}
  OptionSets <- MCOptionSets
  PageEvents <- MCEvents
  FlushBatch = 2
  null = null
  MaxTasks = 2
  MaxSessions = 2
  MaxMoves = 3
INVARIANTS
  TypeOK
  QueueKept
  DetachToldOnce
  RulesInForce
  CaptureIsShown
PROPERTIES
  DetachIsTold
CHECK_DEADLOCK FALSE
