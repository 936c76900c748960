SPECIFICATION Spec
CONSTANTS
  Loggers = {g1}
  Brokers = {b1, b2}
  QueueSize = 1
  MaxLogged = 3
  MaxGeneration = 2
INVARIANTS
  LeavesOnceInOrder
  SentWhereConfigured
  DisabledIsQuiet
PROPERTIES
  NothingAfterClose
  CloseIsAnswered
CHECK_DEADLOCK FALSE
