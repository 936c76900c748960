SPECIFICATION Spec
CONSTANTS
  Loggers = {g1}
  Brokers = {b1}
  QueueSize = 1
  MaxLogged = 1
  MaxGeneration = 1
PROPERTIES
  DisableClosesPublisher
CHECK_DEADLOCK FALSE
