SPECIFICATION Spec
CONSTANTS
  Loggers = {g1, g2}
  Brokers = {b1}
  Endpoint = b1
  QueueSize = 2
  MaxLogged = 4
PROPERTIES
  QueueDrains
CHECK_DEADLOCK FALSE
