SPECIFICATION Spec
CONSTANTS
  Users = {"ann"}
  NoUser = ""
  Sources = {"api", "web"}
  MaxVisible = 1
  null = null
  ChanCap = 1
  MaxCalls = 2
  MaxPublish = 2
  MaxMoves = 2
INVARIANTS
  TypeOK
  NothingWithheldIsKept
  CaughtUp
PROPERTIES
  ComesOnline
CHECK_DEADLOCK FALSE
