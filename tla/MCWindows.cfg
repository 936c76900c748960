SPECIFICATION Spec
CONSTANTS
  Rows <- MCRows
  NoSource = ""
  null = null
  Targets <- MCTargets
  WindowName <- MCWindowName
  Levels = {"info"}
  Names = {"bug", "Bug"}
  Key <- MCKey
  MaxMoves = 4
INVARIANTS
  TypeOK
  WindowsAgree
  EachRowHasItsPlace
PROPERTIES
  PopoutCloses
  WorkspacesKept
CHECK_DEADLOCK FALSE
