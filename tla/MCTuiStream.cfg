SPECIFICATION Spec
CONSTANTS
  Sources = {"a"}
  MaxRecords = 2
  ReplayPerSource = 2
  RecordsCap = 1
  MaxPublish = 3
  MaxLosses = 1
  MaxPerSource = 2
  EventsCap = 1
  Keys = {"p", "c", "x"}
INVARIANTS
  TypeOK
  OneRowPerRecord
  Chronological
  CaughtUp
PROPERTIES
  NoReaderLeftBehind
CHECK_DEADLOCK FALSE
