SPECIFICATION Spec
CONSTANTS
  Sources = {"a"}
  MaxRecords = 2
  ReplayPerSource = 2
  RecordsCap = 1
  MaxPublish = 2
  MaxLosses = 1
  MaxPerSource = 2
  EventsCap = 1
  Keys = {}
INVARIANTS
  OneChronologicalStream
CHECK_DEADLOCK FALSE
