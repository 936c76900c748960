SPECIFICATION Spec
CONSTANTS
  Sources = {"a"}
  MaxRecords = 2
  ReplayPerSource = 2
  RecordsCap = 1
  MaxPublish = 1
  MaxLosses = 2
  MaxPerSource = 2
  EventsCap = 1
  Keys = {"q"}
PROPERTIES
  ComesOnline
  OnlineIsTrue
  StreamEnds
CHECK_DEADLOCK FALSE
