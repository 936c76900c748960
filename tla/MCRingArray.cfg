SPECIFICATION Spec
CONSTANTS
  Sources = {"app", "db"}
  NoSource = ""
  MaxRecords = 2
  Publishers = {p1}
  Filters <- MCFilters
  Levels = {"trace", "ERROR"}
  MaxPublish = 5
INVARIANTS
  ReplayIsSpecified
PROPERTIES
  ExpungeAnswersRemoved
  ImplementsRetention
CHECK_DEADLOCK FALSE
