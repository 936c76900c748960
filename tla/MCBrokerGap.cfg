SPECIFICATION Spec
CONSTANTS
  Sources = {"app"}
  NoSource = ""
  MaxRecords = 2
  Publishers = {p1, p2}
  HTTPPublishers = {p2}
  Streams = {tcp}
  HTTPStreams = {}
  Filters <- MCAll
  Levels = {"err"}
  ChanCap = 2
  MaxPublish = 2
INVARIANTS
  NoGapAfterReplay
CHECK_DEADLOCK FALSE
