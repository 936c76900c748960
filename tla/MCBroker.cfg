SPECIFICATION FairSpec
CONSTANTS
  Sources = {"app"}
  NoSource = ""
  MaxRecords = 2
  Publishers = {p1, p2}
  HTTPPublishers = {p2}
  Streams = {sse}
  HTTPStreams = {sse}
  Filters <- MCFilters
  Levels = {"err"}
  ChanCap = 1
  MaxPublish = 3
INVARIANTS
  RingIsNewest
  WireKeepsPublisherOrder
  ReplayThenLive
  LossOnlyWhenFull
  NothingExpungedReturns
PROPERTIES
  ImplementsLogBus
  PublishReturns
  HTTPStreamReleased
CHECK_DEADLOCK FALSE
