SPECIFICATION FairSpec
CONSTANTS
  conn = conn  registry = registry
  None = None
  Handlers <- OneHandler
  Registry = registry
  Watchers <- TwoTopics
  MaxMessages = 1
  MaxFaults = 1
  MaxKeepAlives = 1
  MaxCrashes = 1
INVARIANTS
  ServiceInvariant
  DeliveryAccounted
  EventsInOrder
PROPERTY
  StopEnds
CHECK_DEADLOCK FALSE
