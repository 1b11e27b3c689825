SPECIFICATION FairSpec
CONSTANTS
  first = first  second = second
  None = None
  Connections <- TwoConnections
  Asynch = TRUE
  MaxLog = 1
INVARIANTS
  WebSocketInvariant
  WelcomeFirst
PROPERTIES
  LockIsReleased
  EndedAreErased
CHECK_DEADLOCK FALSE
