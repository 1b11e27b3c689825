SPECIFICATION Spec
CONSTANTS
  old = old  new = new  myself = myself
  None = None
  Peers <- TwoPeers
  Me = myself
  EndPointOf <- Shared
  MaxAge = 2
  MaxLag = 1
  MaxQueue = 2
  MaxIds = 2
INVARIANTS
  RegistryInvariant
  DeadAreForgotten
PROPERTY
  IdentityKept
CHECK_DEADLOCK FALSE
