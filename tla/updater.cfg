SPECIFICATION FairSpec
CONSTANTS
  d1 = d1  d2 = d2  None = None
  Devices <- MCDevices
  Word = 8  Window = 1  MaxTime = 2  MaxRequests = 2
INVARIANTS
  SettingsKnown
  OncePerRequest
PROPERTIES
  QuietAfterStop
  UpdaterProgress
CHECK_DEADLOCK FALSE
