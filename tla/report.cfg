SPECIFICATION Spec
CONSTANTS
  g1 = g1  g2 = g2  g3 = g3
  Readers <- ThreeReaders
  Devices = {1, 2, 3}
  Seed = {2, 3}
  Batch = 1
  MaxAge = 0
  Word = 4
  MaxNow = 2
  MaxRequests = 3
  MaxChanges = 1
  MaxFaults = 1
INVARIANTS
  ReportInvariant
  CountedOnce
PROPERTIES
  CopiedIsRecent
  RefusedForCause
CHECK_DEADLOCK FALSE
SYMMETRY AnyReader
