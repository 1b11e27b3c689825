SPECIFICATION Spec
CONSTANTS
  i1 = i1  i2 = i2  A = A  B = B
  r1 = r1  r2 = r2  r3 = r3  t1 = t1  t2 = t2
  None = None
  Ids <- TwoIds
  Types <- MCTypes
  Revisions <- MCRevisions
  RCs <- MCRCs
  DeviceTypeOf <- TwoDeviceTypeOf
  RevisionOf <- TwoRevisionOf
  DateOf <- TwoDateOf
  ReleaseOf <- TwoReleaseOf
  Threads <- MCThreads
  Word = 8
  Batch = 1
  MaxNotes = 1
  MaxFaults = 1
INVARIANTS
  CacheCoversDB
  AgeNeverWraps
  OneLatestFlag
PROPERTIES
  AnyImageSpec
  CandidateImageSpec
SYMMETRY Symmetry
