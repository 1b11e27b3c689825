SPECIFICATION FairRefreshSpec
CONSTANTS
  a0 = a0  a3 = a3  b0 = b0  b3 = b3  c3 = c3
  A = A  r1 = r1  runner = runner  rest = rest
  None = None
  Ids <- MCIds
  Types <- OneType
  Revisions <- OneRevision
  RCs <- NoRevision
  DeviceTypeOf <- MCDeviceTypeOf
  RevisionOf <- MCRevisionOf
  DateOf <- MCDateOf
  ReleaseOf <- MCReleaseOf
  Threads <- OnlyRunner
  Word = 8
  Batch = 2
  MaxNotes = 0
  MaxFaults = 0
  Runner = runner
  Staging = {1}
  CompatibleOf <- MCCompatibleOf
  TimestampOf <- MCTimestampOf
  UploadDates = {3}
  Manifests = {"good", "malformed"}
  PageSize = 2
  MaxAge = 3
  MinNow = 6
  MaxNow = 7
  MaxChanges = 2
INVARIANTS
  RefreshInvariant
  Synced
PROPERTY
  RefreshEnds
CHECK_DEADLOCK FALSE
