SPECIFICATION RefreshSpec
CONSTANTS
  a0 = a0  a3 = a3  b0 = b0  b3 = b3  c3 = c3
  A = A  r1 = r1  runner = runner  rest = rest
  None = None
  Ids <- OneNameIds
  Types <- OneType
  Revisions <- OneRevision
  RCs <- NoRevision
  DeviceTypeOf <- OneNameDeviceTypeOf
  RevisionOf <- OneNameRevisionOf
  DateOf <- OneNameDateOf
  ReleaseOf <- OneNameReleaseOf
  Threads <- OnlyRunner
  Word = 8
  Batch = 2
  MaxNotes = 0
  MaxFaults = 0
  Runner = runner
  Staging = {}
  CompatibleOf <- OneNameCompatibleOf
  TimestampOf <- OneNameTimestampOf
  UploadDates = {3}
  Manifests = {"good", "malformed"}
  PageSize = 2
  MaxAge = 3
  MinNow = 6
  MaxNow = 7
  MaxChanges = 2
INVARIANT InProgressIsTrue
CHECK_DEADLOCK FALSE
