SPECIFICATION Spec
CONSTANTS
  r1 = r1  r2 = r2  r3 = r3  image = image  entry = entry
  listed = listed  refresher = refresher
  None = None
  Requests <- ThreeRequests
  Images = {image}
  Entries = {entry}
  Runner = refresher
  Listed = {listed}
  Scenarios <- BoundedScenarios
INVARIANTS
  RequestInvariant
  AnswerTellsOutcome
  NotesKept
PROPERTIES
  NothingWithoutAuthorization
CHECK_DEADLOCK FALSE
