SPECIFICATION FairSpec
CONSTANTS
  s1 = s1  rA = rA  rB = rB  rC = rC
  None = None
  Serials <- MCSerials
  Revisions <- MCRevisions
  MaxMessages = 4
  MaxFaults = 1
INVARIANTS
  HistoryConnects
  HistoryHasDevice
PROPERTIES
  NoResurrection
  Handled
CHECK_DEADLOCK FALSE
