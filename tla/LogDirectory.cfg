CONSTANTS
  v1 = v1
  v2 = v2
  MaxOid = 3
  Version = {v1, v2}
  VersionsOf <- OneRescinded
  Loc = {10}
  StaleLoc = {10}
  MaxGen = 3
  NumGenerations = 2
  NumEntries = 3
SPECIFICATION Spec
INVARIANTS
  ChainsExact
  QuietScanComplete
  AvailableExact
CHECK_DEADLOCK FALSE
