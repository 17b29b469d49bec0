CONSTANTS
  v1 = v1
  v2 = v2
  MaxOid = 2
  Version = {v1, v2}
  VersionsOf <- OneRescinded
  Loc = {10, 20}
  StaleLoc = {20}
  MaxGen = 3
  NumGenerations = 2
  NumEntries = 2
SPECIFICATION Spec
INVARIANT
  JournalDescribed
CHECK_DEADLOCK FALSE
