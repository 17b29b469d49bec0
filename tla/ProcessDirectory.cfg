CONSTANTS
  Oid = {p1, p2, p3, p4, p5, p6}
  MaxCount = 2
  MaxResume = 3
  HdrRoom = 1
  FrameRoom = 2
  NActivity = 4
  MinReserved = 1
SPECIFICATION Spec
SYMMETRY OidSymmetry
INVARIANTS
  OneEntryEach
  WakesRight
  AssertionsHold
CHECK_DEADLOCK FALSE
