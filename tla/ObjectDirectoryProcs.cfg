CONSTANTS
  NEntries = 3
  HdrRoom = 1
  FrameRoom = 1
  NReserved = 2
  NProcFrames = 1
  NDirty = 0
  NCleaning = 2
  MaxLid = 6
SPECIFICATION Spec
INVARIANT ProcDirIntact
CHECK_DEADLOCK FALSE
