CONSTANTS
  NEntries = 11
  HdrRoom = 2
  FrameRoom = 2
  NReserved = 4
  NProcFrames = 1
  NDirty = 4
  NCleaning = 3
  MaxLid = 19
SPECIFICATION FairSpec
INVARIANTS
  DirectoryComplete
  FramesHeld
PROPERTY DirectoryGetsWritten
CHECK_DEADLOCK FALSE
