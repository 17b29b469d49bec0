CONSTANTS
  Page = {p1}
  Value = {zero, a}
  Zero = zero
  HomeValue <- AllZero
  NCleaning = 2
  MaxLid = 5
  Reserve = 1
  MayFail = TRUE
  Zeroable = {p1}
  NoPicture = NoPicture
SPECIFICATION FairSpec
INVARIANTS
  TypeOK
  PictureKept
  KROCountExact
  PageStatesOfTable
  Recoverable
PROPERTY CheckpointEnds
