CONSTANTS
  Oid = {o1, o2, o3}
  Value = {null, a}
  Null = null
  HomeValue <- HomeNull
  NFrames = 3
  PotSize = 2
  NCleaning = 1
  MaxLid = 3
  MaxStores = 3
  MaxGrab = 1
  NoOid = NoOid
  NoPicture = NoPicture
SPECIFICATION Spec
SYMMETRY OidSymmetry
INVARIANTS
  KRONodesExact
  CursorSkipsNone
  PictureKept
  Recoverable
PROPERTIES
  OnlyStoresChange
  ImplementsStore
