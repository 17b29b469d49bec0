CONSTANTS
  Oid = {o1, o2}
  Value = {null, a}
  Null = null
  HomeValue <- HomeNull
  NFrames = 2
  PotSize = 2
  NCleaning = 3
  MaxLid = 3
  MaxStores = 3
  MaxGrab = 1
  NoOid = NoOid
  NoPicture = NoPicture
SPECIFICATION Spec
SYMMETRY OidSymmetry
INVARIANT PotsNotKRO
