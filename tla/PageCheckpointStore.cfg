CONSTANTS
  Page = {p1, p2}
  Value = {zero, a}
  Zero = zero
  HomeValue <- AllZero
  NCleaning = 2
  MaxLid = 4
  Reserve = 2
  MayFail = TRUE
  Zeroable = {p1}
  NoPicture = NoPicture
SPECIFICATION Spec
INVARIANTS
  RootsSafe
  PoolConserved
PROPERTIES
  ImplementsStore
