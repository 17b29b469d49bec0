SPECIFICATION Spec
CONSTANTS
  p = p
  q = q
  ga = ga
  gb = gb
  gd = gd
  px = px
  py = py
  c1 = c1
  c2 = c2
  Flpt = Flpt
  None = None
  PidInProgress = PidInProgress
  Proc = {p, q}
  Gpt = {ga, gb, gd}
  Page = {px, py}
  Cpt = {c1, c2}
  Span <- TwoLevels
  NSlots = 2
  SectionSize = 2
  SpaceSize = 4
  NSpaces = 2
  NSteal = 1
  BucketSize = 3
  SlotTag <- Tags
  KeysOf <- SmallTreeKeys
  InitTree <- SmallTree
  VaOf <- FarAddresses
  MaxDepth = 3
  Aged = {ga, gb, gd, px, py}
  Quiet = {}
  MaxEvents = 1
INVARIANT
  TablesReleased
CHECK_DEADLOCK FALSE
