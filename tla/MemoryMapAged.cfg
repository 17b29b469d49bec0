SPECIFICATION Spec
CONSTANTS
  p = p
  q = q
  ga = ga
  gb = gb
  gd = gd
  px = px
  py = py
  c1 = c1
  c2 = c2
  Flpt = Flpt
  None = None
  PidInProgress = PidInProgress
  Proc = {p, q}
  Gpt = {ga, gb, gd}
  Page = {px, py}
  Cpt = {c1, c2}
  Span <- TwoLevels
  NSlots = 2
  SectionSize = 2
  SpaceSize = 4
  NSpaces = 2
  NSteal = 1
  BucketSize = 3
  SlotTag <- Tags
  KeysOf <- ReadOnlyKeys
  InitTree <- ReadOnlyTree
  VaOf <- OneAddress
  MaxDepth = 3
  Aged = {ga, gb, gd, px, py}
  Quiet = {}
  MaxEvents = 1
INVARIANT
  WritesAllowed
CHECK_DEADLOCK FALSE
