SPECIFICATION RestartSpec
CONSTANTS
  p1 = p1
  p2 = p2
  n1 = n1
  a1 = a1
  a2 = a2
  a3 = a3
  None = None
  Proc = {p1, p2, n1}
  Persistent = {p1, p2}
  Started = {n1}
  Activity = {a1, a2, a3}
  Operations = {}
  MaxCount = 0
  MaxRestarts = 1
SYMMETRY Perms
INVARIANTS
  StatesAgree
  ResumeKeysExact
PROPERTY
  NobodyStranded
CHECK_DEADLOCK FALSE
