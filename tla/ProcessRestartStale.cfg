SPECIFICATION RestartSpec
CONSTANTS
  p1 = p1
  n1 = n1
  a1 = a1
  a2 = a2
  None = None
  Proc = {p1, n1}
  Persistent = {p1}
  Started = {p1}
  Activity = {a1, a2}
  Operations = {"rescind"}
  MaxCount = 1
  MaxRestarts = 1
INVARIANT
  StaleActivityDeleted
CHECK_DEADLOCK FALSE
