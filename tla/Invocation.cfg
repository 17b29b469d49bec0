SPECIFICATION Spec
CONSTANTS
  p1 = p1
  p2 = p2
  p3 = p3
  a1 = a1
  a2 = a2
  a3 = a3
  None = None
  Proc = {p1, p2, p3}
  Persistent = {p1}
  Started = {p1}
  Activity = {a1, a2, a3}
  Operations = {"send", "makeResumeKey", "rescind", "swapSchedule"}
  MaxCount = 1
SYMMETRY Perms
INVARIANTS
  OneActivityEach
  StatesAgree
  ResumeKeysExact
  NoLostWakeUp
CHECK_DEADLOCK FALSE
