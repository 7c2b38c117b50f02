SPECIFICATION Spec
CHECK_DEADLOCK FALSE
CONSTANTS
  Registry = {r1, r2}
  r1 = r1
  r2 = r2
  Agent = {"boss", "builder"}
  Boss = "boss"
  Elevated = {"delete", "touch_auth"}
  Plain = {"write_code", "run_tests"}
  Grants <- MCGrants
  Token = {t1, t2}
  t1 = t1
  t2 = t2
  NoToken = "no token"
  Unminted = "unminted"
  NoTask = "no task"
  Tasks = {"1.1"}
  Events <- MCEvents
  CallWorld <- MCCallWorld
  MaxCalls = 3
SYMMETRY MCSymmetry
INVARIANTS ChecksAccounted HookNoLaxer
