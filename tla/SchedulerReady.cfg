SPECIFICATION Spec
CHECK_DEADLOCK FALSE
CONSTANTS
  Bosses = {claude, codex}
  NoBoss = NoBoss
  None = None
  Cap = 2
  MaxTasks = 4
  MaxSteps = 6
  StartStatuses <- MCReadyStarts
INVARIANTS CapRespected CountsAgree StopsForCause RunReachesDecision
PROPERTY RunEnds
