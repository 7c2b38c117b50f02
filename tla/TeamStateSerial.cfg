SPECIFICATION Spec
CONSTANTS
  claude = claude
  codex = codex
  p1 = p1
  p2 = p2
  Bosses = {claude, codex}
  NoBoss = NoBoss
  Null = Null
  Callers = {p1, p2}
  BossOf <- MCBossOf
  Cap = 2
  Serial = TRUE
  MaxTurn = 3
  MaxFeatures = 3
INVARIANTS FlagMeansCapReached
PROPERTIES ImplementsTurnLock
