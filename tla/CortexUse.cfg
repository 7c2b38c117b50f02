SPECIFICATION Spec
CONSTANTS
  None = None
  Ids = {o1, o2, o3}
  t = t
  u = u
  v = v
  Topics = {t}
  Near <- MCNear
  Ttl <- MCTtl
  PromoteAt = 1
  Projects = {"own"}
  Own = "own"
  Procs = {p}
  Sessions = {s}
  commit = commit
  Events = {commit}
  Floor <- MCFloor
  MinEvents = 1
  Tier3 = TRUE
  Reported = {"temporary"}
  MaxTime = 1
  MaxUses = 1
  MaxDeaths = 1
  Spare = 1
SYMMETRY Symmetry
PROPERTY UseKeepsAlive
