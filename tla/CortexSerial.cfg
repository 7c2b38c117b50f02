SPECIFICATION Spec
CONSTANTS
  None = None
  Ids = {o1, o2, o3}
  t = t
  u = u
  v = v
  Topics = {t, u, v}
  Near <- MCNear
  Ttl <- MCTtl
  PromoteAt = 1
  Projects = {"", "own", "other"}
  Own = "own"
  Procs = {p}
  Sessions = {s}
  commit = commit
  Events = {commit}
  Floor <- MCFloor
  MinEvents = 1
  Tier3 = TRUE
  Reported = {"temporary", "archive"}
  MaxTime = 1
  MaxUses = 1
  MaxDeaths = 1
  Spare = 1
SYMMETRY Symmetry
CONSTRAINT OneWorld
INVARIANTS TypeOK GateAsksOnce ReplacedAreMarked InjectsNothingExpired ReplayNeverOvershoots
PROPERTIES FloorBeforeForget InsertsNoTwin
