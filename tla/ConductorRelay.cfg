SPECIFICATION Spec
CONSTANTS
  Sessions = {s1, s2}
  None = None
  Hosts = {"tmux", "headless"}
  DeadSessionValve = 2
  MaxTurn = 2
  MaxCrashes = 1
INVARIANTS TypeOK OneBoss ValveBoundsWaste
PROPERTIES BatonPickedUp WatchedOrphanSurfaced
