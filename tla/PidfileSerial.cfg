SPECIFICATION PidfileSpec
CHECK_DEADLOCK FALSE
CONSTANTS
  Procs = {p1, p2, p3, p4}
  NoPid = NoPid
  SerialStart = TRUE
SYMMETRY MCSymmetry
INVARIANTS OneConductor ClaimKept NoManualCleanup
