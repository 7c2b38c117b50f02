SPECIFICATION PidfileSpec
CHECK_DEADLOCK FALSE
CONSTANTS
  Procs = {p1, p2}
  NoPid = NoPid
  SerialStart = FALSE
SYMMETRY MCSymmetry
INVARIANT OneConductor
