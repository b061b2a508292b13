CONSTANTS
  c1 = c1
  c2 = c2
  w1 = w1
  w2 = w2
  Cycles = {c1, c2}
  Workers = {w1, w2}
  LeaseSeconds = 2
  NoCycle = NoCycle
  NoOwner = NoOwner
  Projects = TRUE
  Paused = TRUE
  Cancellable = {c1, c2}
  MaxStalls = 1
  MaxFaults = 1
SPECIFICATION Spec
INVARIANTS
  OneRunner
PROPERTIES
  ScansTakeTurns
CHECK_DEADLOCK FALSE
SYMMETRY Symmetry
