CONSTANTS
  c1 = c1
  c2 = c2
  w1 = w1
  w2 = w2
  Cycles = {c1, c2}
  Workers = {w1}
  LeaseSeconds = 1
  NoCycle = NoCycle
  NoOwner = NoOwner
  Projects = TRUE
  Paused = FALSE
  Cancellable = {c1, c2}
  MaxStalls = 0
  MaxFaults = 0
SPECIFICATION FairSpec
PROPERTIES
  IdleTakesOver
CHECK_DEADLOCK FALSE
