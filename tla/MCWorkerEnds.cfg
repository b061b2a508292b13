CONSTANTS
  c1 = c1
  c2 = c2
  w1 = w1
  w2 = w2
  Cycles = {c1}
  Workers = {w1, w2}
  LeaseSeconds = 1
  NoCycle = NoCycle
  NoOwner = NoOwner
  Projects = FALSE
  Paused = FALSE
  Cancellable = {c1}
  MaxStalls = 0
  MaxFaults = 0
SPECIFICATION FairSpec
PROPERTIES
  EveryRunEnds
CHECK_DEADLOCK FALSE
