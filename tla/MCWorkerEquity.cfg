CONSTANTS
  c1 = c1
  c2 = c2
  w1 = w1
  w2 = w2
  Cycles = {c1}
  Workers = {w1, w2}
  LeaseSeconds = 1
  NoCycle = NoCycle
  NoOwner = NoOwner
  Projects = TRUE
  Paused = FALSE
  Cancellable = {c1}
  MaxStalls = 1
  MaxFaults = 0
SPECIFICATION Spec
INVARIANTS
  TypeOK
  OneRunner
  CompletedIsProjected
  NoLateCancel
PROPERTIES
  ImplementsStore
  AsOfStable
CHECK_DEADLOCK FALSE
SYMMETRY Symmetry
