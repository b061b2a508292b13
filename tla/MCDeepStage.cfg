CONSTANTS
  w1 = w1
  w2 = w2
  Workers = {w1, w2}
  NoWorker = NoWorker
  N = 3
  Concurrency = 2
  Lookahead = 2
  MaxAttempts = 2
  RepairPasses = 2
  Outcomes = {"analyzed", "technical", "exception"}
  MaxClaims = 2
  Stalls = FALSE
  RankerFails = FALSE
SPECIFICATION Spec
CHECK_DEADLOCK FALSE
INVARIANTS
  TypeOK
  OwnerKnowsRows
  BudgetHolds
  CountersExact
  EndedIsDurable
  LookaheadBounded
  NeverStuck
PROPERTIES
  WorkStands
SYMMETRY Symmetry
