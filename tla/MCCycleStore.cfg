CONSTANTS
  c1 = c1
  c2 = c2
  c3 = c3
  o1 = o1
  o2 = o2
  Cycles = {c1, c2, c3}
  Owners = {o1, o2}
  Markets = {"NSE", "ETF"}
  MarketOf <- MCMarketOf
  LeaseSeconds = 2
  NoCycle = NoCycle
  NoOwner = NoOwner
SPECIFICATION Spec
INVARIANTS
  TypeOK
  SlotConsistent
  LeaseHeldByOwner
  PublishedStands
PROPERTIES
  EndIsFinal
  LiveLeaseIsExclusive
  ImplementsLifecycle
CHECK_DEADLOCK FALSE
SYMMETRY Symmetry
