CONSTANTS
  t1 = t1
  t2 = t2
  t3 = t3
  r1 = r1
  Callers = {t1, t2, t3}
  Passes = {t1}
  Renewers = {}
  NoCaller = NoCaller
  NoEntry = NoEntry
  MaxGeneration = 1
SPECIFICATION ReuseSpec
INVARIANTS
  CacheIsCurrent
