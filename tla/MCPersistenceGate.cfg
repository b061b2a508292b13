CONSTANTS
  t1 = t1
  t2 = t2
  t3 = t3
  r1 = r1
  Callers = {t1, t2, t3}
  Renewers = {r1}
  NoCaller = NoCaller
  MaxGeneration = 2
SPECIFICATION FairSpec
INVARIANTS
  ThreadKeepsSlot
  SlotNotLost
PROPERTIES
  CallsEnd
  ImplementsSerialStore
