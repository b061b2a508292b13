CONSTANTS
  a1 = a1
  a2 = a2
  a3 = a3
  b1 = b1
  b2 = b2
  t1 = t1
  Callers = {t1, b1, b2}
  Passes = {t1}
  Renewers = {}
  NoCaller = NoCaller
  NoEntry = NoEntry
  MaxGeneration = 2
  Calls = {a1, a2, a3}
  Requirements = {b1, b2}
  Evidence = {b1, b2}
  MaxScans = 5
  Users = {a1, a2, a3}
  Operators = {b1, b2}
  Nobody = Nobody
  MaxChanges = 4
  Requesters = {a1, a2, a3}
  Connectors = {b1, b2}
  NoConnector = NoConnector
  MaxSessions = 3
  MaxRequests = 4
  Instruments = {t1}
  Syncs = {a1, a2, a3}
  NoSync = NoSync
SPECIFICATION ServicesSpec
INVARIANTS
  ServicesTypeOK
  MemoIsCurrent
  CacheMissesOnlyOverlap
  OverlapOnlyByFollowers
  ProjectionTellsHistory
  AuthorsWereAdmins
  GatewaysAccounted
  HoldingsFollowSnapshot
PROPERTIES
  ReplayIsSilent
  LastAdminStands
  ImplementsAtomicRoles
CHECK_DEADLOCK FALSE
SYMMETRY Symmetry
