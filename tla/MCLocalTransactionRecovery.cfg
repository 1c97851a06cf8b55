CONSTANTS
  callA = callA
  callA1 = callA1
  callA2 = callA2
  callA11 = callA11
  callB = callB
  Txs = {callA, callA1, callA2, callB}
  NoTx = NoTx
  Parent <- Siblings
  Overlap = TRUE
  MaxCrashes = 1
  MaxLines = 4
  MaxRotations = 1
  MaxRestarts = 1
  Capacity = 2
  HighWater = 2
  LowWater = 0
  BatchSize = 2
  Daemons = {d1, d2, d3}
  NoDaemon = NoDaemon
  Doctor = Doctor
  w1 = w1
  w2 = w2
  v1 = v1
  v2 = v2
  Workspaces = {w1, w2}
  Versions = {v1, v2}
  Shared = {v1}
  Requests = {q1, q2}
  Absent = Absent
  None = None
  MaxOps = 2
  Limits <- CatalogLimits
SPECIFICATION MCSpec
INVARIANTS
  Recovers
  TypesOK
  
  LockExclusive
  CacheIsCurrent
PROPERTIES
  
  
  ClientsCatchUp

CHECK_DEADLOCK FALSE
