CONSTANTS
  callA = callA
  callA1 = callA1
  callA2 = callA2
  callA11 = callA11
  callB = callB
  Txs = {callA, callA1, callA2, callA11, callB}
  NoTx = NoTx
  Parent <- Nesting
  Overlap = FALSE
  MaxCrashes = 1
  Tools = {"tool"}
  Versions = {1, 2}
  NoVersion = 0
  Sync = "sync"
  Orders <- AllOrders
  LookBack = 1
  MaxTime = 4
  MaxQueue = 2
  MaxReconciles = 1
  MaxDisturbances = 1
SPECIFICATION MCSpec
INVARIANTS
  TypesOK
  
  RunsOnce
PROPERTIES
  AtomicSpec
  RollbackMovesOn
  CommandsAnswered

CHECK_DEADLOCK FALSE
