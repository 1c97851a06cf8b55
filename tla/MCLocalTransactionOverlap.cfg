CONSTANTS
  callA = callA
  callA1 = callA1
  callA2 = callA2
  callA11 = callA11
  callB = callB
  Txs = {callA, callB}
  NoTx = NoTx
  Parent <- Flat
  Overlap = TRUE
  MaxCrashes = 1
SPECIFICATION Spec
INVARIANT ThrownLeavesNothing

CHECK_DEADLOCK FALSE
