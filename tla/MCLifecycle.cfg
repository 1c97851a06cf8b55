CONSTANTS
  p1 = p1
  p2 = p2
  Procs = {p1, p2}
  MaxRevs = 2
  MaxAttempt = 2
  MaxRepairs = 2
  ValidationRepairs = 1
  RetryBudget = 1
SPECIFICATION Spec
SYMMETRY ProcSymmetry
INVARIANTS
  EvidenceIsOfActiveRevision
  OnlyVettedPublished
  WaitingHasEvent
  RepairsAreBounded
PROPERTY ProgressIsMonotonic
