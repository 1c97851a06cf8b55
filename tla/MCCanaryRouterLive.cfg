CONSTANTS
  Procs = {p1, p2}
  Candidates = {v1}
  Base = base
  NoVersion = NoVersion
  s1 = s1
  Sessions = {s1}
  SplitCounts1 = {0}
  InSplit <- Splits
  Strategies = {"shadow", "traffic_split"}
  OutcomeKinds <- MildKinds
  FailureThreshold = 2
  ErrorPct = 5
  MismatchPct = 1
  MaxCalls = 2
  DbFails = TRUE
  OmitStable = FALSE
SPECIFICATION FairSpec
INVARIANTS
  BreachIsHandled
PROPERTIES
  QuarantineGrows
  BreachEndsTraffic
