CONSTANTS
  Procs = {p1, p2}
  Candidates = {v1}
  Base = base
  NoVersion = NoVersion
  s1 = s1
  Sessions = {s1}
  SplitCounts1 = {0}
  InSplit <- Splits
  Strategies = {"traffic_split"}
  OutcomeKinds <- Faulty
  FailureThreshold = 2
  ErrorPct = 5
  MismatchPct = 1
  MaxCalls = 2
  DbFails = FALSE
  OmitStable = TRUE
SPECIFICATION FlowSpec
PROPERTIES
  SplitKeepsFlowing
