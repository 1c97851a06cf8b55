CONSTANTS
  Procs = {p1, p2}
  Candidates = {v1, v2}
  Base = base
  NoVersion = NoVersion
  s1 = s1
  Sessions = {s1}
  SplitCounts1 = {0, 2}
  InSplit <- Splits
  Strategies = {"traffic_split"}
  OutcomeKinds <- Faulty
  FailureThreshold = 2
  ErrorPct = 5
  MismatchPct = 1
  MaxCalls = 1
  DbFails = FALSE
  OmitStable = TRUE
  Workers = {w1, w2}
  Releases = {r1, r2}
  FirstVersion = r0
  NoOverride = NoOverride
  Disabled = Disabled
  Pins = {r0}
  MinInvocations = 1
  MaxFailures = 0
  RequiredClean = 2
  AutoPromotion = TRUE
  Limits <- RolloutLimits
SPECIFICATION MCSpec
SYMMETRY Symmetric
INVARIANTS
  TypesOK
  OnlyRacingRegistrationRevives
  HardSignalEndsExposure
PROPERTIES
  DecisionsHold
  
  ServesGoodVersion
CHECK_DEADLOCK FALSE
