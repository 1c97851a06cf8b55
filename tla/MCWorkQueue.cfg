CONSTANTS
  MaxJobs = 2
  Keys = {k1}
  NoKey = NoKey
  MaxAttempts = 3
  Concurrency = 2
  MaxRuns = 3
  MaxRestarts = 1
  Uploads = {u1, u2}
  Batches <- Sent
  NoCursor = 0
  Handlers = 2
  MaxTries = 2
  MaxRefusals = 2
SPECIFICATION MCSpec
INVARIANTS
  TypesOK
  OneFate
  RetryBudgetExact
  RunsMatch
PROPERTIES
  SettledStaysSettled
  EveryJobSettles
  AcceptedIsStoredOnce
CHECK_DEADLOCK FALSE
