CONSTANTS
  MaxJobs = 2
  Keys = {k1}
  NoKey = NoKey
  MaxAttempts = 2
  Concurrency = 2
  MaxRuns = 3
  MaxRestarts = 0
SPECIFICATION Spec
INVARIANT ConcurrencyRespected
