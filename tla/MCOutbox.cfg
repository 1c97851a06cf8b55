CONSTANTS
  MaxEvents = 2
  Dispatchers = {d1, d2}
  Limit = 2
  HandlersFail = TRUE
  Daemons = {p1, p2}
  NoDaemon = NoDaemon
  Doctor = Doctor
  StepCount = 4
  Definitions <- Workflows
  MaxRetries = 1
  MaxParallel = 2
SPECIFICATION MCSpec
INVARIANTS
  DeliveredOnce
  UndoneInReverse
PROPERTIES
  CommittedSettles
  LockIsRecovered
  WorkflowEndsWhole
CHECK_DEADLOCK FALSE
