CONSTANTS
  MaxEvents = 2
  Dispatchers = {d1}
  Limit = 2
  HandlersFail = FALSE
SPECIFICATION Spec
INVARIANT CommittedIsKept
CHECK_DEADLOCK FALSE
