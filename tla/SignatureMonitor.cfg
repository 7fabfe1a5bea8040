CONSTANTS
  Requests = {r}
  MaxConnections = 3
  MaxRestarts = 1
  MaxFailures = 1
SPECIFICATION Spec
INVARIANTS
  NeverEarly
  HandledUnlessExcused
  HandledOnceUnlessExcused
  CleanedUpUnlessExcused
CHECK_DEADLOCK FALSE
