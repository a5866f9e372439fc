SPECIFICATION Spec
CONSTANTS
  Warmup = {1}
  Profiling = {2, 3}
  GraceFloor = 1
  MaxFailures = 1
  PerRequests = 2
  Setups <- OneTrouble
  NotFrozen = NotFrozen
PROPERTY NothingIssuedAfterCancel
CHECK_DEADLOCK FALSE
