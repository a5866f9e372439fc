SPECIFICATION Spec
CONSTANTS
  Warmup = {1}
  Profiling = {2, 3}
  GraceFloor = 1
  MaxFailures = 1
  PerRequests = 2
  Setups <- OneTrouble
  NotFrozen = NotFrozen
INVARIANT TypeOK
INVARIANT RecordsInLockstep
INVARIANT ExportedResultsWhole
INVARIANT StopsOnce
INVARIANT AbortIsAnError
PROPERTY RunEnds
CHECK_DEADLOCK FALSE
