SPECIFICATION Spec
CONSTANTS
  NoLimit = NoLimit
  s1 = s1
  s2 = s2
  s3 = s3
  Sessions <- TwoSessions
  NumTurns <- TwoTurnsEach
  SessionLimit = 2
  PrefillLimit = 1
  Plans <- DurationPlans
  MayCrash = FALSE
  MayCancel = FALSE
INVARIANTS
  SlotsReturnedAtCleanup
CHECK_DEADLOCK FALSE
