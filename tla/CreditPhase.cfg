SPECIFICATION Spec
CONSTANTS
  NoLimit = NoLimit
  s1 = s1
  s2 = s2
  s3 = s3
  Sessions <- MCSessions
  NumTurns <- MCNumTurns
  SessionLimit = 2
  PrefillLimit = 1
  Plans <- AllPlans
  MayCrash = TRUE
  MayCancel = TRUE
INVARIANTS
  TypeOK
  StopConditionsHold
  SlotsAccounted
  CountedPhasesReturnSlots
  PlanSentInFull
PROPERTIES
  ImplementsContract
  PhaseEnds
CHECK_DEADLOCK FALSE
