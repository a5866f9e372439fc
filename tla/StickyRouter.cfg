SPECIFICATION Spec
CONSTANTS
  NoEntry = NoEntry
  NoWorker = NoWorker
  Workers = {w1, w2, w3}
  Roots = {r1, r2}
  Children = {c1, c2}
  NumTurns = 2
  Modes = {"fork", "spawn"}
SYMMETRY Symmetry
INVARIANTS
  TypeOK
  CreditsAccounted
  LeastLoadIndexed
  StickyAccounted
  EntriesJustified
PROPERTIES
  RootsKeepWorker
  ForkedChildrenFollow
CHECK_DEADLOCK FALSE
