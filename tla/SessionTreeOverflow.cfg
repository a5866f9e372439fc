SPECIFICATION Spec
CONSTANTS
  NoTree = NoTree
  NoRoot = NoRoot
  Roots = {r1, r2, r3}
  Children = {c1, c2}
  NumLanes = 2
  MaxTurns = 2
INVARIANTS
  TruncatedRootsRelease
CHECK_DEADLOCK FALSE
