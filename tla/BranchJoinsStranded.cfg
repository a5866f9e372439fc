SPECIFICATION Spec
CONSTANTS
  b1 = b1
  b2 = b2
  c1 = c1
  c2 = c2
  c3 = c3
  c4 = c4
  Branches <- BranchSet
  Children <- ChildSet
  NumTurns = 3
  ChildTurns = 2
  Plans <- FreePlans
INVARIANTS
  DrainedWhenOver
