SPECIFICATION Spec
CONSTANTS
  Root = root
  Long = long
  Short = short
  Children <- TwoChildren
  NumTurns <- SmallTurns
  LastInstant = 2
PROPERTY UnresolvedJoinsResume
