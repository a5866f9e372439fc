SPECIFICATION Spec
CONSTANTS
  Root = root
  Long = long
  Short = short
  Children <- TwoChildren
  NumTurns <- SmallTurns
  LastInstant = 2
INVARIANT TypeOK
INVARIANT StreamsKept
INVARIANT HistoryExact
INVARIANT RetainedWithReason
PROPERTY ImplementsOrder
INVARIANT EverythingReplayed
