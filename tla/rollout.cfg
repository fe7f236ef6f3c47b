SPECIFICATION Spec
CONSTANTS
  Process = {p1, p2}
  Item = {a, b}
  Meta = Meta
  Junk = Junk
  None = None
  MaxBatch = 2
  MaxFailures = 2
  MaxCrashes = 1
SYMMETRY Symmetry
CHECK_DEADLOCK FALSE
INVARIANT TypeOK
INVARIANT AckedReadableUnlessOverlapped
INVARIANT HistoryInOrder
INVARIANT NeverGone
PROPERTY ImplementsDurableLog
