SPECIFICATION Spec
CONSTANTS
  Process = {p1, p2}
  Item = {a, b}
  Meta = Meta
  Junk = Junk
  None = None
  MaxBatch = 2
  MaxFailures = 0
  MaxCrashes = 0
SYMMETRY Symmetry
CHECK_DEADLOCK FALSE
INVARIANT AckedReadable
