SPECIFICATION Spec
CONSTANTS
  Logins = {p1, p2}
  Editors = {e1}
  Relays = {r1, r2}
  SharedName = FALSE
  MaxTokens = 3
  None = None
SYMMETRY RelaySymmetry
INVARIANTS TypeOK ConfigCoherent CreatedKeyIsMine FailedLeavesNoTrace
CHECK_DEADLOCK FALSE
