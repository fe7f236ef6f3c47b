SPECIFICATION Spec
CONSTANTS
  Logins = {p1, p2}
  Editors = {e1}
  Relays = {r1, r2}
  SharedName = TRUE
  MaxTokens = 3
  None = None
SYMMETRY RelaySymmetry
INVARIANT CreatedKeyIsMine
CHECK_DEADLOCK FALSE
