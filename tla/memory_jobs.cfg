SPECIFICATION Spec
CONSTANTS
  Thread = {t1}
  Extractor = {e1, e2}
  Consolidator = {c1, c2}
  None = None
  Lease = 1
  RetryDelay = 1
  Cooldown = 1
  Retries = 1
  MaxRunning = 1
  MaxUpdates = 2
  MaxTokens = 3
SYMMETRY Symmetry
CHECK_DEADLOCK FALSE
INVARIANT TypeOK
INVARIANT NoUpdateMissed
INVARIANT ForgottenStaysForgotten
PROPERTY OutputNeverOlder
PROPERTY ConsolidationsInOrder
