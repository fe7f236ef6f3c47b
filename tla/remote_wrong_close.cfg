SPECIFICATION Spec
CONSTANTS
  Stream = {s1}
  None = None
  Capacity = 2
  MaxLog = 2
  MaxConnections = 2
  MaxDrops = 0
  MaxTimeouts = 0
  MaxTraffic = 0
CHECK_DEADLOCK FALSE
INVARIANT OwnConnectionClosed
