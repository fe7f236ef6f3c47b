SPECIFICATION Spec
CONSTANTS
  Stream = {s1, s2}
  None = None
  Capacity = 2
  MaxLog = 4
  MaxConnections = 2
  MaxDrops = 1
  MaxTimeouts = 1
  MaxTraffic = 3
SYMMETRY Symmetry
CHECK_DEADLOCK FALSE
INVARIANT TypeOK
INVARIANT EventsWellFormed
INVARIANT NoOrphan
INVARIANT DeliveredInSequence
INVARIANT NothingLost
INVARIANT ReceivedInOrder
