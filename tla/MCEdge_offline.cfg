\* Nothing but the connection fails.
CONSTANTS
  MaxFrame = 3
  ChanCap = 2
  BatchSize = 2
  SqliteCap = 2
  FlushAt = 2
  SyncLimit = 2
  NetCap = 1
  MaxCopies = 3
  Conns = {c1}
  NoConn = NoConn
  Faults = {}
SPECIFICATION Spec
PROPERTIES
  OfflineFramesAreBackedUp
CHECK_DEADLOCK FALSE
