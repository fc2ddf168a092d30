CONSTANTS
  MaxFrame = 3
  ChanCap = 2
  BatchSize = 2
  SqliteCap = 1
  FlushAt = 2
  SyncLimit = 2
  NetCap = 1
  MaxCopies = 3
  Conns = {c1, c2}
  NoConn = NoConn
  Faults = {"shutdown"}
SPECIFICATION FairSpec
INVARIANTS
  DeliveredInOrder
PROPERTIES
  ImplementsStoreForward
  FramesMoveOn
CHECK_DEADLOCK FALSE
