\* Two connections that overlap, channels of one item, transactions of SQLite that
\* fail, and a restart of the server.  One CAN id: each is throttled by itself.
CONSTANTS
  Conns = {c1, c2}
  CanIds = {speed}
  QueueCap = 1
  FlushAt = 2
  Throttle = 2
  MaxFrames = 3
  Faults = {"sqlite", "crash"}
SPECIFICATION FairSpec
INVARIANTS TypeOK NoUnexplainedLoss RowsInOrderOnce
PROPERTIES ConsumersAreServed
CHECK_DEADLOCK FALSE
