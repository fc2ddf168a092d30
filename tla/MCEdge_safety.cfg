CONSTANTS
  MaxFrame = 3
  ChanCap = 2
  BatchSize = 2
  SqliteCap = 2
  FlushAt = 2
  SyncLimit = 1
  NetCap = 1
  MaxCopies = 2
  Conns = {c1}
  NoConn = NoConn
  Faults = {"shutdown", "crash", "power", "sql"}
SPECIFICATION Spec
INVARIANTS
  TypeOK
  NoUnexplainedLoss
  SyncedRowsWereWritten
  BackupIsFaithful
