\* The migration at boot and one requested over HTTP.
CONSTANTS
  r1 = r1
  r2 = r2
  r3 = r3
  Rows = {r1, r2, r3}
  Ts <- Instants
  Limit = 2
  Runs = {boot, manual}
  MaxTime = 2
  Faults = {"db", "crash"}
SPECIFICATION FairSpec
INVARIANTS TypeOK 
PROPERTIES MigrationsEnd
CHECK_DEADLOCK FALSE
