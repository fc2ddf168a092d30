\* One instance of one view, whichever it is.
CONSTANTS
  None = None
  MaxRecorded = 4
  Users = {adm, ana}
  AdminNames = {adm}
  Tabs = {t1, t2}
  Expiry = 2
  MaxClock = 2
  MaxLogins = 3
  Descriptors <- MCDescriptors
  Contents <- MCContents
  Steps = {1, 2}
  Capacity = 3
  MaxReceived = 5
  MaxFlushes = 3
  Analysis = {torque, power}
  Reference = rpm
  MaxToggles = 1
  MaxTrailing = 2
  Cards <- MCCards
  Summed <- MCSummed
  Indicators <- MCIndicators
  Faults <- MCFaults
  Batches <- MCBatches
  MaxBatches = 4
  Gaps = {1, 3}
  MaxPasses = 5
  MaxFeed = 2
  Logs = {l1, l2}
  Names = {n1, n2}
  GivenName = n1
  Generating = {l2}
  MaxRequests = 2
  MaxActions = 4
  Measured <- MCMeasured
  MaxReports = 2
  MaxFaults = 2
SPECIFICATION FairSpec
INVARIANTS TypeOK SamplesAreDecoded  ChartsTellTheTruth 
PROPERTIES PagesCatchUp
CHECK_DEADLOCK FALSE
