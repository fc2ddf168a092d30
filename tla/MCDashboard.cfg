\* Two frames; the login form may be used a second time.
CONSTANTS
  MaxAsked = 2
  CanIds <- MCCanIds
  CanMap <- MCCanMap
  Payload <- MCPayload
  MaxFrames = 2
  MaxQueue = 1
  MaxCommands = 1
  MaxLate = 1
SPECIFICATION Spec
INVARIANTS TypeOK ConnectionTellsTheTruth NothingStaleShown  StopIsExact
PROPERTIES LastValueShown
CHECK_DEADLOCK FALSE
