\* The edge's clock is ahead of the server's, so that the measured offset is negative.
CONSTANTS
  Buses = {can0, can1}
  Virtual = virtual
  UserspaceStamps = {can1}
  ClockOffset <- Ahead
  Window = 1
  SockCap = 1
  RawCap = 1
  OrderedCap = 1
  MaxTime = 2
  MaxFrames <- MixedLoad
  Faults = {}
  NoFrame = NoFrame
SPECIFICATION Spec
PROPERTIES WindowAbsorbsJitter
CHECK_DEADLOCK FALSE
