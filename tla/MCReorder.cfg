\* Two buses, one of them with kernel timestamps, and the network frame, no clock
\* offset; any delays, read errors and a shutdown.
CONSTANTS
  Buses = {can0, can1}
  Virtual = virtual
  UserspaceStamps = {can1}
  ClockOffset = 0
  Window = 2
  SockCap = 1
  RawCap = 1
  OrderedCap = 1
  MaxTime = 3
  MaxFrames <- MixedLoad
  Faults = {"shutdown", "read"}
  NoFrame = NoFrame
SPECIFICATION FairSpec
INVARIANTS TypeOK
PROPERTIES WindowAbsorbsJitter OnlyLateFramesOvertaken SourcesComeThrough 
CHECK_DEADLOCK FALSE
