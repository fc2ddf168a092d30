\* One page, one request at a time; two connections, one after the other; a broadcast
\* channel of one message, so that the second of two quick commands makes tasks lag.
CONSTANTS
  Pages = {p1}
  NoPage = NoPage
  Calls = {r1}
  Conns = {c1, c2}
  BroadcastCap = 1
  MaxCommands = 2
  Faults = {"can", "reply", "refusal", "reload", "edge", "server"}
SPECIFICATION FairSpec
INVARIANTS TypeOK ExecutedInOrder PageTellsTheTruth
PROPERTIES LastCommandReachesCar
CHECK_DEADLOCK FALSE
