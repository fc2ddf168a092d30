\* One dashboard that controls collections and one that only watches.
CONSTANTS
  Dashboards = {d1, d2}
  NoDash = NoDash
  Controllers = {d1}
  Flaky = {d2}
  Calls = {k1, k2}
  MaxTime = 3
  MaxSessions = 2
  MaxLog = 1
  Faults = {"db", "expired", "replay"}
SPECIFICATION Spec
INVARIANTS TypeOK AtMostOneActive TrackFollowsSession LogsAreOfTheirSessions
           
