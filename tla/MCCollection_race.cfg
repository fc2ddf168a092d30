\* Two administrators' dashboards, nothing fails.
CONSTANTS
  Dashboards = {d1, d2}
  NoDash = NoDash
  Controllers = {d1, d2}
  Flaky = {}
  Calls = {k1, k2}
  MaxTime = 2
  MaxSessions = 2
  MaxLog = 1
  Faults = {}
SPECIFICATION Spec
INVARIANTS AtMostOneActive
