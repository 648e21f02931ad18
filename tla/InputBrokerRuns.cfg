SPECIFICATION Spec
CONSTANTS
  Runs = {r1, r2}
  Blocking = {b1}
  Async = {}
  Permissions = {}
  IdOf <- DistinctIds
  Clients = {c1, c2}
  Steers = TRUE
  MaxFaults = 1
  NoRun = NoRun
  NoRequest = NoRequest
SYMMETRY Symmetry
CHECK_DEADLOCK FALSE
INVARIANTS InputCounts
