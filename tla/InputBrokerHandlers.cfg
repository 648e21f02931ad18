SPECIFICATION FairSpec
CONSTANTS
  Runs = {r1}
  Blocking = {}
  Async = {a1}
  Permissions = {p1}
  IdOf <- DistinctIds
  Clients = {c1, c2}
  Steers = FALSE
  MaxFaults = 1
  NoRun = NoRun
  NoRequest = NoRequest
CHECK_DEADLOCK FALSE
INVARIANTS InputCounts
PROPERTY HandlersRespond
