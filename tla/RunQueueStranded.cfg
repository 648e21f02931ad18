SPECIFICATION Spec
CONSTANTS
  Manual = {m1, m2}
  Scheduled = {}
  Procs = {p1, p2}
  Cancellers = {}
  Admin = {}
  Outcomes = {"completed"}
  ExplicitQueue = FALSE
  MaxPending = 2
  MaxFaults = 0
  MaxCrashes = 0
  NoMsg = NoMsg
  NoProc = NoProc
CHECK_DEADLOCK FALSE
INVARIANT NothingStranded
