SPECIFICATION Spec
CONSTANTS
  Manual = {m1, m2}
  Scheduled = {s1}
  Procs = {p1, p2}
  Cancellers = {c1}
  Admin = {}
  Outcomes = {"completed", "failed", "cancelled"}
  ExplicitQueue = FALSE
  MaxPending = 2
  MaxFaults = 1
  MaxCrashes = 1
  NoMsg = NoMsg
  NoProc = NoProc
SYMMETRY Symmetry
CHECK_DEADLOCK FALSE
INVARIANTS AtMostOnce
PROPERTIES LaunchesOnce
