SPECIFICATION Spec
CONSTANTS
  Manual = {m1, m2}
  Scheduled = {s1}
  Procs = {p1, p2}
  Cancellers = {c1}
  Admin = {"archive", "clear"}
  Outcomes = {"completed", "failed", "cancelled"}
  ExplicitQueue = TRUE
  MaxPending = 1
  MaxFaults = 0
  MaxCrashes = 0
  NoMsg = NoMsg
  NoProc = NoProc
SYMMETRY Symmetry
CHECK_DEADLOCK FALSE
INVARIANTS ExclusiveWork WithoutFailures
