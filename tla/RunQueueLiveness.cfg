SPECIFICATION FairSpec
CONSTANTS
  Manual = {m1}
  Scheduled = {s1}
  Procs = {p1, p2}
  Cancellers = {c1}
  Admin = {}
  Outcomes = {"completed", "failed", "cancelled"}
  ExplicitQueue = FALSE
  MaxPending = 2
  MaxFaults = 0
  MaxCrashes = 1
  NoMsg = NoMsg
  NoProc = NoProc
CHECK_DEADLOCK FALSE
PROPERTIES WorkCompletes
