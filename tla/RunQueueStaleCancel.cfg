SPECIFICATION Spec
CONSTANTS
  Manual = {m1}
  Scheduled = {}
  Procs = {p1}
  Cancellers = {c1}
  Admin = {}
  Outcomes = {"completed", "failed", "cancelled"}
  ExplicitQueue = FALSE
  MaxPending = 1
  MaxFaults = 0
  MaxCrashes = 0
  NoMsg = NoMsg
  NoProc = NoProc
CHECK_DEADLOCK FALSE
INVARIANT TerminalOnce
