SPECIFICATION FairSpec
CONSTANTS
  FirstLog = 2
  MaxLog = 3
  Bounds <- MCBounds
  Targets = {2}
  TurnStarts = {1, 3}
  Page <- MCPage
  Resident <- MCResident
  Live <- MCLive
  Cached <- MCLive
INVARIANTS TailIsComplete
PROPERTIES CatchesUp
CHECK_DEADLOCK FALSE
