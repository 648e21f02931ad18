SPECIFICATION LogSpec
CONSTANTS LogBounds <- MCLogBounds
Ring = 3
Buffer = 1
Rendered = 4
INVARIANT SlowSubscribersReplay
CHECK_DEADLOCK FALSE
