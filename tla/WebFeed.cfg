SPECIFICATION Spec
CONSTANTS
  ShowArchived = FALSE
  ListBounds <- MCListBounds
  Sessions = {"a", "b"}
  Legacy = {"b"}
  TurnStarts = {1, 3}
  Cached <- MCCached
  SessionBytes = 2
  GlobalBytes = 3
  HotWindows = 1
  Writes <- MCWrites
  CacheBounds <- MCCacheBounds
  Kept = 1
  RowBounds <- MCRowBounds
  ScrollBounds <- MCScrollBounds
  Queries = {"q1", "q2"}
  Hits <- MCHits
  SearchBounds <- MCSearchBounds
INVARIANTS
  QuietShowsServer
  AttentionAsked
  AnswerIsWhole
  AccountingExact
  RestingTailIsTrue
  EverythingSaidIsShown
  ActivityIsAgents
  CountedOnce
  ReaderIsLeftAlone
  RestsWithAWayBack
  AnswerIsTheQuerys
PROPERTIES
  HeldThenShown
\* A component stops when its bounds are spent.
CHECK_DEADLOCK FALSE
