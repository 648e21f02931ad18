SPECIFICATION Spec
CONSTANTS
  Ring = 3
  Buffer = 1
  Rendered = 4
  LogBounds <- MCLogBounds
  PreviewBounds <- MCPreviewBounds
  StackBounds <- MCStackBounds
  MaxBuild = 3
  Requests = {"r1", "r2"}
  AssetsOf <- ShellAssets
  ShellBounds <- MCShellBounds
  MaxSubscriptions = 2
  MaxEvents = 1
  NoticesBounds <- MCNoticesBounds
  Folders = {"root", "sub"}
  Root = "root"
  MaxReads = 5
  BrowserBounds <- MCBrowserBounds
  Width = 7
  Height = 3
  Types = {"I", "J"}
  Shapes <- PieceShapes
  Kicks <- PieceKicks
  GameBounds <- MCGameBounds
INVARIANTS
  NoticesReachTheUser
  OfflineShellIsWhole
  ListIsNotStale
  SquaresAddUp
  IdleServesNewest
  NoChunkIsSkipped
  RestingStatusIsTrue
  PageIsTheUrls
\* A component stops when its bounds are spent.
CHECK_DEADLOCK FALSE
