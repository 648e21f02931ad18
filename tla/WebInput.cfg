SPECIFICATION Spec
CONSTANTS
  Tabs = {"A", "B"}
  Messages = {"m", "n"}
  MaxPresses = 2
  Scenes <- MCScenes
  MaxMessages = 2
  QueueBounds <- MCQueueBounds
  Original = "t0"
  Typed = {"u1", "u2"}
  Agents = {"a1"}
  NoAgent = "none"
  EditorBounds <- MCEditorBounds
  Questions = 2
  Multi = {2}
  Options = {"a"}
  OtherTexts = {"", "x"}
  Requests <- MCRequests
  CardsBounds <- MCCardsBounds
  Names = {"a", "b"}
  SkillsBounds <- MCSkillsBounds
  PanelBounds <- MCPanelBounds
INVARIANTS
  TextIsSomewhere
  TakenOncePerPress
  ListIsQueue
  SettledShowsServer
  DecisionsAreTheUsers
  EditIsKept
  RestingListIsTrue
PROPERTIES
  OnlyChosenOptionsSaved
  OnlySeenIsOverwritten
  OthersWorkIsKept
\* A component stops when its bounds are spent.
CHECK_DEADLOCK FALSE
