SPECIFICATION SystemSpec
CONSTANTS
  Parts = {"usb", "control", "tasks", "display", "start"}
  RxSize = 3
  TxSize = 3
  Mps = 2
  RxCount = 3
  TxCount = 6
  MPS = 2
  Requests <- MCRequests
  Codings = {0, 1}
  LongMasks = FALSE
  N = 4
  Prio <- MixedPrio
  MaxSleep = 2
  MaxPassed = 9
  LCD_WIDTH = 2
  LCD_HEIGHT = 2
  Shades = {0, 1}
  Black = 0
  Asks <- MCAsks
  v = v
  Vals = {v}
  Erased = erased
  Spoiled = spoiled
  Size = 4
  Block = 2
  Big = 4
  Page = 2
  LostBudget = 1
  ResetBudget = 2
CHECK_DEADLOCK FALSE
INVARIANTS
  BytesInOrder
  RightTaskRuns
  TakeTurns
  PanelShows
  FlashTells
  StartsEach
  RepliesExact
PROPERTIES
  TransfersGoOn
  TasksRun
  RequestsEnd
