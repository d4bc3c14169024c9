SPECIFICATION EverySpec
CONSTANTS
  n1 = n1
  n2 = n2
  gl = gl
  blank = blank
  nan = nan
  bad = bad
  t1 = t1
  t2 = t2
  Parts = {"functions"}
  Names = {n1, n2}
  NoName = noname
  NoFile = nofile
  Glyphs = {gl}
  NL = nl
  MaxBytes = 2
  ROWS = 1
  COLS = 1
  LEFT_CONTEXT = 0
  FM_VISIBLE_ROWS = 1
  Uploads <- MCUploads
  PrefKeys <- MCPrefKeys
  Allowed <- MCAllowed
  Default <- MCDefault
  NoLine = noline
  StartFiles <- MCStartFiles
  BW = 4
  BH = 4
  Kinds = {"O", "T"}
  LevelLines = 2
  MaxLocked = 6
  Rows = 2
  Columns = 3
  Goal = 3
  MaxScore = 5
  SNAKE_W = 4
  SNAKE_H = 2
  Colours = 2
  BACKLIGHT_MAX = 1
  Millivolts = {95, 105, 310}
  Thresholds <- MCThresholds
  HYSTERESIS_MV = 10
  MAX_OPEN = 2
  PY_WRITE_MAX = 1
  PyBytes = {gl}
  PyUploads <- MCPyUploads
  SHELL_ROWS = 2
  SHELL_COLS = 2
  SHELL_LINE_LEN = 2
  SHELL_HISTORY = 2
  LineLimit = 3
  RX_BUF = 2
  Typeable = {"a"}
  Newline = "nl"
  Prompt = "p"
  Outputs <- MCOutputs
  STATS_MAX = 2
  VIS_ROWS = 1
  Numbers = {1, 2, 3}
  Infinite = {3}
  Rounded <- MCRounded
  Empty = blank
  Nan = nan
  Wrong = bad
  StatsUploads <- MCStatsUploads
  HIST_MAX = 2
  HIST_ROWS = 1
  EXPR_MAX = 2
  Keytexts <- MCKeytexts
  Results <- MCResults
  MAX_FNS = 2
  Texts = {t1, t2}
  WrongText = bad
  NoText = blank
  AN_COUNT = 2
  FieldValues = {3}
  WrongField = bad
  QuadStart <- MCQuadStart
  LinearStart <- MCLinearStart
  N_ITEMS = 11
  COLUMNS = 3
  ROWS_SHOWN = 2
  N_GAMES = 3
  NLines <- MCNLines
  SHOWN = 2
  LINE_MAX = 3
  BLOCK_MAX = 6
  INDENT = 2
  SHOW_MS = 5
  POLL_MS = 2
  KBD_ROOM = 2
  MaxOut = 4
  BUF_MAX = 3
  NoChar = blank
  KEYWORDS <- MCKeywords
  BUILTINS <- MCBuiltins
  CODE_COLS = 2
  MaxCode = 4
  MAX_DEPTH = 8
  MaxTokens = 5
  MaxSample = 6
VIEW LiveView
CONSTRAINTS
  OneTyped
  ShortTyped
  OneEdited
  OneSetting
  OneShellFile
  OneModule
INVARIANT
  PicksAFunction
