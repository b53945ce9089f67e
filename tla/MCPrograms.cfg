\* The benchmark with all its programs, log.c and slog with two threads each,
\* and the parts that have one: the hash table, a log file that others rotate,
\* the line of zf_log, levels and configuration.
SPECIFICATION Spec
CONSTANTS
  Programs = {"control", "c-logger", "log-c", "slog", "zf_log", "zlog"}
  Levels = {0, 1, 2, 3, 4, 5}
  AckermannM = 3
  AckermannN = 1
  SetupMayFail = TRUE
  t1 = t1
  t2 = t2
  f1 = f1
  f2 = f2
  Loggers = {t1, t2}
  Adders = {t1}
  LogLevels = {0, 1}
  Files = {f1, f2}
  MAX_CALLBACKS = 2
  MaxEvents = 2
  MaxSets = 1
  Nobody = Nobody
  Users = {t1, t2}
  Flags = {"info", "debug"}
  Callbacks = {"callback"}
  OutputChoices <- TheOutputs
  Nothing = Nothing
  NoEntry = NoEntry
  MaxDepth = 2
  MaxDisplays = 3
  MaxChanges = 4
  None = None
  Keys = {"a", "b", "c", "d"}
  Hash <- TheHash
  InitSize = 1
  MaxPuts = 4
  Null = Null
  Writers = {t1}
  Fds = {3, 4, 5}
  FsyncPeriod = 2
  Faults = {"stat", "open", "restat", "write"}
  MaxWrites = 3
  MaxMoves = 2
  MaxReloads = 1
  BUF_SZ = 12
  EOL_SZ = 2
  ZF_LOG_MEM_WIDTH = 2
  CtxSize = 2
  Sizes = {0, 2}
  MsgSizes <- TheMsgSizes
  MemSizes = {0, 3}
  MemWidths = {1}
  OutputLevels = {0, 1}
  MaxCalls = 1
  ARRAY_LIST_DEFAULT_SIZE = 32
  DefaultLevels <- TheDefaultLevels
  LevelLines <- TheLevelLines
  Selectors <- TheSelectors
  MaxLines = 1
  MaxFits = 2
  MaxRules = 2
  FormatNames = {"f"}
  Periods = {1}
  Outputs = {"static", "sync", "rotate", "dynamic", "wrong"}
  MaxCaches = 3
  MaxFormats = 1
INVARIANTS
  TypeOK Measured LinesWhole OneOrder CallbackPaired FollowsRotation InBuffer LinesExact
  LevelsExact ConfUsable
PROPERTIES ImplementsMap
SYMMETRY FilesAlike
CHECK_DEADLOCK FALSE
