\* The published numbers of messages, of every program, with no failure.
SPECIFICATION SpecBenchmark
CONSTANTS
  Programs = {"control", "c-logger", "log-c", "slog", "zf_log", "zlog"}
  Levels = {0, 1, 2, 3, 4, 5}
  AckermannM = 3
  AckermannN = 1
  SetupMayFail = FALSE
INVARIANT SameNumberOfMessages
CHECK_DEADLOCK FALSE
