\* Two messages through two rules, without a limit and with three of them.
SPECIFICATION Spec
CONSTANTS
  Rules <- MCRules
  Seconds = {1, 2}
  Pids = {1, 2}
  Caches = {0, 1, 2}
  MsgLens = {0, 3}
  HexLines = {1}
  BufMin = 2
  BufMaxes = {0, 2, 7}
  PathMax = 4
  MarkLen = 2
  MaxEvents = 2
INVARIANTS TypeOK InBounds OutputIsWhole CutAtLimit
CHECK_DEADLOCK FALSE
