\* Two threads, two categories, every failure but that of an update.
SPECIFICATION Spec
CONSTANTS
  Threads = {t1, t2}
  app = app
  web = web
  Categories = {app, web}
  Levels = {1, 2}
  Confs <- MCConfs
  RecNames = {file}
  RecFns = {fn}
  Failable <- AllButUpdate
  MaxCalls = 6
  MaxConfs = 3
  Null = Null
SYMMETRY ThreadSymmetry
INVARIANTS TypeOK UsesFreshThread ServedByCurrentConf BitmapExact RecordsWired DefaultAlive
PROPERTIES AutoReloadEarned ImplementsService
CHECK_DEADLOCK FALSE
