CONSTANTS
  Pool = pool
  Reporter = reporter
  Commands = {c1}
  Tasks = {pool, reporter, c1}
  NoTask = NoTask
  Mints = {m1, m2}
  MaxRows = 0
  MaxRestarts = 1
  MaxCrashes = 0
  NRanges = 1
  MaxRounds = 1
  MaxCloseAttempts = 1
  MaxOrders = 1
SPECIFICATION LiqBotSpec
SYMMETRY MintSymmetry
INVARIANTS ExposureBound
PROPERTIES ReporterHeldBack
CHECK_DEADLOCK FALSE
