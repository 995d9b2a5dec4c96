CONSTANTS
  Pool = pool
  Reporter = reporter
  Commands = {}
  Tasks = {pool, reporter}
  NoTask = NoTask
  Mints = {m1, m2, m3}
  MaxRows = 1
  MaxRestarts = 1
  MaxCrashes = 1
  NRanges = 2
  MaxRounds = 2
  MaxCloseAttempts = 2
  MaxOrders = 0
SPECIFICATION LiqBotSpec
SYMMETRY MintSymmetry
INVARIANTS LiqBotTypeOK ExposureBound
CHECK_DEADLOCK FALSE
