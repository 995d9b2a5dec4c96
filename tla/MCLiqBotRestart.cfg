CONSTANTS
  Pool = pool
  Reporter = reporter
  Commands = {}
  Tasks = {pool, reporter}
  NoTask = NoTask
  Mints = {m1, m2}
  MaxRows = 1
  MaxRestarts = 1
  MaxCrashes = 1
  NRanges = 1
  MaxRounds = 1
  MaxCloseAttempts = 1
  MaxOrders = 1
SPECIFICATION LiqBotSpec
SYMMETRY MintSymmetry
INVARIANTS ExposureBound
PROPERTIES WalletSpec
CHECK_DEADLOCK FALSE
