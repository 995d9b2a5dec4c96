CONSTANTS
  Tasks = {t1, t2}
  NoTask = NoTask
  Mints = {m1, m2}
  MaxRows = 2
  MaxRestarts = 0
SPECIFICATION FairWalletSpec
PROPERTIES FailedClosesAreRetried
CHECK_DEADLOCK FALSE
