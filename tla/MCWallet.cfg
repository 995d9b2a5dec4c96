CONSTANTS
  Tasks = {t1, t2}
  NoTask = NoTask
  Mints = {m1, m2}
  MaxRows = 2
  MaxRestarts = 1
SPECIFICATION FairWalletSpec
INVARIANTS WalletTypeOK GuardOwnedExactly SessionRecordedOnce RecordedMeansClosed
PROPERTIES WaiterServedOrSelfDeadlock
CHECK_DEADLOCK FALSE
