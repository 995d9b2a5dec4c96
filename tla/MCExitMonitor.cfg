CONSTANTS
  MaxPrice = 5
  MinRestart = 2
  LowMargin = 1
SPECIFICATION Spec
INVARIANTS TypeOK UpperExitIsWaitedOut OpenedExitsSpanPositions
PROPERTIES LastingExitRedeploys KeepsPromise
CHECK_DEADLOCK FALSE
