CONSTANTS
  MaxPrice = 5
  MinRestart = 2
  LowMargin = 1
SPECIFICATION Spec
INVARIANTS AdoptedLowerExitIsLowest
CHECK_DEADLOCK FALSE
