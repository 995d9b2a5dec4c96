CONSTANTS
  MaxPrice = 5
  MinRestart = 2
  LowMargin = 1
SPECIFICATION Spec
PROPERTIES LowPriceRedeploysAtOnce
CHECK_DEADLOCK FALSE
