CONSTANTS
  Price = 2
  Positions = {p1, p2}
  SolAtFirst = {3}
  UsdcAtFirst = {4}
  MaxUnits = 2
  MinSwap = 2
  Reserve = 1
  Keep = 0
  FeeBuffer = 1
  SlipSteps = 2
  MaxParts = 2
  Slots = {s1}
  MaxCalls = 1
  MaxTroubles = 1
SPECIFICATION FundsSpec
INVARIANTS FundsTypeOK SoldOncePerMiss LadderMovesOnce ExcessKeepsBuffer OpeningIsCovered IncStaysWithinFreed
PROPERTIES NearsItsEnd OperationEnds
CHECK_DEADLOCK FALSE
