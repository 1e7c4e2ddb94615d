SPECIFICATION FairSpec
CONSTANTS
  f1 = f1  f2 = f2  f3 = f3
  Id <- MCId
  Priorities <- MCPriority
  MaxFiles = 2
  MayFail = TRUE
  MaxOrders = 4
CHECK_DEADLOCK FALSE
INVARIANT SlotsRespected
PROPERTIES NobodyStarves SlotsAreUsed
