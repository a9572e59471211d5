SPECIFICATION Spec
CONSTANTS
  MaxOuts = 4
  OpArrays <- MCOpArrays
  Limits <- MCLimits
  CapOf <- MCCapOf
  Usages = {849, 850, 899, 900}
  MaxExecutions = 1
  MaxSteps = 6
INVARIANTS
  TypeOK
  ListsLeafPaths
  ListsOnlyLeafPaths
  BuffersHoldRoute
  HitPathsWereRun
  RunPathsAreHit
  SkipsUnderPressure
PROPERTIES
  SearchEnds
