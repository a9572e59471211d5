SPECIFICATION LSpec
CONSTANTS
  MaxOuts = 3
  Funcs <- MCFuncs
  OpArray <- MCOpArray
  Main = "main"
  Callees <- MCCallees
  MaxDepth = 3
  Exceptions = TRUE
  Files = {"a.php"}
  FileOf <- OneFile
  FilterLists <- ExcludeOrNot
  KeyOf <- DistinctKeys
  NoFunc = NoFunc
  FlagSets = {{"UNUSED"}, {"BRANCH_CHECK"}}
  CoverageMode = TRUE
  MaxGeneration = 2
INVARIANTS
  InventedOnlyIfInterrupted
  MissedOnlyByClamp
  CoveredBlocksRan
  FalseEdgeOnlyIfInterrupted
  NoLeafEdgeMissed
