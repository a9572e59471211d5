SPECIFICATION Spec
CONSTANTS
  MaxOuts = 3
  Program = "leaf"
  Funcs <- MCFuncs
  OpArray <- MCOpArray
  Main = "main"
  Callees <- CallFromMain
  MaxDepth = 2
  Exceptions = FALSE
  Files = {"a.php", "b.php"}
  FileOf <- OneFile
  FilterLists <- NoLists
  KeyOf <- DistinctKeys
  NoFunc = NoFunc
  FlagSets = {{}, {"BRANCH_CHECK"}}
  CoverageMode = TRUE
  MaxGeneration = 2
INVARIANT SaturatedHasEveryEdge
