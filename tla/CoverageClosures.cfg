SPECIFICATION Spec
CONSTANTS
  MaxOuts = 3
  Program = "calls"
  Funcs <- MCFuncs
  OpArray <- MCOpArray
  Main = "main"
  Callees <- CallFromMain
  MaxDepth = 2
  Exceptions = FALSE
  Files = {"a.php", "b.php"}
  FileOf <- OneFile
  FilterLists <- NoLists
  KeyOf <- ClosureKeys
  NoFunc = NoFunc
  FlagSets = {{}}
  CoverageMode = TRUE
  MaxGeneration = 1
INVARIANT RuntimesOwned
