SPECIFICATION Spec
CONSTANTS
  MaxOuts = 3
  Program = "try"
  Funcs <- MCFuncs
  OpArray <- MCOpArray
  Main = "main"
  Callees <- CallAny
  MaxDepth = 3
  Exceptions = TRUE
  Files = {"a.php", "b.php"}
  FileOf <- TwoFiles
  FilterLists <- OneList
  KeyOf <- DistinctKeys
  NoFunc = NoFunc
  FlagSets = {{}, {"BRANCH_CHECK"}}
  CoverageMode = TRUE
  MaxGeneration = 2
INVARIANTS
  TypeOK
  SaturationSound
  FastPathSound
  RuntimesOwned
  EdgesJoinHitBlocks
  ActiveStateIsLive
  MarksOfRequest
PROPERTY ImplementsBlockRecorder

