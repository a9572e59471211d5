SPECIFICATION Spec
CONSTANTS
  cached = cached  first = first  second = second  p = p
  t = t  u = u  Threads = {t}
  OpArrays = {cached, first, second}
  Shared = {cached}
  Addresses = {p}
  NumBlocks <- MCNumBlocks
  MaxDepth = 2
  MaxSessions = 1
INVARIANTS
  RecordsWhatRuns
