SPECIFICATION Spec
CONSTANTS
  cached = cached  first = first  second = second  p = p
  t = t  u = u  Threads = {t, u}
  OpArrays = {cached, first, second}
  Shared = {cached}
  Addresses = {p}
  NumBlocks <- MCNumBlocks
  MaxDepth = 1
  MaxSessions = 2
SYMMETRY Interchangeable
INVARIANT AnalysesRequestScoped
