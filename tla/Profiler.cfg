SPECIFICATION Spec
CONSTANTS
  f = f
  g = g
  Main = main
  StartTrace = start
  StopTrace = stop
  Switch = switch
  Funcs = {main, start, stop, switch, f, g}
  Fibers <- TwoFibers
  ProfileMode = TRUE
  MaxDepth = 4
  MaxCalls = 5
  MaxTime = 2
  MaxSessions = 2
SYMMETRY UserFunctions
INVARIANTS
  TypeOK
  FramesAreLiveCalls
  FramesAreObservedCalls
  SelfTimesFit
  EdgesAreCalls
  FlowConserved
