SPECIFICATION Spec
CONSTANTS
  MaxOuts = 3
  MaxLength = 3
  MaxCases = 2
  Classes = {"NOP", "PLAIN", "MATCH", "JMP", "BRANCH", "CATCH", "FAST_CALL", "FAST_RET", "SWITCH", "RETURN"}
  Lines = {1, 2}
  OpArrays <- MCOpArrays
INVARIANTS
  TypeOK
  ScanComputesAnalysis
  FlowFollowsEdges
CHECK_DEADLOCK FALSE
