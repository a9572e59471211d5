SPECIFICATION Spec
CONSTANTS
  AUTO = AUTO  NONE = NONE
  Inis <- MCInis
  Environments <- MCEnvironments
  Files = {"out"}
  Pids = {"pid"}
  MaxRequests = 2
  MaxCalls = 2
  MaxProcesses = 2
CHECK_DEADLOCK FALSE
PROPERTY ModeOfRequest
