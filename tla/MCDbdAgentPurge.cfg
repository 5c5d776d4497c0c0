CONSTANTS
  Kind <- FiveKinds
  MAX_AGENT_QUEUE = 3
  HANDLE_COUNT = 1
  Callers = {c1}
  MaxFaults = 0
  MaxStops = 0
SPECIFICATION Spec
PROPERTY HeldUntilProcessed
CHECK_DEADLOCK FALSE
