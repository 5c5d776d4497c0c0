CONSTANTS
  Kind <- FourKinds
  MAX_AGENT_QUEUE = 3
  HANDLE_COUNT = 1
  Callers = {c1}
  MaxFaults = 1
  MaxStops = 1
SPECIFICATION FairSpec
INVARIANTS NoSilentLoss InOrder
PROPERTIES HeldUnlessPurged QueueServed StopEnds
CHECK_DEADLOCK FALSE
