SPECIFICATION Spec
CONSTANTS
  NJobs = 1
  Submit <- OneSubmit
  Duration <- OneDuration
  Limit <- TightLimits
  Rejected = {}
  Nodes = 1
  SimEndPoint = 3
  BackfillInterval = 2
  CompleteWait = TRUE
  QueueDepth = 100
  SendTries = 2
  MaxTimeouts = 2
  MaxClock = 3
INVARIANT OneToken
CHECK_DEADLOCK FALSE
