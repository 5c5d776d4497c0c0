SPECIFICATION FairSpec
CONSTANTS
  NJobs = 2
  Submit <- TwoSubmits
  Duration <- TwoDurations
  Limit <- NoLimits
  Rejected = {}
  Nodes = 2
  SimEndPoint = 0
  BackfillInterval = 1
  CompleteWait = FALSE
  QueueDepth = 100
  SendTries = 6
  MaxTimeouts = 0
  MaxClock = 4
PROPERTY EndSignalled
