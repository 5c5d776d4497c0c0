SPECIFICATION FairSpec
CONSTANTS
  NJobs = 3
  Submit <- ThreeSubmits
  Duration <- LongDurations
  Limit <- NoLimits
  Rejected = {2}
  Nodes = 1
  SimEndPoint = 0
  BackfillInterval = 1
  CompleteWait = FALSE
  QueueDepth = 100
  SendTries = 6
  MaxTimeouts = 0
  MaxClock = 5
PROPERTIES SecondCompletes RequestsServed
