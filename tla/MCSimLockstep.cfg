SPECIFICATION Spec
CONSTANTS
  NJobs = 3
  Submit <- ThreeSubmits
  Duration <- ThreeDurations
  Limit <- NoLimits
  Rejected = {}
  Nodes = 2
  SimEndPoint = 0
  BackfillInterval = 2
  CompleteWait = FALSE
  QueueDepth = 100
  SendTries = 6
  MaxTimeouts = 0
  MaxClock = 5
INVARIANTS Lockstep WorkConserving ScheduleSeesEnded CountersBalanced EndSignalSound
PROPERTIES EndNotEarly Implements
