SPECIFICATION FairSpec
CONSTANTS
  FIRST_JOB_ID = 1
  MAX_JOB_ID = 2
  MaxSubmits = 2
  MaxErrors = 1
  MaxStops = 2
INVARIANTS Recoverable ScriptsKept
PROPERTIES StopSaves SavedInTime StopEnds
CHECK_DEADLOCK FALSE
