SPECIFICATION FairSpec
CONSTANTS
  MaxSubmits = 2
  MaxStarts = 2
  MaxFaults = 2
INVARIANTS OneController JobsHandedOver NoFalseAlarm
PROPERTIES BackupYields TakesOver
CHECK_DEADLOCK FALSE
