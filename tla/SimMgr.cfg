SPECIFICATION SimSpec
CONSTANTS
  TraceIds = {1, 2, 4, 5}
  RealIds = {11, 12}
  NoVal = NoVal
  Ordered = TRUE
INVARIANTS LookupExact SlurmdPresent EndComplete
PROPERTY RegistrationNoticed
CHECK_DEADLOCK FALSE
