CONSTANTS
  Backends = {b1, b2}
  TempBackends = {b2}
  Lookers = {b2}
  VersionModulus = 16
  MaxEvents = 1
  MaxCalls = 2
  MaxExtras = 1
SPECIFICATION FairSpec
INVARIANTS FreshFile  FreshResults
PROPERTIES RequestsAnswered
CHECK_DEADLOCK FALSE
