CONSTANTS
  b1 = b1
  b2 = b2
  DtxRecovery = DtxRecovery
  NoProc = NoProc
  Backend <- MCBackend
  Prefetch = 2
  LastGxid = 11
SPECIFICATION Spec
SYMMETRY Symmetry
INVARIANTS TypeOK RestartAboveIssued IssuedBelowLimit
PROPERTY GxidsIncrease
