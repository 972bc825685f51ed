SPECIFICATION FairSpec
CONSTANTS
  b1 = b1
  b2 = b2
  Backend <- TwoBackends
  NoGxid = NoGxid
  MaxGxid = 2
  MaxCrashes = 2
  MaxTmGxacts = 2
PROPERTY CommitIsFinished
INVARIANTS CommitIsRemembered RecoveredIsLogged
