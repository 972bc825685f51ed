CONSTANTS
  MaxCommits = 1
  MaxCrashes = 1
  MaxFaults = 1
  MaxLate = 1
  MaxRetries = 1
  PromptReload = FALSE
SPECIFICATION FairSpec
PROPERTIES ServiceRestored CommitsUnblocked
CHECK_DEADLOCK FALSE
