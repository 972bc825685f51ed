CONSTANTS
  MaxCommits = 1
  MaxCrashes = 2
  MaxFaults = 2
  MaxLate = 0
  MaxRetries = 1
  PromptReload = TRUE
SPECIFICATION Spec
INVARIANTS  RoleMirrorIsExpected 
 
CHECK_DEADLOCK FALSE
