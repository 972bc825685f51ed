CONSTANT NumProcs = 3
SPECIFICATION FairSpec
PROPERTY WaitersServed
INVARIANTS NoConflictingHolders WaitsForTheTable NoNeedlessWait NothingLeftBehind
