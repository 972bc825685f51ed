CONSTANTS
  FirstVid = 1
  MaxEdges = 4
  IntModulus = 16
  Segs <- MCSegs
  Vids <- MCVids
  Inputs <- MCInputs
SPECIFICATION FairReduceSpec
INVARIANTS LeavesDeadlocks EveryDeadlockLosesAVictim
PROPERTIES NoVictimInVain BreakReturns
