SPECIFICATION Spec
CONSTANTS
  b1 = b1
  b2 = b2
  b3 = b3
  s1 = s1
  s2 = s2
  Backends = {b1, b2, b3}
  Writers = {b1, b2}
  Retakes = {b3}
  Route <- WideWriters
  Segs = {s1, s2}
  FirstGxid = 1
  MaxGxid = 2
  Restarted = FALSE
  WaitsForPrepared = FALSE
  IntModulus = 16
SYMMETRY WriterSymmetry
INVARIANTS ReadsTheCut HorizonIsSafe  NoCommitCycle
