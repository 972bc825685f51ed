CONSTANTS
  g1 = g1
  s1 = s1
  s2 = s2
  NoGxid = NoGxid
  Gxid <- OneGxid
  Seg <- TwoSegs
  MaxFaults = 1
  MaxCrashes = 1
SPECIFICATION Spec
SYMMETRY SegSymmetry
INVARIANTS Atomicity ForgetIsSafe CommitNeedsAllPrepared NoAbortAfterCommit ContextFits
PROPERTIES ImplementsAtomicCommit
