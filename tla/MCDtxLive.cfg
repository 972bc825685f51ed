CONSTANTS
  g1 = g1
  s1 = s1
  s2 = s2
  NoGxid = NoGxid
  Gxid <- OneGxid
  Seg <- OneSeg
  MaxFaults = 2
  MaxCrashes = 1
SPECIFICATION FairSpec
PROPERTIES PreparedIsResolved CommitReachesAll
