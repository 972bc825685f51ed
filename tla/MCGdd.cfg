CONSTANTS
  p1 = p1
  p2 = p2
  p3 = p3
  Procs <- Two
  Segs <- MCSegs
  QD <- QDSeg
  Locks <- RelationAndRow
  SegOf <- MCSegOf
  KindOf <- MCKindOf
  Modes <- X
  FirstGxid = 1
  MaxGxid = 2
  MaxCancels = 1
  XidModulus = 16
SPECIFICATION FairSpec
PROPERTIES SignalsOnlyDeadlocked 
CHECK_DEADLOCK FALSE
