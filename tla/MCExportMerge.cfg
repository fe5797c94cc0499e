SPECIFICATION FairSpec
CONSTANTS
  v1 = v1
  v1b = v1b
  v2 = v2
  v3 = v3
  t1 = t1
  t2 = t2
  t3 = t3
  Absent = absent
  absent = absent
  Content <- PlainContent
  Ship <- PlainShip
  MergeModes <- MergeCommits
  MaxMono = 3
  MaxEdits = 3
  MaxForeign = 0
  MaxFaults = 0
CHECK_DEADLOCK FALSE
PROPERTY OnlyDeltaShips
