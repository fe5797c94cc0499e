SPECIFICATION FairSpec
CONSTANTS
  v1 = v1
  v1b = v1b
  v2 = v2
  v3 = v3
  t1 = t1
  t2 = t2
  t3 = t3
  Absent = absent
  absent = absent
  Content <- MCContent
  Ship <- MCShip
  MergeModes <- KeepTrailers
  MaxMono = 3
  MaxEdits = 3
  MaxForeign = 1
  MaxFaults = 1
CHECK_DEADLOCK FALSE
INVARIANT TypeOK
INVARIANT ShippedOnce
INVARIANT UpToDateIsTrue
INVARIANT StuckOnlyByTipRewrite
PROPERTY MergedLeavesDelta
PROPERTY Converges
