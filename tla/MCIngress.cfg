SPECIFICATION FairSpec
CONSTANTS
  core = core
  docs = docs
  tool = tool
  acme = acme
  main = main
  gh = gh
  none = none
  NoRef = none
  Target <- MCTarget
  Repo <- MCRepo
  Ref <- MCRef
  Event <- MCEvent
  HourLength = 3
  Interval = 2
  MaxScan = 1
  Cap = 2
  MaxHour = 6
  MaxAccepted = 4
  MaxFaults = 1
CHECK_DEADLOCK FALSE
INVARIANT TypeOK
INVARIANT EveryHourScanned
INVARIANT RedeliveryWindow
PROPERTY PushesArrive
