SPECIFICATION Spec
CONSTANTS
  d1 = d1
  d2 = d2
  d3 = d3
  rest = rest
  x1 = x1
  x2 = x2
  y1 = y1
  y2 = y2
  z1 = z1
  p1 = p1
  e1 = e1
  poll = poll
  hook = hook
  cli = cli
  status = status
  Elsewhere <- MCElsewhere
  Change <- MCChange
  Patch <- MCPatch
  Agent = {}
  LocalEdit <- MCLocalEdit
  Conflict = {}
  Tainted = {}
  None = None
  Dest <- Imports
  target <- ImportsTarget
  Tips <- ImportsTips
  Thread <- OneThread
  Cli <- OneCli
  Status <- NoOne
  MaxServed = 2
  MaxJobs = 2
  MaxFaults = 0
CHECK_DEADLOCK FALSE
PROPERTY MirrorsSurvive
