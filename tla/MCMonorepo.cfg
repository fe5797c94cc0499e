SPECIFICATION Spec
CONSTANTS
  d1 = d1
  d2 = d2
  rest = rest
  c1 = c1
  c2 = c2
  p1 = p1
  a1 = a1
  e1 = e1
  Dest <- MCDest
  Elsewhere <- MCElsewhere
  Change <- MCChange
  Patch <- MCPatch
  Agent <- MCAgent
  LocalEdit <- MCLocalEdit
  Conflict <- MCConflict
  Tainted <- MCTainted
  Declared <- MCDeclared
  MaxUpstream = 2
  MaxBranch = 6
  MaxLocal = 1
CHECK_DEADLOCK FALSE
INVARIANT TypeOK
INVARIANT OrderedMirror
INVARIANT StableUnlessBuried
PROPERTY OnlyOwnTipDropped
PROPERTY OthersUntouched
PROPERTY NewUpstreamMaterializes
PROPERTY MirrorMapSpec
