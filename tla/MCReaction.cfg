SPECIFICATION FairSpec
CONSTANTS
  one = one
  wanted = wanted
  draft = draft
  design = design
  react = react
  Issue = {one}
  Label = {wanted}
  Action = {"opened", "labeled"}
  Reaction = {draft, design}
  Order <- MCOrder
  Filter <- MCFilter
  Any = any
  Server = server
  Cli = {react}
  People = people
  Trunk = trunk
  MaxEvent = 2
  MaxMade = 2
  MaxMishap = 1
CHECK_DEADLOCK FALSE
INVARIANT TypeOK
INVARIANT MergedByPeople
INVARIANT BranchHasPr
PROPERTY BranchesKept
PROPERTY ReviewUndisturbed
PROPERTY Prototyped
