SPECIFICATION Spec
CONSTANTS
  Keys <- FiveKeys
  IdxMax = 5
  MayRefuse = TRUE
INVARIANTS
  TreeHolds
  ChildrenAreThere
PROPERTIES
  IsGrowOnlyMap
  CallsAdvance
