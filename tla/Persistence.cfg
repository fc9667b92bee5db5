SPECIFICATION FairSpec
CONSTANTS
  MaxBundles = 3
  MaxDrops = 2
  MaxCommands = 2
  MaxCuts = 2
INVARIANTS
  VouchedUnlessCut
  LatestReturns
PROPERTIES
  Settles
CHECK_DEADLOCK FALSE
