SPECIFICATION Spec
CONSTANTS
  MaxBundles = 2
  MaxDrops = 1
  MaxCommands = 1
  MaxCuts = 1
INVARIANTS
  Vouched
CHECK_DEADLOCK FALSE
