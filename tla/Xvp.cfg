SPECIFICATION FairSpec
CONSTANTS
  Cases <- AllCases
  ArgBuf = 5
  ReadBuf = 6
  SizeArgs = 15
  Ptr = 2
  Padding = 1
  MaxProcs = 4
INVARIANTS
  AllDelivered
  OnceInOrder
  UsageHolds
  BatchesFit
PROPERTIES
  Ends
CHECK_DEADLOCK FALSE
