SPECIFICATION Spec
CONSTANTS
  Cases <- CommonCases
  ArgBuf = 5
  ReadBuf = 6
  SizeArgs = 15
  Ptr = 2
  Padding = 1
  MaxProcs = 4
INVARIANTS
  OnceInOrder
