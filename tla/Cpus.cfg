SPECIFICATION MachineSpec
CONSTANTS
  Bits = 6
  Bytes = 1
  Words = 2
  CpuMax = 12
  SharesUnit = 16
  Counts <- AllCounts
  Masks <- AllMasks
  Changes <- SomeChanges
  MaxChanges = 1
  Machines <- SomeMachines
  Paths <- SomePaths
INVARIANTS
  EnoughLeft
  CountsAgree
  ToldIsLeast
PROPERTIES
  NeverStripped
  LowCpusEnd
