SPECIFICATION MCSpec
CONSTANTS
  Devs <- DevNames
  Inos <- AllInos
  Cases <- MountCases
  Files <- SomeFiles
  MaxArgs = 0
  FdMax = 1
  Stamps <- SomeStamps
  LogPrefixes <- SomePrefixes
  TextsOf <- SomeTexts
  Heads <- SomeHeads
  Messages <- SomeMessages
  LogBuffer = 12
  SizeSpan = 64
INVARIANTS
  SkipsMounts
