SPECIFICATION MCSpec
CONSTANTS
  Devs <- DevNames
  Inos <- AllInos
  Cases <- AllCases
  Files <- SomeFiles
  MaxArgs = 3
  FdMax = 1
  Stamps <- SomeStamps
  LogPrefixes <- SomePrefixes
  TextsOf <- SomeTexts
  Heads <- SomeHeads
  Messages <- SomeMessages
  LogBuffer = 12
  SizeSpan = 64
INVARIANTS
  NothingMissed
  OnceEach
  StaysHome
  NoLoop
  EachByItself
  LineIsMeant
