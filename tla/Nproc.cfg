SPECIFICATION MCSpec
CONSTANTS
  CpuMax = 5
  Limits <- AllLimits
  RootEnvs <- AllEnvs
  MaxPid = 3
  MaxExecs = 2
  K2 = "k2env.so"
  Libs = {"a", "b"}
  Preloads <- SetPreloads
  Numbers <- SomeNumbers
  Parts <- SomeParts
  Containers <- SomeContainers
  MaxRuns = 2
INVARIANTS
  OwnCount
  OneCount
  PreloadKept
  NumbersFit
  PartsInTurn
  AgainTheSame
  PartsAreMeant
