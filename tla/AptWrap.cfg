SPECIFICATION Spec
CONSTANTS
  libc = libc
  lib = lib
  gcc = gcc
  tool = tool
  Packages <- SmallPackages
  Systems <- SmallSystems
  Needs <- SmallNeeds
  Wishes <- SmallWishes
  Keeps <- SmallKeeps
  MaxOwn = 1
  Sessions = {s1, s2, s3}
  NoSession = none
SYMMETRY SessionsAlike
CONSTRAINT Shallow
INVARIANTS
  BaseStays
  InPlace
  KeptAlone
  SoundAfter
