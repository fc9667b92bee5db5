SPECIFICATION MCSpec
CONSTANTS
  Vecs = {v1, v2}
  Values = {a}
  Zero = zero
  Junk = junk
  ItemSize = 3
  BlockSize = 4
  Growth = 4
  IdxMax = 3
  WFall = 2
  IndexSpan = 8
  SizeSpan = 128
  IntSpan = 32
  HeapMax = 28
  ReallocMayFail = TRUE
  Strs = {s1, s2}
  Texts <- SomeTexts
  Word = 2
  OffGrowth = 4
  OffMax = 15
  OffWFall = 8
  OffSpan = 32
  RangeLengths = {0, 1, 2, 30, 31}
  MaxTexts = 4
  Arrays = {d1, d2}
  Room = 2
  Amounts = {1, 2, 7}
  MaxItems = 5
SYMMETRY Symmetry
INVARIANTS
  FieldsInOrder
  RoomIsReal
  OverrunsNeedCause
  StringsHold
  ArraysInOrder
PROPERTIES
  ItemsKept
