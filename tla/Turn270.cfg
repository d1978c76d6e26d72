SPECIFICATION AlgSpec
CONSTANTS
  zero = zero
  one = one
  Element <- MCElement
  Zero = zero
  maxSize = 3
  Ints <- MCInts
  Cells = 4
  h1 = h1
  h2 = h2
  Holder <- MCHolder
  MaxNodes = 3
  SortInts <- MCSortInts
  MaxLen = 5
  FrameSizes <- MCFrameSizes
PROPERTIES
  TurnedBy270
CHECK_DEADLOCK FALSE
