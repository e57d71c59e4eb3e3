\* Memories of five bytes, every number of eight bits; a call that has returned is
\* the end.
SPECIFICATION Spec
CONSTANTS
  Size = 5
  Bytes = {0, 1, 255}
  Bits = 8
  Bases = {1, 2, 3, 10, 16, 17}
INVARIANTS
  TypeOK
  BlocksAreExact
  CompareIsFirstDifference
  StringsAreExact
  NumeralsReadBack
PROPERTIES
  EveryCallReturns
CHECK_DEADLOCK FALSE
