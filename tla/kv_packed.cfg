CONSTANTS
  NBlocks = 3
  BlockSize = 5
  HdrSize = 1
  ItemHdr = 2
  ItemMax = 3
  Keys = {k1, k2}
  Vals = {v1, v2}
  LongVal = v2
  NoVal = NoVal
  Size <- EvenSize
  Prefixes <- AllKeys
  CrashPoints <- AllPoints
SPECIFICATION Spec
INVARIANTS IInv OnlyExposedLost
SYMMETRY Symmetry
