CONSTANTS
  NBlocks = 2
  BlockSize = 9
  HdrSize = 1
  ItemHdr = 2
  ItemMax = 4
  Keys = {k1, k2}
  Vals = {v1, v2}
  LongVal = v2
  NoVal = NoVal
  Size <- MixedSize
  Prefixes <- AllKeys
  CrashPoints <- AllPoints
SPECIFICATION FairSpec
INVARIANTS KvInv ReadsLatest UniqueLive OnlyExposedLost UsedIsLive
PROPERTIES NorLegal Answered
