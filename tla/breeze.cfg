CONSTANTS
  Sizes = {2}
  MaxPosts = 1
  MaxWrites = 4
  MaxFaults = 1
  MaxConns = 2
SPECIFICATION FairSpec
INVARIANTS TypeOK OneMode DoneWhenSent KeyAgreed
PROPERTIES AuthEnds TxFrees
CHECK_DEADLOCK FALSE
