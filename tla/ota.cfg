CONSTANTS
  ImgLen = 3
  Servers <- AllServers
  MaxStarts = 2
  MaxCalls = 2
  MaxBreaks = 3
SPECIFICATION FairSpec
INVARIANTS TypeOK InOrder SwitchGood
PROPERTIES StopEnds Ends
CHECK_DEADLOCK FALSE
