CONSTANTS
  ImgLen = 2
  Servers <- AllServers
  MaxStarts = 1
  MaxCalls = 0
  MaxBreaks = 1
SPECIFICATION Spec
INVARIANTS ResumeInstalls
CHECK_DEADLOCK FALSE
