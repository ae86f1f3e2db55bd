CONSTANTS
  Users = {u1}
  Ctxs = {c1, c2}
  NULL = NULL
  MaxThreads = 2
  MaxRetry = 1
  FileLen = 2
  Servers <- AllServers
  MaxStarts = 1
  MaxCalls = 2
  MaxRedirects = 1
SPECIFICATION FairSpec
INVARIANTS TypeOK Delivered SuccessIsWhole Reachable Told
PROPERTIES EndsOnce Ends
CHECK_DEADLOCK FALSE
ACTION_CONSTRAINT FirstFirst
