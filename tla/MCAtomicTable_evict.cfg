SPECIFICATION Spec
CONSTANTS
  NumWays = 3
  Rows <- MCRows
  Requests <- EvictRequests
  MaxReqs = 5
PROPERTY EvictsSmallestTime
CHECK_DEADLOCK FALSE
