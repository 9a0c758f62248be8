SPECIFICATION Spec
CONSTANTS
  NumWays = 2
  Rows <- MCRows
  Requests <- ResizeRequests
  MaxReqs = 4
INVARIANT GetReadsStoredLength
CHECK_DEADLOCK FALSE
