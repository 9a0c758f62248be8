SPECIFICATION Spec
CONSTANTS
  NumWays = 2
  Rows <- MCRows
  Requests <- AllRequests
  MaxReqs = 4
INVARIANTS
  TypeOK
  OneHeaderPerKey
  GetReadsLastSet
  LossNeedsFullRow
CHECK_DEADLOCK FALSE
