SPECIFICATION FairSpec
CONSTANTS
  NumWays = 1
  Rows <- MCRows
  Requests <- MCRequests
  MaxReqs = 4
  NumStages = 2
  FifoDepth = 1
  DramDepth = 4
INVARIANTS
  TypeOK
  NoStaleRow
  OwnAddress
  IInv
PROPERTIES
  ImplementsAtomicTable
  AllAnswered
CHECK_DEADLOCK FALSE
