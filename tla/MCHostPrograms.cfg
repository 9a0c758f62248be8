CONSTANTS
  NumBufs = 2
  BufSize = 3
  ReqSize <- MCReqSize
  BodySizes = {1, 2}
  DevRoom = 2
  Chips = 1
  Blocks = 4
  Real = 3
  EraseTags = 2
  MaxBad = 1
  FifoSize = 2
  LowerThreshold = 1
  MaxElems = 6
  MaxRuns = 2
  Requests <- MCRequests
  WordSize = 2
  PageSize = 3
  MaxSz = 6
  MaxValue = 2
  NumTags = 2
  NumTests = 3
  MaxLarge = 5
SPECIFICATION FairSpec
CHECK_DEADLOCK FALSE
INVARIANTS
  BatchTypeOK
  EveryBufferOnce
  HeadersInStep
  TagsExact
  UnwrittenIsErased
  FifoOrder
  ReadsPass
  SleepsOnlyIf
  ValuesInPlace
PROPERTIES
  BatchesAnswered
  OneBlockEach
  Finishes
