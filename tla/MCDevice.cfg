SPECIFICATION MCSpec
CONSTANTS
  NumTags = 2
  NumStages = 2
  FifoDepth = 1
  KeyValDepth = 2
  Scripts <- MCScripts
  NumPages = 2
  NumChips = 2
  PagesPerBlock = 2
  Blocks = 3
  BadBlocks <- MCBadBlocks
  ReorderBufs = 2
  Requests <- MCRequests
CHECK_DEADLOCK FALSE
INVARIANTS
  TagsExact
  EomLast
  OwnAnswer
  ReadsOwnValue
  ErasedAgainOnlyIf
PROPERTIES
  AllAnswered
  StoreAnswers
