SPECIFICATION MCSpec
CONSTANTS
  c1 = c1
  c2 = c2
  Flusher = Flusher
  None = None
  Clients <- MCClients
  Ops <- MCOps
  ReqSize <- MCReqSize
  NumBufs = 2
  BufSize = 3
  BodySizes = {1}
  Sets = 1
  Gets = 1
  MaxReqs = 3
  FlushAt = 2
  Total = 4
  MaxEoms = 2
SYMMETRY MCSymmetry
CHECK_DEADLOCK FALSE
INVARIANTS
  PhasesApart
  NothingBeforeInit
  SlabsInMemory
  HangsOnlyIf
