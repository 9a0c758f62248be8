SPECIFICATION FairSpec
CONSTANTS
  c1 = c1
  c2 = c2
  Flusher = Flusher
  None = None
  Clients = {c1}
  Ops <- MCOps
  ReqSize <- MCReqSize
  NumBufs = 2
  BufSize = 3
  BodySizes = {1, 2}
  MaxReqs = 2
PROPERTY ServedOtherwise
