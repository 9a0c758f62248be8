SPECIFICATION Spec
CONSTANTS
  c1 = c1
  c2 = c2
  Flusher = Flusher
  None = None
  Clients <- MCClients
  Ops = {"GET"}
  ReqSize <- MCReqSize
  NumBufs = 2
  BufSize = 3
  BodySizes = {1}
  MaxReqs = 1
INVARIANT ResultDelivered
