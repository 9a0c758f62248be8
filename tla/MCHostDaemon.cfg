SPECIFICATION Spec
CONSTANTS
  c1 = c1
  c2 = c2
  Flusher = Flusher
  None = None
  Clients <- MCClients
  Ops <- MCOps
  ReqSize <- MCReqSize
  NumBufs = 2
  BufSize = 3
  BodySizes = {1, 2}
  MaxReqs = 1
INVARIANTS
  TypeOK
  SourceBufferFree
  AnswersNotOverwritten
  HeadersInStep
  OutstandingExact
  NoRequestLost
