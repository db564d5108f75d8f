SPECIFICATION FairSpec
CONSTANTS
  Clients = {c1, c2}
  Workers = {w1, w2}
  Loop = Loop
  None = None
  BufSize = 3
  SockCap = 2
  MsgSizes = {1, 2, 4}
  ReplySize = 2
  MaxRequests = 2
  AcceptFaults = {"early", "event"}
INVARIANTS
  ContextOutlivesRequests
  RequestNotOverwritten
  OneRequestOneReply
PROPERTY
  ReplyArrives
CHECK_DEADLOCK FALSE
