SPECIFICATION FairSpec
CONSTANTS
  front = front
  back = back
  w1 = w1
  w2 = w2
  w3 = w3
  p1 = p1
  Stages <- MCStages
  Pipeline <- MCPipeline
  Killer = killer
  Workers = {w1, w2}
  Producers = {p1}
  Controllers = {c1}
  Events = {e1, e2}
  KillEvent = killevent
  None = None
  InitialThreads = {w1, w2}
  AddSizes = {1}
  KillSizes = {2}
  SpuriousConds = {"disconnect"}
PROPERTIES
  ImplementsStageQueue
  EventuallyServed
  DisconnectReturns
  KillReturns
CHECK_DEADLOCK FALSE
