SPECIFICATION FairSpec
CONSTANTS
  c1 = c1
  c2 = c2
  okServer = okServer
  errorServer = errorServer
  noServer = noServer
  Client = {c1, c2}
  Server = {okServer, errorServer, noServer}
  Port = {p}
  Worlds <- Mixed
  None = None
  Steps = {0, 1}
  IdSpace = 2
  QueueCap = 1
  MaxPings = 3
INVARIANTS
  TypeOK
  SuccessIsOwnAnswer
  RejectionIsForeign
  StrangerOnlyBeforeConnect
  NoPortLeak
PROPERTIES
  EveryPingReturns
