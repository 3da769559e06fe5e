SPECIFICATION FairSpec
CONSTANTS
  Clients = {c1, c2, c3}
  NoConn = NoConn
  Listener = Listener
  Backlog = 1
  MaxRequests = 2
  MayStop = TRUE
  Errors = 1
  MaxRestarts = 1
CHECK_DEADLOCK FALSE
INVARIANTS
  TypeOK
  LastInWins
  NoEventForDeleted
  AcceptFindsOne
PROPERTIES
  EveryClientAccepted
  DisconnectNoticed
  ClientsGetThrough
