SPECIFICATION Spec
CONSTANTS
  Clients = {c1, c2}
  NoConn = NoConn
  Listener = Listener
  Backlog = 2
  MaxRequests = 2
  MayStop = TRUE
  Errors = 0
  MaxRestarts = 0
CHECK_DEADLOCK FALSE
INVARIANT
  ClosingIsSafe
