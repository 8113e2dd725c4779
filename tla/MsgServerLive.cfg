SPECIFICATION FairSpec
CONSTANTS
  Clients = {a1}
  Ports = {1}
  Fds = {1, 2, 3, 4}
  MaxConn = 2
  MaxCalls = 3
  NoClient = NoClient
CHECK_DEADLOCK FALSE
PROPERTIES  AcceptedIsServed  IncomingAcceptedUnlessDeaf
