SPECIFICATION Spec
CONSTANTS
  Clients = {a1, a2}
  Ports = {1, 2}
  Fds = {1, 2, 3, 4, 5}
  MaxConn = 2
  MaxCalls = 4
  NoClient = NoClient
CHECK_DEADLOCK FALSE
SYMMETRY Symmetry
INVARIANTS OneHandlerPerClient FoundHandlerIsAlive
PROPERTIES ClientsKept StopLeavesNothing
