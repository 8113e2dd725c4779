SPECIFICATION Spec
CONSTANTS
  Callers = {c1, c2}
  Terminators = {}
  Worker = worker
  NoThread = NoThread
  Addrs = {a1, a2}
  NoAddr = NoAddr
  MaxUid = 1
  MaxConn = 2
  MaxWire = 1
INVARIANT OpenFailsOnlyIfUnreachable
