SPECIFICATION FairSpec
CONSTANTS
  Callers = {c1, c2}
  Terminators = {c2}
  Worker = worker
  NoThread = NoThread
  Addrs = {a1}
  NoAddr = NoAddr
  MaxUid = 1
  MaxConn = 1
  MaxWire = 1
PROPERTIES TransmitReturns CloseReturns LossNoticed
