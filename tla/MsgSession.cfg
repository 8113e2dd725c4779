SPECIFICATION Spec
CONSTANTS
  Callers = {c1, c2}
  Terminators = {c2}
  Worker = worker
  NoThread = NoThread
  Addrs = {a1, a2}
  NoAddr = NoAddr
  MaxUid = 2
  MaxConn = 2
  MaxWire = 2
SYMMETRY Symmetry
INVARIANTS
  TypeOK QueueOwned ResponseMatches SessionServed SessionUsable LossIsOfThisSession
PROPERTY CloseLeavesNothing
