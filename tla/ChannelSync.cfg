CONSTANTS
  Jobs = {j1, j2}
  Setup = setup
  None = None
  Numbers = {n1, n2}
  MaxChanges = 1
SPECIFICATION Spec
INVARIANTS SyncedIsServerList OneRowPerNumber StopHonoured
SYMMETRY Symmetry
CHECK_DEADLOCK FALSE
