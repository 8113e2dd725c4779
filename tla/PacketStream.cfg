CONSTANTS
  Writers = {w1, w2}
  Ids = {1, 2, 3}
  Length <- MCLength
  Checked = {1, 3}
  Lookalike = {2}
  Capacity = 3
  MaxWrites = 3
SPECIFICATION Spec
INVARIANTS IntactInOrder OnlySentPackets
PROPERTIES CloseReported
CHECK_DEADLOCK FALSE
