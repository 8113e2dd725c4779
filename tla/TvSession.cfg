CONSTANTS
  Channels = {c1, c2}
  Loaders = {l1, l2}
  None = None
SPECIFICATION Spec
INVARIANTS StreamIsCurrent ZapPending ReleasedStaysClosed
PROPERTIES Reconnects
CHECK_DEADLOCK FALSE
