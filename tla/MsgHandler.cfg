SPECIFICATION FairSpec
CONSTANTS
  Notifiers = {n1, n2}
  Handler = handler
  NoThread = NoThread
  Persistent = TRUE
  QueueSize = 1
  MaxNotify = 4
  MaxReconnect = 2
CHECK_DEADLOCK FALSE
INVARIANTS TypeOK
PROPERTIES  StopReturnsUnlessWakeupLost NotifyReturns LossParksHandler
