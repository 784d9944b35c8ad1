SPECIFICATION HostSpec
CONSTANTS
  c1 = c1
  c2 = c2
  Conns <- MCConns
  Subscribers <- MCSubscribers
  MaxInstances = 2
  MaxAttempts = 2
  IdleStop = TRUE
  QueueCap = 1
  MaxEvents = 2
CHECK_DEADLOCK TRUE
INVARIANTS
  StopsCleanly
  NewestEventKept
PROPERTIES
  ServiceEnds
  IdleServiceStops
