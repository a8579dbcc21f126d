SPECIFICATION Spec
CONSTANTS
  d1 = d1
  d2 = d2
  Devices = {d1, d2}
  Scenes <- OneByOne
  QueueSize = 2
  MaxOnline = 2
  MaxSessions = 1
  WatchDepth = 1
  MaxConnections = 3
INVARIANTS ViewsTrue SessionsWithPeers OutcomesTrue
CHECK_DEADLOCK FALSE
