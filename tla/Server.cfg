\* One peer reads, the other does not; a connect or a departure can overflow the
\* neighbour's queue.
CONSTANTS
  Conns = {c1, c2}
  Watched = {c1}
  Deaf = {c2}
  QueueFrames = 2
  Batch = 1
SPECIFICATION MCFairSpec
INVARIANTS NobodyLeftBehind WakeReachesWriter
PROPERTIES SocketsEnd
CHECK_DEADLOCK FALSE
