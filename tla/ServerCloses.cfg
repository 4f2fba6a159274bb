\* A neighbour whose queue is full when somebody connects.
CONSTANTS
  Conns = {c1, c2}
  Watched = {c1, c2}
  Deaf = {}
  QueueFrames = 3
  Batch = 1
SPECIFICATION Spec
INVARIANT ClosesAreActedOn
CHECK_DEADLOCK FALSE
