\* A welcome and the presence of others, queued together.
CONSTANTS
  NoCall = NoCall
  MaxFrames = 4
  MaxCalls = 1
SPECIFICATION ClientSpec
INVARIANT DirectoryReachesTheCaller
CHECK_DEADLOCK FALSE
