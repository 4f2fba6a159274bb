\* Stream and account limits: eviction, refusal, what is forgotten when.
CONSTANTS
  Publishers = {p1}
  Kinds = {"session", "telemetry"}
  Watchers = {p1, p2}
  Talkers = {}
  Offenders = {}
  Accounts = {a1, a2}
  Principals = {p1, p2}
  Channels = {ch1, ch2}
  Keys = {}
  NoKey = NoKey
  NoStream = NoStream
  MaxConn = 3
  MaxPublish = 2
  RingSessionEvents = 1
  RingTelemetry = 1
  AccountRingFrames = 1
  MaxStreamsPerAccount = 1
  MaxConnectionsPerAccount = 2
  MaxAccounts = 1
  MaxSubscriptionsPerConnection = 1
  QueueSessionEvents = 1
  QueueTelemetry = 1
  QueueFrames = 2
SPECIFICATION MCSpec
SYMMETRY ChannelSymmetry
INVARIANTS StreamsKept
PROPERTIES WatchedRingStays
CHECK_DEADLOCK FALSE
