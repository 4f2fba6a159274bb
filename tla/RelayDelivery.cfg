\* Session events and telemetry on two streams: slow consumers, resumed positions,
\* coalescing, drops across streams, the rings' ends.
CONSTANTS
  Publishers = {p1}
  Kinds = {"session", "telemetry"}
  Watchers = {p2}
  Talkers = {}
  Offenders = {}
  Accounts = {a1}
  Principals = {p1, p2}
  Channels = {ch1, ch2}
  Keys = {x}
  NoKey = NoKey
  NoStream = NoStream
  MaxConn = 2
  MaxPublish = 3
  RingSessionEvents = 2
  RingTelemetry = 1
  AccountRingFrames = 2
  MaxStreamsPerAccount = 2
  MaxConnectionsPerAccount = 2
  MaxAccounts = 1
  MaxSubscriptionsPerConnection = 2
  QueueSessionEvents = 2
  QueueTelemetry = 2
  QueueFrames = 3
SPECIFICATION MCSpec
SYMMETRY ChannelSymmetry
INVARIANTS TypeOK QueueSound LossAccounted NoLostWake
PROPERTIES PlainFramesKept
CHECK_DEADLOCK FALSE
