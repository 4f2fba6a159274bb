\* Three principals with short queues: presence, direct envelopes, offences, and
\* closes that cause closes.
CONSTANTS
  Publishers = {}
  Kinds = {}
  Watchers = {}
  Talkers = {p1}
  Offenders = {p1}
  Accounts = {a1}
  Principals = {p1, p2, p3}
  Channels = {ch}
  Keys = {}
  NoKey = NoKey
  NoStream = NoStream
  MaxConn = 4
  MaxPublish = 0
  RingSessionEvents = 1
  RingTelemetry = 1
  AccountRingFrames = 1
  MaxStreamsPerAccount = 1
  MaxConnectionsPerAccount = 3
  MaxAccounts = 1
  MaxSubscriptionsPerConnection = 1
  QueueSessionEvents = 1
  QueueTelemetry = 1
  QueueFrames = 3
SPECIFICATION MCSpec
INVARIANTS RegistryAgrees DirectoryConverges
SYMMETRY BystanderSymmetry
CHECK_DEADLOCK FALSE
