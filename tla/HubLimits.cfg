\* Two connections of one account, debts that do not divide by the rate.
CONSTANTS
  Conns = {c1, c2}
  Rate = 3
  Burst = 2
  Milli = 4
  ConnectCost = 2
  RefuseAbove = 1
  ChunkCosts = {1, 2}
  FanOutCosts = {0, 1}
  MaxClock = 8
  MaxSpent = 8
  MaxAdmits = 4
\* More accounts than slots, on three shards.
  s1 = s1  s2 = s2  s3 = s3
  a1 = a1  a2 = a2  a3 = a3  a4 = a4
  Shards <- MCShards
  Accounts <- MCAccounts
  ShardOf <- MCShardOf
  NoAccount = NoAccount
  MaxAccounts = 2
\* Three sockets, two places; an address of its own and one behind a proxy.
  Socks = {k1, k2, k3}
  Peers = {d1, d2}
  Proxies = {d2}
  NoPeer = NoPeer
  MaxSockets = 3
  MaxPending = 2
  MaxPairing = 1
  UsRate = 2
  UsScale = 3
  UsBurst = 1
  NoHelloUs = 1
  RefusedHelloUs = 3
  PerMinute = 2
  Minute = 3
  ArrivalBurst = 3
  Whole = 2
  MaxTracked = 1
  MaxTime = 6
\* Two codes, one slot, and a code offered again after its slot expired.
  Codes = {h1, h2}
  Sockets = {o1, o2}
  Devices = {e1}
  Nothing = Nothing
  Lifetime = 2
  MaxSlots = 1
  MaxMoment = 5
SPECIFICATION MCSpec
SYMMETRY Alike
INVARIANTS NothingMinted PaidBeforeHandedOver ConnectsPaidWhileHeld
INVARIANTS AccountsCounted StrangersPaced ArrivalsWithinRate AnswersGoToOneSocket
CHECK_DEADLOCK FALSE
