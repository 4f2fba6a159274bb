\* Two revokers, a device one of them paired, a list of each and a restart.
CONSTANTS
  Revokers = {r1, r2}
  Devices = {d1}
  Channels = {edge}
  Chain <- ChainVal
  NotBefore <- NotBeforeVal
  NotAfter <- NotAfterVal
  Delegate = r1
  Lapses = 2
  Named = {{}, {d1}, {r1}}
  NoList = NoList
  Never = Never
  Floor = 1
  MaxFuture = 0
  Slow = 0
  Fast = 1
  MaxTime = 2
  MaxLists <- OneList
  MaxInbox = 1
  MaxStarts = 2
  MaxFrames = 1
SPECIFICATION MCSpec
INVARIANTS TypeOK ExcludedHoldNothing WrittenBeforeActedOn ListsArmTheFloor KeyStartExact
PROPERTIES DiskOnlyAdvances KnownRevokersAreHeard
CHECK_DEADLOCK FALSE
