\* A list dated past the end of its signer's certificate, by a clock that is ahead.
CONSTANTS
  Revokers = {r1, r2}
  Devices = {d1}
  Channels = {edge}
  Chain <- ChainVal
  NotBefore <- NotBeforeVal
  NotAfter <- NotAfterVal
  Delegate = r1
  Lapses = 2
  Named = {{}, {d1}, {r1}}
  NoList = NoList
  Never = Never
  Floor = 1
  MaxFuture = 1
  Slow = 0
  Fast = 1
  MaxTime = 2
  MaxLists <- OneList
  MaxInbox = 1
  MaxStarts = 2
  MaxFrames = 0
SPECIFICATION MCSpec
INVARIANTS HeldListLoads
CHECK_DEADLOCK FALSE
