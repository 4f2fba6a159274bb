\* One invocation at a time, two accounts.
CONSTANTS
  Procs = {p1}
  Owners = {w1, w2}
  Absent = Absent  Torn = Torn  Blank = Blank
  MaxKeys = 4
SPECIFICATION BoxSpec
INVARIANT PairedConnectorsStart
CHECK_DEADLOCK FALSE
