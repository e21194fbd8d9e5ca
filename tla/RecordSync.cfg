SPECIFICATION Spec
CONSTANTS
  Device = {d1, d2}
  Server = server
  Editor = {d1, d2}
  Rev = {r1, r2, r3, r4}
  MaxVersion = 5
  MaxStamps = 1
  MaxOpen = 1
INVARIANTS TypeOK HistoryIsReachable AcknowledgedIsKept
PROPERTIES Converges
CHECK_DEADLOCK FALSE
