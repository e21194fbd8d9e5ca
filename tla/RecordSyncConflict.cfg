SPECIFICATION Spec
CONSTANTS
  Device = {d1, d2}
  Server = server
  Editor = {d1, d2}
  Rev = {r1, r2, r3, r4}
  MaxVersion = 4
  MaxStamps = 1
  MaxOpen = 1
INVARIANTS ConflictIsShown
CHECK_DEADLOCK FALSE
