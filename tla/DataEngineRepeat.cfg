SPECIFICATION Spec
CONSTANTS
  Rev = {r1, r2, r3}
  Avp = {a1, a2}
  Field = {f1}
  Value = {v1, v2}
  None = None
  Client = {c1, c2}
  MaxRetries = 1
  MaxCalls = 3
SYMMETRY Symmetric
CHECK_DEADLOCK FALSE
PROPERTY RecordPutsKeepHistory
