SPECIFICATION Spec
CONSTANTS
  Rev = {r1, r2, r3}
  Avp = {a1, a2}
  Field = {f1, f2}
  Value = {v1, v2}
  Session = {s1, s2}
  None = None
SYMMETRY Symmetric
INVARIANTS TypeOK HeadsAreLeaves TombstoneStaysHead ExclusiveInv AvpsOfOwnLine
PROPERTIES OnlyEditedLeafChanges SaveTakesEffect
CHECK_DEADLOCK FALSE
