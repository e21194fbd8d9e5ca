SPECIFICATION Spec
CONSTANTS
  Asset = {a1, a2}
  Hash = {h1, h2}
  Download = {d1, d2}
  Cleaner = {g1}
  MaxTransfers = 1
  MaxRestarts = 1
  None = None
INVARIANTS TypeOK NeverTorn SlotsAreHeld
PROPERTIES DeletesOnlyUnnamed EveryCallReturns
CHECK_DEADLOCK FALSE
