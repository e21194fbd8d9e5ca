SPECIFICATION Spec
CONSTANTS
  Worker = {w1, w2}
  MaxClaims = 2
  MaxTries = 2
  MaxUploads = 2
  MaxFailures = 1
INVARIANTS TypeOK ReadyHasItsObjects
PROPERTIES SettledOnce ArrivedIsKept
SYMMETRY Symmetric
CHECK_DEADLOCK FALSE
