SPECIFICATION Spec
CONSTANTS
  Worker = {w1}
  MaxClaims = 1
  MaxTries = 1
  MaxUploads = 2
  MaxFailures = 1
INVARIANTS ReadyIsTheUpload
CHECK_DEADLOCK FALSE
