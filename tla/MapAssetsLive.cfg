SPECIFICATION Spec
CONSTANTS
  Worker = {w1, w2}
  MaxClaims = 2
  MaxTries = 2
  MaxUploads = 1
  MaxFailures = 2
PROPERTIES EveryUploadSettles
CHECK_DEADLOCK FALSE
