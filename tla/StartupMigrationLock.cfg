SPECIFICATION Spec
CONSTANTS
  Instance = {i1, i2}
  Timeout = 2
  MaxSkew = 0
  MaxHistory = 1
  MaxIoErrors = 2
  MaxErrors = 2
  MaxCrashes = 2
  NoInstance = NoInstance
INVARIANTS TypeOK HistoryIsComplete OneRunnerPerAttempt WaitersSawAnOutcome
PROPERTIES SettledByItsRunner StealsOnlyExpired NobodyWaitsForEver
CHECK_DEADLOCK FALSE
