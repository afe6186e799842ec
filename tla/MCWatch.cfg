SPECIFICATION PartsSpec
CONSTANTS
  Completions = 2
  MaxVersion = 5
  MaxErrors = 2
  total = 3
  Others = {g1, g2}
  Threads = {t1, t2}
  IPs = {i1, i2}
  None = None
  Workers = {w1, w2, w3}
  numCID = 4
  numCEP = 4
  maxNumCRApplyAttempts = 2
INVARIANTS
  NoEarlyReturn QuietBeforeCleanup OthersKeepHosts AsksItsInstance
  ErrorIffMissing
PROPERTIES
  PassedOnlyAfterReset WaitsEnd
