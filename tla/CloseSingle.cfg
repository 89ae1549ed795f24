SPECIFICATION Spec
CONSTANTS
  Trade = {t1}
  MaxCopies = 2
  MaximumRetry = 2
  QuantityTxTrade = 2
  Punctual = FALSE
  Reread = FALSE
  LostAnswers = FALSE
  FaultKinds = {"price", "read", "write", "tx"}
  MaxRejects = 2
  MaxFaults = 1
  MaxCrashes = 0
  Closers = {t1}
  MaxPending = 2
INVARIANTS TypeOK OneAttemptAtATime
CHECK_DEADLOCK FALSE
