SPECIFICATION FairSpec
CONSTANTS
  Trade = {t1}
  MaxCopies = 2
  MaximumRetry = 2
  QuantityTxTrade = 1
  Punctual = TRUE
  Reread = TRUE
  LostAnswers = FALSE
  FaultKinds = {}
  MaxRejects = 1
  MaxFaults = 0
  MaxCrashes = 1
  Closers = {}
  MaxPending = 1
PROPERTIES AttemptsEnd ImplementsLedger
CHECK_DEADLOCK FALSE
