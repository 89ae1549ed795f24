SPECIFICATION FairSpec
CONSTANTS
  Trade = {t1}
  MaxCopies = 2
  MaximumRetry = 2
  QuantityTxTrade = 1
  Punctual = TRUE
  Reread = FALSE
  LostAnswers = TRUE
  FaultKinds = {}
  MaxRejects = 1
  MaxFaults = 0
  MaxCrashes = 1
  Closers = {t1}
  MaxPending = 1
INVARIANTS EarlyCloseHasOption NoTradeForgotten
PROPERTY OpenedCloses
CHECK_DEADLOCK FALSE
