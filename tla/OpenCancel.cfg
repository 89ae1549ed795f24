SPECIFICATION Spec
CONSTANTS
  Trade = {t1, t2}
  MaximumRetry = 1
  QuantityTxTrade = 2
  MaxDuration = 1
  Kinds = {TRUE}
  Requests = {"cancel"}
  EarlyCreate = FALSE
  Overlap = 0
  HeadLag = 0
  MaxRejects = 0
  MaxCrashes = 0
PROPERTIES CancelOnlyQueued
CHECK_DEADLOCK FALSE
