\* One trade with two objects in one process, retries, a rejection, a crash and the reload.
SPECIFICATION Spec
CONSTANTS
  Trade = {t1}
  MaximumRetry = 2
  QuantityTxTrade = 2
  MaxDuration = 1
  Kinds = {TRUE}
  Requests = {"cancel"}
  EarlyCreate = TRUE
  Overlap = 1
  HeadLag = 0
  MaxRejects = 1
  MaxCrashes = 1
INVARIANTS TypeOK OneCallPerObject OpenedOnChain CallBounds
PROPERTIES OpenedUndoneOnlyLate  ImplementsLedger
CHECK_DEADLOCK FALSE
