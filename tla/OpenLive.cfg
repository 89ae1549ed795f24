SPECIFICATION FairSpec
CONSTANTS
  Trade = {t1}
  MaximumRetry = 1
  QuantityTxTrade = 2
  MaxDuration = 1
  Kinds = {TRUE, FALSE}
  Requests = {"update"}
  EarlyCreate = FALSE
  Overlap = 0
  HeadLag = 0
  MaxRejects = 0
  MaxCrashes = 1
PROPERTIES QueuedResolves RetriesEnd GivenUpOnlyAfterRetries
CHECK_DEADLOCK FALSE
