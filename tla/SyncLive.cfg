\* Answers that are too large for the window, RPC calls that fail.
SPECIFICATION FairSpec
CONSTANTS
  Trade = {t1}
  Pass = {p1}
  RouterWindow = 2
  RouterOverlap = 1
  BlockWindow = 3
  BlockOverlap = 1
  StartBack = 1
  Lag = 0
  MaxLogs = 2
  MinLife = 2
  SlowReads = FALSE
  FaultKinds = {"rpc"}
  MaxHead = 3
  MaxFaults = 1
  MaxCrashes = 0
INVARIANTS TypeOK
PROPERTIES ClosesRecorded BlocksCatchUp
CHECK_DEADLOCK FALSE
