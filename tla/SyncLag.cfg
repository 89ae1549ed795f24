\* Nodes that lag behind the head, slow reads, every kind of failure, a crash.
SPECIFICATION Spec
CONSTANTS
  Trade = {t1}
  Pass = {p1}
  RouterWindow = 2
  RouterOverlap = 1
  BlockWindow = 1
  BlockOverlap = 2
  StartBack = 1
  Lag = 1
  MaxLogs = 3
  MinLife = 1
  SlowReads = TRUE
  FaultKinds = {"rpc", "read", "write"}
  MaxHead = 3
  MaxFaults = 1
  MaxCrashes = 1
INVARIANTS NoCloseSkipped NoOpenSkipped
SYMMETRY Symmetry
CHECK_DEADLOCK FALSE
