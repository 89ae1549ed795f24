\* Two passes of the block job at once, a write that fails.
SPECIFICATION Spec
CONSTANTS
  Trade = {t1}
  Pass = {p1, p2}
  RouterWindow = 2
  RouterOverlap = 1
  BlockWindow = 1
  BlockOverlap = 1
  StartBack = 1
  Lag = 0
  MaxLogs = 3
  MinLife = 2
  SlowReads = FALSE
  FaultKinds = {"write"}
  MaxHead = 3
  MaxFaults = 1
  MaxCrashes = 0
INVARIANTS CloseFindsTrade
PROPERTIES ClosedStaysClosed ImplementsLedger
SYMMETRY Symmetry
CHECK_DEADLOCK FALSE
