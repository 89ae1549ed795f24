\* A limit and a market order, a window of two prices, an update, a failed call, a restart.
SPECIFICATION Spec
CONSTANTS
  Trade = {t1, t2}
  Limit = {t1}
  Partial = {}
  Strikes = {4}
  NewStrikes = {8}
  Prices = {5, 6}
  Scale = 4
  Slippage = 1
  Window = 2
  MaxOI = 2
  MaxClock = 1
  MaxUpdates = 1
  MaxFailures = 1
  MaxCrashes = 1
INVARIANTS TypeOK OneSecondApart InterestBounded SubmittedNearStrike
CHECK_DEADLOCK FALSE
