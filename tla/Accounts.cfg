\* One user, two requests at once, first logins that overlap, one failure or crash.
SPECIFICATION Spec
CONSTANTS
  User = {u1}
  Network = {n1}
  Client = {c1, c2}
  Ops = {"nonce", "login", "refresh", "logout", "register", "approve"}
  Overlaps = {"nonce", "login", "refresh"}
  AccessLife = 1
  MaxClock = 1
  MaxLogins = 2
  MaxFaults = 1
INVARIANTS TypeOK OneCTHasWallet  SessionsCounted FlagsFollowContract
SYMMETRY Clients
CHECK_DEADLOCK FALSE
