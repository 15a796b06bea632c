CONSTANTS
  MaxConns = 2
  Ids = {1, 2}
  Addrs <- MCAddrs
  SP_TIMEOUT_REG_NR = 2
  MaxEntries = 2
  MaxTests = 2
  Client = {c1, c2}
  UdpAddrs = {u1, u2}
  MaxSessions = 1
  MaxQueue = 1
  Faults = {"client_stop", "file_error"}
SPECIFICATION MCFairSpec
INVARIANTS
  OrdersAreObeyed
  LoggedOnce
PROPERTIES
  CallsEnd
CHECK_DEADLOCK FALSE
