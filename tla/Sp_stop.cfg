CONSTANTS
  MaxConns = 3
  Ids = {1, 2, 3}
  Addrs <- MCAddrs
  SP_TIMEOUT_REG_NR = 1
  MaxEntries = 3
  MaxTests = 1
  Client = {c1, c2}
  UdpAddrs = {u1, u2, u3}
  MaxSessions = 1
  MaxQueue = 1
  Faults = {"client_stop"}
SPECIFICATION Spec
SYMMETRY Symmetry
INVARIANTS
  StartedHasAddress
  PublicAddressRight
CHECK_DEADLOCK FALSE
