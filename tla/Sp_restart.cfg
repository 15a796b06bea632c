CONSTANTS
  MaxConns = 2
  Ids = {1, 2}
  Addrs <- MCAddrs
  SP_TIMEOUT_REG_NR = 1
  MaxEntries = 2
  MaxTests = 1
  Client = {c1, c2}
  UdpAddrs = {u1, u2}
  MaxSessions = 2
  MaxQueue = 1
  Faults = {"server_restart", "kill", "silent", "reset"}
SPECIFICATION Spec
SYMMETRY Symmetry
INVARIANTS
  TypeOK
  EventsMatchClients
  CallHasSession
  CallHasTimeout
CHECK_DEADLOCK FALSE
