CONSTANTS
  RTP_SEQ_MOD = 3
  MAX_DROPOUT = 2
  MAX_MISORDER = 1
  COUNTER_MOD = 2
  Ssrc = {0, 1, 2}
  Addr = {a1, a2}
  SenderAddr = a1
  SEC = 2
  MS = 3
  SEC_MOD = 3
  UINT_MOD = 64
  RTCP_REPORT_INTERVAL_S = 1
  Offset = 1
  MaxDelay = 3
  MaxLate = 0
  MaxClock = 7
  MaxPackets = 2
  MaxReports = 3
SPECIFICATION MCSpec
INVARIANTS
  SessionReusable
  ReportsHaveDestination
  RttMeasured
CHECK_DEADLOCK FALSE
