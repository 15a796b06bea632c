CONSTANTS
  RTP_SEQ_MOD = 12
  MAX_DROPOUT = 4
  MAX_MISORDER = 3
  COUNTER_MOD = 16
  Ssrc = {0, 1}
  Addr = {a1}
  Window = 0
  MaxLead = 12
  MaxSent = 10
  MaxCycles = 3
  MaxRestarts = 1
  SilenceThreshold = 1
  Faults = {"loss"}
SPECIFICATION Spec
INVARIANTS
  BadPacketKeepsRunning
CHECK_DEADLOCK FALSE
