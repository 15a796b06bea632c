CONSTANTS
  RTP_SEQ_MOD = 8
  MAX_DROPOUT = 4
  MAX_MISORDER = 3
  COUNTER_MOD = 16
  Ssrc = {0, 1}
  Addr = {a1}
  Window = 0
  MaxLead = 3
  MaxSent = 18
  MaxCycles = 3
  MaxRestarts = 0
  SilenceThreshold = 1
  Faults = {"loss", "dup", "silence", "send_error"}
SPECIFICATION Spec
INVARIANTS
  NormalIsConsecutive
  CyclesTrackStream
  StreamSurvives
CHECK_DEADLOCK FALSE
