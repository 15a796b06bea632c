CONSTANTS
  RTP_SEQ_MOD = 5
  MAX_DROPOUT = 2
  MAX_MISORDER = 3
  COUNTER_MOD = 2
  Ssrc = {0}
  Addr = {a1}
  Window = 2
  MaxLead = 9
  MaxSent = 7
  MaxCycles = 2
  MaxRestarts = 1
  SilenceThreshold = 1
  Faults = {"loss", "dup", "empty", "rcv_error"}
SPECIFICATION Spec
INVARIANTS
  PlayedInOrder
  StreamInv
PROPERTIES
  ImplementsOrder
CHECK_DEADLOCK FALSE
