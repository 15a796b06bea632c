CONSTANTS
  Modules = {"rcv_session", "send_session"}
  Signals = {SIGINT}
  Failing = TRUE
  Devices = {audio0, audio1}
SPECIFICATION PhoneSpec
INVARIANTS
  HandlersOnce
  ReverseOrder
  ReleasedOnce
  DeviceShared
PROPERTIES
  ErrorExits
CHECK_DEADLOCK FALSE
