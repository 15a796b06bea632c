CONSTANTS
  Fds = {f1, f2}
  Callbacks = {c1, c2}
  MaxTime = 2
  MaxEvents = 3
  MaxOps = 2
SPECIFICATION MCSpec
INVARIANTS
  SavedNextLive
  TimersSorted
PROPERTIES
  TimersOnTime
  NoSpuriousCallback
  NothingAfterExit
  InputServed
CHECK_DEADLOCK FALSE
