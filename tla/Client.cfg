SPECIFICATION HotkeyClientSpec
CONSTANTS
  NSessions = 2
  NStopCalls = 2
  SocketFaults = 1
  WindowActions = {"cancel"}
  Served = TRUE
CHECK_DEADLOCK FALSE
INVARIANTS
  HotkeyClientInv
