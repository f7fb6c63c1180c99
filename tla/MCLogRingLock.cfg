SPECIFICATION LogSpec
CONSTANTS
  LogCore = {1, 2}
  LogLen = 2
  FlushMax = 2
  MaxLogs = 2
  MaxFlushes = 0
  MaxLogNmis = 2
CHECK_DEADLOCK FALSE
PROPERTIES
  LockReleased
