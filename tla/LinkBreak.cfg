\* A late heartbeat hides the new connection from the guard.
SPECIFICATION HistorySpec
CONSTANTS
  MaxFd = 3
  Limit = 2
  Leaves = 2
INVARIANT AllConnectionsEnd
CHECK_DEADLOCK FALSE
