\* Fair: the PC leaves and returns, multicasts get lost.
SPECIFICATION FairSpec
CONSTANTS
  MaxFd = 2
  Limit = 1
  Leaves = 1
INVARIANT OnlyForgottenLeak
PROPERTY WatchedIsLeft
CHECK_DEADLOCK FALSE
