\* Two threads that add jobs, either of which may destroy the pool.
SPECIFICATION FairSpec
CONSTANTS
  Workers = {w1, w2}
  Callers = {c1, c2}
  Destroyers = {c1, c2}
  Jobs = {j1, j2, j3, j4}
  NoJob = NoJob
  QueueMax = 2
INVARIANTS
  FifoExactlyOnce
  NoLostWakeup
  NoUseAfterFree
PROPERTIES
  AcceptedJobsRun
  DestroyReturns
  ImplementsJobService
CHECK_DEADLOCK FALSE
