SPECIFICATION Spec
CHECK_DEADLOCK FALSE
CONSTANTS
  Min = 2
  Max = 16
  MinOk = 100
  MaxOk = 800
  MaxSearches = 2
  Gammas = {even, uneven}
  Uneven = {uneven}
  Zero = zero
  Mixed = mixed
  BurnVcoms = {0, 7, 9}
  Scenarios <- MCScenarios
INVARIANTS
  ValleyFound
  OkMeansHeld
PROPERTIES
  SearchesBounded
  StopReturns
