\* One synchronisation at a time: power cuts, a full disk, lost packages, UPDATEFILE.
SPECIFICATION FairSpec
CONSTANTS
  f1 = f1
  f2 = f2
  f3 = f3
  m1 = m1
  m2 = m2
  Files = {f1, f2, f3}
  Versions = {1, 2}
  InCfg = {f1, f2}
  Modules = {m1, m2}
  Offers <- MCOffers
  MemMax = 2
  SetMax = 1
  Chunks = 1
  MaxOpen = 1
  MaxSyncs = 3
  MaxCuts = 2
  MaxLost = 1
  MaxFull = 1
  MaxUpdates = 1
  Absent = Absent
  Torn = Torn
  NoModule = NoModule
INVARIANTS
  RecordsTrue
  MemIsTail
  FinishedMeansPresent
  ModuleIsSynced
  AnswerFindsSet
PROPERTY SyncEnds
CHECK_DEADLOCK FALSE
