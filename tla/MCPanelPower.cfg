\* Fair: two switches by two threads, with a fault and a change of module or with
\* heat, and one switch with all of them.
SPECIFICATION FairSpec
CONSTANTS
  Callers = {"box", "pool"}
  Guards <- MCGuards
  Configs <- MCConfigs
  Signals <- MCSignals
  Budgets <- MCBudgets
  MaxLine = 1
INVARIANTS
  LoneSwitchAgrees
PROPERTIES
  FaultShutsDown
CHECK_DEADLOCK FALSE
