\* One switch, of a module whose directory is missing.
SPECIFICATION HistorySpec
CONSTANTS
  Callers = {"box", "pool"}
  Guards <- MCGuards
  Configs <- MCConfigs
  Signals <- MCSignals
  Budgets <- MCBudgets
  MaxLine = 1
INVARIANTS
  SuccessMeansOn
CHECK_DEADLOCK FALSE
