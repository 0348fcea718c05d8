\* Keys, silence, power switched elsewhere and a synchronisation.
SPECIFICATION Spec
CONSTANTS
  Modules = {m0, m1}
  Patterns <- MCPatterns
  Broken = {m1}
  NoName = NoName
  NoFile = NoFile
  Starts <- NavStarts
  Pressed = {"up", "down", "power", "ok", "home"}
  Chunks = 1
  Capacity = 1
  AskedAtStart = FALSE
  Upgrades = 0
INVARIANTS
  ConnectedIsConsistent
  GateOpensAgain
CHECK_DEADLOCK FALSE
