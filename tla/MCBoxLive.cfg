\* Fair: the version asked at the start and after an upgrade, a key and a silence meanwhile.
SPECIFICATION FairSpec
CONSTANTS
  Modules = {}
  Patterns <- MCPatterns
  Broken = {}
  NoName = NoName
  NoFile = NoFile
  Starts <- LiveStarts
  Pressed = {"up", "down", "power", "ok", "home", "opt"}
  Chunks = 1
  Capacity = 1
  AskedAtStart = TRUE
  Upgrades = 1
INVARIANTS
  FirmwareIntact
PROPERTIES
  VersionAnswered
  UpgradeReturns
  QueueDrains
CHECK_DEADLOCK FALSE
