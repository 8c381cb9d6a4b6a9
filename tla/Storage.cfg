SPECIFICATION StorageSpec
CONSTANTS
  MaxKey = 3
  None = None
  NumLevels = 4
  MaxMemCompactLevel = 1
  L0Trigger = 2
  LevelCapacity <- Capacity
  MaxNode = 3
  MaxHeight = 2
  Scenarios <- Instances
  Threads = {1, 2}
  CacheKeys <- ThreeFiles
  Capacities = {0, 2}
  MinLength = 1
  NoHandle = None
  MaxInserts = 3
INVARIANTS TypeOK ReadsPromised LevelsOrdered IteratorRight FilesReadBack ReadsBesideInserts CacheRight
PROPERTIES Settles
CHECK_DEADLOCK FALSE
