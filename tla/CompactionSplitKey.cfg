SPECIFICATION Spec
CONSTANTS
  MaxKey = 3
  None = None
  NumLevels = 4
  MaxMemCompactLevel = 1
  L0Trigger = 2
  LevelCapacity <- Capacity
  Scenarios <- SplitKey
INVARIANT ReadsPromised
CHECK_DEADLOCK FALSE
