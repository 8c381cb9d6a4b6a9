CONSTANTS
  MaxCalls = 3
  Readers = {r1}
  Manuals = {m1}
  None = None
  Scenarios <- TornRecord
  MemCapacity = 1
  MaxGroup = 2
  L0Compaction = 1
  L0Slowdown = 1
  L0Stop = 2
SPECIFICATION Spec
CHECK_DEADLOCK FALSE
PROPERTIES
  KillKeepsAcknowledged
