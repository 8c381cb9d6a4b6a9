CONSTANTS
  MaxCalls = 3
  Readers = {r1}
  Manuals = {m1}
  None = None
  Scenarios <- Instances
  MemCapacity = 1
  MaxGroup = 2
  L0Compaction = 1
  L0Slowdown = 1
  L0Stop = 2
SPECIFICATION FairSpec
CHECK_DEADLOCK FALSE
INVARIANTS
  TypeOK
  FilesPresent
  ReadsStable
  SequencesFresh
  NobodySleepsAlone
PROPERTIES
  StoreSpec
  KillKeepsAcknowledged
  CallsReturn
