CONSTANTS
  s1 = s1
  s2 = s2
  Syncers = {s1}
  NoSyncer = NoSyncer
  BatchSize = 2
  MaxFaults = 0
  MaxBlocks = 5
  MaxStatus = 2
  MaxReorgs = 0
  Depth = 1
SPECIFICATION FairSpec
PROPERTIES ReplaysFromLogs
CHECK_DEADLOCK FALSE
