CONSTANTS
  s1 = s1
  s2 = s2
  Syncers = {s1, s2}
  NoSyncer = NoSyncer
  BatchSize = 2
  MaxFaults = 1
  MaxBlocks = 4
  MaxStatus = 2
  MaxReorgs = 1
  Depth = 1
SPECIFICATION BoundedSpec
INVARIANTS RowsFollowLog RowsConverge
PROPERTIES StopsOnFork KeepsUp
CHECK_DEADLOCK FALSE
