CONSTANTS
  w1 = w1
  g1 = g1
  Workers = {}
  Agents = {g1}
  Nobody = Nobody
  MaxJobs = 1
  MaxRuns = 2
  MaxCalls = 1
  MaxHeartbeats = 0
  MaxCrashes = 0
SPECIFICATION JobsSpec
PROPERTIES CompletedByItsLease
CHECK_DEADLOCK FALSE
