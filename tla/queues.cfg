CONSTANTS
  w1 = w1
  g1 = g1
  Workers = {w1}
  Agents = {g1}
  Nobody = Nobody
  MaxJobs = 1
  MaxRuns = 2
  MaxCalls = 2
  MaxHeartbeats = 1
  MaxCrashes = 1
  d1 = d1
  d2 = d2
  Dispatchers = {d1, d2}
  MaxSubjects = 2
  MaxTime = 2
  MaxLag = 1
  Matching = {1}
  PageLimit = 1
  FeedLimit = 1
  MaxAttempts = 2
  MaxStops = 1
SPECIFICATION QueuesSpec
INVARIANTS OneLeasePerJob EvidenceIsOnChain 
PROPERTIES LeaseSpec  DeliveriesEnd
CHECK_DEADLOCK FALSE
