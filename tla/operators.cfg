CONSTANTS
  a1 = a1
  m1 = m1
  p1 = p1
  p2 = p2
  x1 = x1
  x2 = x2
  h1 = h1
  h2 = h2
  s1 = s1
  q1 = q1
  q2 = q2
  w1 = w1
  w2 = w2
  Actors = {a1}
  Modules = {m1}
  NoModule = NoModule
  ZeroAddress = ZeroAddress
  ModuleKind <- MCModuleKind
  Bonds = {0}
  RequestHashes = {h1}
  MaxClaims = 2
  MaxReplications = 2
  MaxDecisions = 2
  Resolvers = {p1, p2}
  MaxRequests = 2
  MaxAppeals = 2
  MaxAppealBond = 2
  Executors = {x1, x2}
  NoExecutor = NoExecutor
  PublishRequests = {h2}
  MaxArtifacts = 2
  Sources = {s1}
  Candidates = {w1, w2}
  NoCandidate = NoCandidate
  Publishers = {q1, q2}
  k1 = k1
  k2 = k2
  e1 = e1
  ReputationActors = {1, 2}
  DomainClaims = {1}
  DomainAgents = {}
  Engines = {e1}
  CheckpointPublishers = {k1, k2}
  LeaderboardPage = 1
  MaxPayloads = 2
  MaxPublications = 2
SPECIFICATION BoundedSpec
INVARIANTS  BondsFollowVerdicts WritesComplete OneClaimPerSource
  CheckpointsAccounted
SYMMETRY Symmetric
CHECK_DEADLOCK FALSE
