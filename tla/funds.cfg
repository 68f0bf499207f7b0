CONSTANTS
  a1 = a1
  a2 = a2
  m1 = m1
  Actors = {a1}
  Modules = {m1}
  NoModule = NoModule
  ZeroAddress = ZeroAddress
  ModuleKind <- MCModuleKind
  Bonds = {0, 1}
  RequestHashes = {}
  MaxClaims = 2
  MaxReplications = 2
  MaxDecisions = 1
  MaxFunds = 2
  owner = owner
  none = none
  replication = replication
  task1 = task1
  task2 = task2
  runner1 = runner1
  runner2 = runner2
  Accounts <- OneAccount
  NoAccount <- none
  MaxAgents = 1
  MaxRewardFunds = 3
  Pools <- OnePool
  Items <- TwoItems
  MaxSteps = 2
  Runners <- TwoRunners
  PoolOf <- TwoItemsPool
  PolicyConfig <- ScaledConfig
  Place <- PlaceOfTwo
  Qualities <- SomeQualities
  Works <- SomeWorks
  Attentions <- SomeAttentions
  MaxPolicyRuns = 2
SPECIFICATION FundsSpec
INVARIANTS Solvent PaidForEvidence PublishedWasBonded ExitsStayOpen
  BudgetsCommitted RewardsCovered RowsFollowChain TotalsAddUp PoolsSuffice
PROPERTIES SettledIsFinal SettlesOnce
SYMMETRY RunnerSymmetry
CHECK_DEADLOCK FALSE
