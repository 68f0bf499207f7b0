SPECIFICATION PolicySpec
CONSTANTS
  owner = owner
  none = none
  replication = replication
  task1 = task1
  task2 = task2
  runner1 = runner1
  runner2 = runner2
  Accounts <- OneAccount
  NoAccount <- none
  MaxAgents = 1
  MaxRewardFunds = 3
  Pools <- OnePool
  Items <- OneItem
  MaxSteps = 2
  Runners <- TwoRunners
  PoolOf <- OneItemPool
  PolicyConfig <- ScaledConfig
  Place <- PlaceOfOne
  Qualities <- SomeQualities
  Works <- SomeWorks
  Attentions <- SomeAttentions
  MaxPolicyRuns = 3
SYMMETRY RunnerSymmetry
INVARIANT SettlementsStayOpen
