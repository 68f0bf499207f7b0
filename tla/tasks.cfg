CONSTANTS
  g1 = g1
  x1 = x1
  Reviewers = {g1}
  NoReviewer = NoReviewer
  ReviewPolicies <- SmallPolicies
  ReviewCallIds = {1, 2}
  MaxReviewTasks = 1
  MaxReviewRuns = 3
  MaxReviewBeats = 1
  Replicas = {x1}
  Maintainers = {g1}
  NoMaintainer = NoMaintainer
  MaintenanceCalls = {1, 2}
  MaxTaskRuns = 2
  MaxDamages = 1
  MaxAgentActs = 2
  MaxStops = 1
SPECIFICATION TasksSpec
INVARIANT ReviewsCounted
PROPERTIES SlotsComeFree ReplicasHeal
CHECK_DEADLOCK FALSE
