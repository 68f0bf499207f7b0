CONSTANTS
  a1 = a1
  a2 = a2
  Forecasters = {a1, a2}
  Agent = Agent
  NoAgent = NoAgent
  ClaimIds = {1}
  DecisionIds = {1, 2}
  MIN_CHALLENGE_DURATION = 1
  FORECAST_RECLAIM_DELAY = 1
  MaxForecasts = 1
  MaxChallenges = 1
  MaxWindow = 1
  MaxTime = 3
  MaxMarketFunds = 3
SPECIFICATION BoundedSpec
SYMMETRY Symmetric
INVARIANTS MarketSolvent NoFreeOption
PROPERTIES EndsOnce
CHECK_DEADLOCK FALSE
