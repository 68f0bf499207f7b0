--------------------------- MODULE MCRewardPolicy ---------------------------
(***************************************************************************)
(* Small instances of RewardPolicy: one agent, whose operator is also the  *)
(* recipient of rewards, and work items of one pool.                       *)
(***************************************************************************)
EXTENDS RewardPolicy, TLC

CONSTANTS owner, none, replication, task1, task2, runner1, runner2

OneAccount == {owner}
OnePool == {replication}
OneItem == {task1}
OneItemPool == [i \in OneItem |-> replication]
TwoItems == {task1, task2}
TwoItemsPool == [i \in TwoItems |-> replication]

(* The rates of POLICY_CONFIG for replications, the amounts scaled down.    *)
ScaledConfig ==
  [p \in OnePool |-> [baseReward |-> 4, distributionFraction |-> 7000, fundingTarget |-> 2,
                      minimumQuality |-> 7500]]
PlaceOfOne == [i \in OneItem |-> 1]
PlaceOfTwo == [i \in TwoItems |-> IF i = task1 THEN 1 ELSE 2]
SomeQualities == {0, 8000, 12000}
SomeWorks ==
  {[operator |-> owner, identity |-> owner, recipient |-> owner],
   [operator |-> none, identity |-> none, recipient |-> none]}
SomeAttentions == {10000, 25000}

OneRunner == {runner1}
TwoRunners == {runner1, runner2}

RunnerSymmetry == Permutations(TwoRunners)
=============================================================================
