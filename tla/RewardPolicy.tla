---------------------------- MODULE RewardPolicy ----------------------------
(***************************************************************************)
(* src/rewards/policy.ts over the vault: a policy run reads what the       *)
(* database says each work item has been paid, derives targets from what   *)
(* the pools hold, pays the difference on chain (src/rewards/settlement.ts)*)
(* and only then inserts the row that remembers it.  Runs may overlap, and *)
(* any run may stop between the chain and the database.                    *)
(*                                                                         *)
(* The share of a pool the policy targets for an item follows from the     *)
(* quality of the work as RewardShares computes it.  What the quality is   *)
(* made of (verdicts, calibration, stakes) is left out: it is arbitrary,   *)
(* and so are the attention the claim gets and the recipient and the agent *)
(* of the work.                                                            *)
(*                                                                         *)
(* A definition whose name begins with Bug is one the model does not use:  *)
(* its neighbour with a defect the properties must notice.                 *)
(***************************************************************************)
EXTENDS ClaimRewardVault, RewardShares

CONSTANTS
  Runners,       \* processes that run the policy
  PoolOf,        \* [Items -> Pools]
  PolicyConfig,  \* POLICY_CONFIG, by pool
  Place,         \* [Items -> Nat]: the order in which the tables list the items
  Qualities,     \* the qualities work may have before the discounts, and 0 of none
  Works,         \* the operators, identities and recipients work may have
  Attentions,    \* the values of combinedAttentionPressureBps
  MaxPolicyRuns  \* bound: policy runs ever started

ASSUME PolicyAssumption ==
  /\ Items # {} /\ IsFiniteSet(Items) /\ PoolOf \in [Items -> Pools]
  /\ MaxPolicyRuns \in Nat

ASSUME ShareAssumption ==
  /\ PolicyConfig \in [Pools -> Config] /\ Place \in [Items -> Nat]
  /\ Qualities \subseteq 0 .. 20000 /\ Attentions \subseteq 5000 .. 25000

VARIABLES
  rows,       \* work_reward_settlements of the policy version, by settlement id
  policyRuns, \* the policy run of each process
  started     \* policy runs started so far

policyVars == <<rows, policyRuns, started>>
allVars == <<rewardVars, policyVars>>

NoRow == [amount |-> 0, accruedTotal |-> 0]
Row == [amount : Wei, accruedTotal : Wei]
Totals == [accrued : 0 .. MaxRewardFunds, count : 0 .. MaxSteps]
Idle == [pc |-> "idle"]
\* accrued: accruedByItem; groups: the pools the run has yet to come to; todo: the
\* items of the present pool it has yet to come to; item: the one just paid.
PolicyRun ==
  {Idle}
  \cup [pc : {"paying", "paid"}, accrued : [Items -> Totals],
        targets : [Items -> 0 .. MaxRewardFunds], groups : SUBSET Pools,
        todo : SUBSET Items, item : Items]

RowsOf(item) == {n \in 1 .. MaxSteps : rows[<<item, n>>] # NoRow}

ReadAccruedRewardTotals ==
  [item \in Items |->
     [accrued |-> SumFunctionOnSet([n \in RowsOf(item) |-> rows[<<item, n>>].amount],
                                   RowsOf(item)),
      count |-> Cardinality(RowsOf(item))]]

PolicyInit ==
  /\ rows = [id \in SettlementIds |-> NoRow]
  /\ policyRuns = [p \in Runners |-> Idle]
  /\ started = 0

ApplyAutomaticRewardPolicy(p) ==
  /\ policyRuns[p] = Idle
  /\ started < MaxPolicyRuns
  /\ started' = started + 1
  /\ policyRuns' = [policyRuns EXCEPT ![p] =
       [pc |-> "paying", accrued |-> ReadAccruedRewardTotals,
        targets |-> [item \in Items |-> 0], groups |-> Pools, todo |-> {},
        item |-> CHOOSE item \in Items : TRUE]]
  /\ UNCHANGED <<rewardVars, rows>>

GroupOf(pool) == {item \in Items : PoolOf[item] = pool}

\* What deriveRewardTargetsForGroup may answer for the work of a pool, by the
\* balance of the pool; the work of other pools is in other groups.
RewardTargets ==
  [pool \in Pools |-> [balance \in 0 .. MaxRewardFunds |->
     {LET Targets == DeriveRewardTargetsForGroup(
                PolicyConfig[pool], GroupOf(pool),
                ApplyCandidateQualityDiscounts(GroupOf(pool), quality, work, Place),
                balance, attention)
      IN [item \in Items |-> IF item \in GroupOf(pool) THEN Targets[item] ELSE 0] :
        quality \in [GroupOf(pool) -> Qualities], work \in [GroupOf(pool) -> Works],
        attention \in Attentions}]]

\* The next pool, whose balance is read now.
NextGroup(p) ==
  /\ policyRuns[p].pc = "paying" /\ policyRuns[p].todo = {}
  /\ \E pool \in policyRuns[p].groups :
       \E targets \in RewardTargets[pool][claimRewardPools[pool]] :
         policyRuns' = [policyRuns EXCEPT
           ![p].groups = @ \ {pool}, ![p].targets = targets,
           ![p].todo = {item \in Items : targets[item] > policyRuns[p].accrued[item].accrued}]
  /\ UNCHANGED <<rewardVars, rows, started>>

NextStep(p, item) == policyRuns[p].accrued[item].count + 1
Delta(p, item) == policyRuns[p].targets[item] - policyRuns[p].accrued[item].accrued
BudgetTopUpBps(i) == IF i = 0 THEN 0 ELSE 5000

BugSettleWorkReward(p, item) ==  \* the failed call is taken for paid
  /\ policyRuns[p].pc = "paying"
  /\ item \in policyRuns[p].todo
  /\ NextStep(p, item) <= MaxSteps
  /\ policyRuns' = [policyRuns EXCEPT ![p].pc = "paid", ![p].item = item, ![p].todo = @ \ {item}]
  /\ \/ \E recipient \in Accounts, i \in AgentIds \cup {0} :
          AccrueWorkReward(PoolOf[item], <<item, NextStep(p, item)>>, recipient, i,
                           Delta(p, item), BudgetTopUpBps(i))
     \/ UNCHANGED rewardVars
  /\ UNCHANGED <<rows, started>>

\* A call that the vault reverts throws and ends the run: see EndPolicyRun.
SettleWorkReward(p, item) ==
  /\ policyRuns[p].pc = "paying"
  /\ item \in policyRuns[p].todo
  /\ NextStep(p, item) <= MaxSteps
  /\ \E recipient \in Accounts, i \in AgentIds \cup {0} :
       AccrueWorkReward(PoolOf[item], <<item, NextStep(p, item)>>, recipient, i,
                        Delta(p, item), BudgetTopUpBps(i))
  /\ policyRuns' = [policyRuns EXCEPT ![p].pc = "paid", ![p].item = item, ![p].todo = @ \ {item}]
  /\ UNCHANGED <<rows, started>>

BugInsertWorkRewardSettlement(p) ==  \* the difference for the new total
  LET run == policyRuns[p]
      id == <<run.item, NextStep(p, run.item)>>
  IN /\ run.pc = "paid"
     /\ rows[id] = NoRow
     /\ rows' = [rows EXCEPT ![id] = [amount |-> Delta(p, run.item),
                                      accruedTotal |-> Delta(p, run.item)]]
     /\ policyRuns' = [policyRuns EXCEPT
          ![p].pc = "paying",
          ![p].accrued[run.item] = [accrued |-> run.targets[run.item],
                                    count |-> NextStep(p, run.item)]]
     /\ UNCHANGED <<rewardVars, started>>

\* The settlement id is the primary key.
InsertWorkRewardSettlement(p) ==
  LET run == policyRuns[p]
      id == <<run.item, NextStep(p, run.item)>>
  IN /\ run.pc = "paid"
     /\ rows[id] = NoRow
     /\ rows' = [rows EXCEPT ![id] = [amount |-> Delta(p, run.item),
                                      accruedTotal |-> run.targets[run.item]]]
     /\ policyRuns' = [policyRuns EXCEPT
          ![p].pc = "paying",
          ![p].accrued[run.item] = [accrued |-> run.targets[run.item],
                                    count |-> NextStep(p, run.item)]]
     /\ UNCHANGED <<rewardVars, started>>

\* Nothing is left to pay, a call throws, or the process stops: between the chain
\* and the database too, where a mined transaction may also be answered by an error.
EndPolicyRun(p) ==
  /\ policyRuns[p] # Idle
  /\ policyRuns' = [policyRuns EXCEPT ![p] = Idle]
  /\ UNCHANGED <<rewardVars, rows, started>>

PolicyStep ==
  \E p \in Runners :
    \/ ApplyAutomaticRewardPolicy(p) \/ NextGroup(p)
    \/ \E item \in Items : SettleWorkReward(p, item)
    \/ InsertWorkRewardSettlement(p) \/ EndPolicyRun(p)

PolicyNext ==
  \/ FundingStep /\ UNCHANGED policyVars
  \/ PolicyStep

PolicyInitial == AgentInit /\ VaultInit /\ PolicyInit

PolicySpec == PolicyInitial /\ [][PolicyNext]_allVars

-----------------------------------------------------------------------------
(***************************************************************************)
(* Properties.                                                             *)
(***************************************************************************)

\* Every variable of the two contracts and of the policy holds a value of its
\* type; the budgets and pools of unsigned integers never pass zero.
PolicyTypeOK ==
  /\ agents \in [AgentIds -> AgentRecord]
  /\ agentControllers \in [AgentIds -> SUBSET Accounts]
  /\ nextAgentId \in 1 .. MaxAgents + 1
  /\ {agentDepositsPaused, vaultDepositsPaused} \subseteq BOOLEAN
  /\ {agentRegistryBalance, fundsReceived, vaultBalance} \subseteq 0 .. MaxRewardFunds
  /\ claimRewardPools \in [Pools -> 0 .. MaxRewardFunds]
  /\ accruedRewardBalances \in [Accounts -> 0 .. MaxRewardFunds]
  /\ settledRewards \subseteq SettlementIds
  /\ settledAmounts \in [SettlementIds -> 0 .. MaxRewardFunds]
  /\ rows \in [SettlementIds -> Row \cup {NoRow}]
  /\ policyRuns \in [Runners -> PolicyRun]
  /\ started \in 0 .. MaxPolicyRuns

SettledSteps(item) == {n \in 1 .. MaxSteps : <<item, n>> \in settledRewards}
PaidUpTo(item, n) ==
  SumFunctionOnSet([k \in 1 .. n |-> settledAmounts[<<item, k>>]], 1 .. n)

\* The rows never say more than the chain, and of an item at most one step less:
\* a payment whose row was lost stands in the way of the next one, which has the
\* same settlement id, so that no crash and no overlap of policy runs pays a step
\* twice or loses sight of two.
RowsFollowChain ==
  \A item \in Items :
    /\ RowsOf(item) \subseteq SettledSteps(item)
    /\ \A n \in RowsOf(item) : rows[<<item, n>>].amount = settledAmounts[<<item, n>>]
    /\ \A n \in SettledSteps(item) : (1 .. (n - 1)) \subseteq RowsOf(item)

\* The accrued total in a row is what the chain has paid the item up to that
\* step, though it is derived from totals that were read before other runs paid;
\* budgets and pools never pass zero on the way.
TotalsAddUp ==
  /\ PolicyTypeOK
  /\ \A item \in Items : \A n \in RowsOf(item) :
       rows[<<item, n>>].accruedTotal = PaidUpTo(item, n)

\* The steps of an item a run knows to be settled, its own last payment included.
KnownSteps(p, item) ==
  policyRuns[p].accrued[item].count
    + (IF policyRuns[p].pc = "paid" /\ policyRuns[p].item = item THEN 1 ELSE 0)

\* A run that has missed no settlement of the pool's items.
UpToDate(p, pool) ==
  \A item \in GroupOf(pool) : SettledSteps(item) = 1 .. KnownSteps(p, item)

\* What a run has yet to pay from the pool.
Outstanding(p, pool) ==
  SumFunctionOnSet([item \in Items |-> Delta(p, item)], policyRuns[p].todo \cap GroupOf(pool))

\* The pool covers what a run has yet to pay from it, though the balance was read
\* before the run's first payment and every target rounded by itself: of the runs
\* that overlap, only one that missed a settlement can find the pool too small.
PoolsSuffice ==
  \A p \in Runners, pool \in Pools :
    policyRuns[p] # Idle /\ UpToDate(p, pool) => Outstanding(p, pool) <= claimRewardPools[pool]

\* "Withdrawals, refunds, settlements, and resolutions must never sit behind this
\* switch" (DepositPausable): a settlement that meets the vault's requirements
\* goes through, whichever deposits are paused.
SettlementsStayOpen ==
  \A pool \in Pools, id \in SettlementIds, amount \in Wei, recipient \in Accounts,
     i \in AgentIds \cup {0} :
    Accruable(pool, id, recipient, i, amount, BudgetTopUpBps(i)) =>
      ENABLED AccrueWorkReward(pool, id, recipient, i, amount, BudgetTopUpBps(i))
=============================================================================
